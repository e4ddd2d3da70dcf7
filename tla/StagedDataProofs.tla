---------------------------- MODULE StagedDataProofs ----------------------------
(***************************************************************************)
(* Proofs about the memory that StagedRun binds and the data that comes    *)
(* back: the bytes behind each address suffice for the shapes of the       *)
(* context, and after success the outputs are those of the call's own      *)
(* inputs, for any engine, requests, streams, buffers and contexts.        *)
(***************************************************************************)
EXTENDS StagedRunProofs

-----------------------------------------------------------------------------
(* The bindings of a call.                                                  *)

(* The steps of a call on a context that has the shapes of the call.        *)
Fixed == {"outputs", "enqueue", "copy_out", "synchronize"}

(* Those that come after the shapes were set.                               *)
Staging == Fixed \cup {"inputs"}

(* A binding is the last of its tensor: the one that counts.                *)
IsLast(bindings, i) ==
    \A j \in DOMAIN bindings : j > i => bindings[j].name # bindings[i].name

(* Dims are those that a list of shapes sets.                               *)
Agrees(dims, list) ==
    \A i \in DOMAIN list : IsLast(list, i) => dims[list[i].name] = list[i].dims

(* Validation refuses no input after the first.                             *)
LaterFit(inputs) == \A i \in 2 .. Len(inputs) : Fits(Tensors, inputs[i], "input")

(* What a context remembers of shapes is what it was set to, if no shapes   *)
(* are set before a refusal.                                                *)
ShapesRemembered ==
    /\ DOMAIN shapes = Contexts
    /\ \A c \in Contexts :
         /\ DOMAIN shapes[c] = {"dims", "cached"}
         /\ shapes[c].dims \in [Named("input") -> UNION {DimsOf(n) : n \in Named("input")}]
         /\ \A n \in Named("input") : shapes[c].dims[n] \in DimsOf(n)
         /\ \A a \in ToSet(shapes[c].cached) : a.name \in Named("input")
         /\ RefusedFirst => Agrees(shapes[c].dims, shapes[c].cached)

(* The call is of the types of the bindings.                                *)
CallAsked ==
    Busy => /\ call.id \in Ids /\ call.stream \in Streams
            /\ IsSeq(call.inputs) /\ (RefusedFirst => LaterFit(call.inputs))
            /\ \A b \in ToSet(call.inputs) : IsBinding(b) /\ b.dims \in DimsOf(b.name)
            /\ IsSeq(call.outputs) /\ (OutputsOnce => Distinct(call.outputs))
            /\ ~CopiesOut(call.kind) =>
                   \A b \in ToSet(call.outputs) : b.at = "device" /\ b.dtypes # {}
            /\ call.step \in {"infer", "infer_shapes"} => call.kind = "allocating"

(* The bytes of a binding are those of its shape and of the engine's type.  *)
Sized(b, mode) ==
    /\ Fits(Tensors, b, mode)
    /\ b.bytes \in TensorByteLen(b.dims, Tensors[b.name].dtype, MaxSize)

(* An address is that of a temporary buffer of the bytes of the binding, or *)
(* of the caller's memory.                                                  *)
PlacedAt(a, b, copies) ==
    IF copies THEN \E m \in call.temps : a = Temporary(m) /\ size[m] = b.bytes
    ELSE a = CallerMemory(call.id, b)

(* The inputs and outputs of which the call has the addresses were checked. *)
CallBound ==
    Busy => /\ Len(call.bound) <= Len(call.inputs) /\ Len(call.targets) <= Len(call.outputs)
            /\ call.step \in Early => Len(call.bound) = 0
            /\ call.step \in Early \cup {"inputs"} => Len(call.targets) = 0
            /\ call.step \in Fixed => Len(call.bound) = Len(call.inputs)
            /\ \A i \in DOMAIN call.bound :
                   /\ Sized(call.inputs[i], "input")
                   /\ PlacedAt(call.bound[i], call.inputs[i], call.inputs[i].at = "staged")
            /\ \A i \in DOMAIN call.targets :
                   /\ Sized(call.outputs[i], "output")
                   /\ PlacedAt(call.targets[i], call.outputs[i], CopiesOut(call.kind))

(* No buffer is used for two of them.                                       *)
Apart ==
    Busy => /\ \A i, j \in DOMAIN call.bound :
                   call.bound[i].of = "buffer" /\ call.bound[i] = call.bound[j] => i = j
            /\ \A i, j \in DOMAIN call.targets :
                   call.targets[i].of = "buffer" /\ call.targets[i] = call.targets[j] => i = j
            /\ \A i \in DOMAIN call.bound, j \in DOMAIN call.targets :
                   call.bound[i].of = "buffer" => call.bound[i] # call.targets[j]

(* The context has the shapes of the call, inputs and outputs.              *)
CallShapes ==
    Busy => /\ call.step \in Staging =>
                   /\ \A i \in DOMAIN call.inputs : call.inputs[i].name \in Named("input")
                   /\ RefusedFirst => Agrees(shapes[Held].dims, call.inputs)
            /\ call.step \in Fixed =>
                   \A i \in DOMAIN call.targets :
                       ContextDims(Held)[call.outputs[i].name] = call.outputs[i].dims

(* The address of tensor n, if it has one, is that of its own binding, the  *)
(* last one of an input.                                                    *)
AddressOf(n, a) ==
    \/ a = NullAddress
    \/ \E i \in DOMAIN call.bound :
          call.inputs[i].name = n /\ a = call.bound[i] /\ IsLast(call.inputs, i)
    \/ \E i \in DOMAIN call.targets : call.outputs[i].name = n /\ a = call.targets[i]

(* Addresses of the context are null until they are set from the bindings.  *)
CallAddressed ==
    Busy => /\ call.step \in {"infer_shapes", "shapes", "inputs"} =>
                   \A n \in DOMAIN Tensors : address[Held][n] = NullAddress
            /\ call.step \in Fixed =>
                   \A n \in DOMAIN Tensors : AddressOf(n, address[Held][n])

(* The queued work of the call is of its bindings.                          *)
WorkOf(work) ==
    \/ /\ work.op = "copy_in"
       /\ \E i \in DOMAIN call.bound : /\ call.inputs[i].name = work.name
                                       /\ call.bound[i] = Temporary(work.buffer)
    \/ /\ work.op = "infer" /\ call.step \notin Starting
       /\ Len(call.bound) = Len(call.inputs) /\ Len(call.targets) = Len(call.outputs)
       /\ \A n \in DOMAIN Tensors : /\ work.address[n] # NullAddress
                                    /\ AddressOf(n, work.address[n])
    \/ /\ work.op = "copy_out" /\ call.step \notin Starting
       /\ \E i \in DOMAIN call.targets : /\ i <= call.copied
                                         /\ call.outputs[i].name = work.name
                                         /\ call.targets[i] = Temporary(work.buffer)

(* So is all of its queued work.                                            *)
CallWork ==
    Busy => \A s \in Streams : \A work \in ToSet(queue[s]) : work.id = call.id => WorkOf(work)

Covered == RefusedFirst => BoundCovers

(* The strengthening, beside IInv, for the bytes behind addresses.          *)
BInv ==
    /\ ShapesRemembered /\ CallAsked /\ CallBound /\ Apart /\ CallShapes /\ CallAddressed
    /\ CallWork /\ Covered

(***************************************************************************)
(* Data                                                                    *)
(***************************************************************************)
HoldsOutputs(id) ==
    \A n \in DOMAIN results[id].holds : results[id].holds[n] = OutputOf(id, n)

(* What results are of.                                                     *)
ResultsTyped ==
    /\ DOMAIN memory = DOMAIN size
    /\ DOMAIN results = Ids
    /\ \A id \in Ids : DOMAIN results[id] = {"status", "holds"}
    /\ \A g \in guards : g.id \in Ids /\ g.stream \in Streams /\ results[g.id].status # "ok"
    /\ Busy => /\ results[call.id].status # "ok"
               /\ DOMAIN results[call.id].holds =
                      {call.outputs[i].name : i \in DOMAIN call.outputs}

(* The order of a call's work: inputs, the inference, outputs.              *)
Rank(op) == IF op = "copy_in" THEN 0 ELSE IF op = "infer" THEN 1 ELSE 2

(* The work of one call is queued in this order.                            *)
Ordered ==
    \A s \in Streams : \A i, j \in DOMAIN queue[s] :
        i < j /\ queue[s][i].id = queue[s][j].id => Rank(queue[s][i].op) <= Rank(queue[s][j].op)

(* An inference of a call waits on a stream.                                *)
Infering(s, id) == \E work \in ToSet(queue[s]) : work.op = "infer" /\ work.id = id

(* A copy to the buffer of the call's input i waits.                        *)
CopyingIn(i) ==
    \E work \in ToSet(queue[call.stream]) :
        /\ work.op = "copy_in" /\ work.id = call.id
        /\ call.bound[i] = Temporary(work.buffer)

(* A copy of the call's output i waits.                                     *)
CopyingOut(i) ==
    \E work \in ToSet(queue[call.stream]) :
        /\ work.op = "copy_out" /\ work.id = call.id
        /\ work.name = call.outputs[i].name

(* Inputs that are staged are copied, or will be.                           *)
Loaded ==
    Busy /\ ~broken =>
        \A i \in DOMAIN call.bound : call.bound[i].of = "buffer" =>
            CopyingIn(i) \/ Read(call.bound[i]) = InputOf(call.id, call.inputs[i].name)

(* The call's inference was enqueued, and it may still succeed.             *)
Launched == \/ call.step \in {"copy_out", "synchronize"}
            \/ call.step = "return" /\ call.ok = TRUE /\ call.kind = "enqueue"

(* Then outputs are computed, and copied back.                              *)
Computing ==
    Busy /\ Launched =>
        /\ Len(call.targets) = Len(call.outputs)
        /\ ~broken =>
               \/ Infering(call.stream, call.id)
               \/ IF CopiesOut(call.kind)
                  THEN \A i \in DOMAIN call.targets :
                           Read(call.targets[i]) = OutputOf(call.id, call.outputs[i].name)
                  ELSE HoldsOutputs(call.id)

(* The first outputs have been queued to be copied, and hold what is computed*)
(* once that is done.                                                       *)
CopiedBack ==
    Busy => /\ call.step \in Starting => call.copied = 0
            /\ call.step = "copy_out" => call.copied <= Len(call.outputs)
            /\ call.step = "synchronize" /\ CopiesOut(call.kind) =>
                   call.copied = Len(call.outputs)
            /\ call.step \in {"copy_out", "synchronize"} /\ CopiesOut(call.kind) /\ ~broken =>
                   \A i \in 1 .. call.copied :
                       LET name == call.outputs[i].name IN
                         CopyingOut(i) \/ results[call.id].holds[name] = OutputOf(call.id, name)

(* A call returns success when its outputs are computed and its work done.  *)
Concluded ==
    Busy /\ call.step = "return" /\ call.ok = TRUE /\ call.kind # "enqueue" =>
        HoldsOutputs(call.id) /\ NoWorkOf(call.id)

(* A call whose guard is held.                                              *)
Guarded(g) ==
    /\ ~broken => Infering(g.stream, g.id) \/ HoldsOutputs(g.id)
    /\ DOMAIN results[g.id].holds \subseteq Named("output")
    /\ \A work \in ToSet(queue[g.stream]) : work.id = g.id =>
           /\ work.op = "infer"
           /\ \A n \in DOMAIN Tensors : /\ work.address[n].of = "caller"
                                        /\ work.address[n].name = n

(* The strengthening, beside IInv and BInv, for the outputs.                *)
DInv ==
    /\ ResultsTyped /\ Ordered /\ Loaded /\ Computing /\ CopiedBack /\ Concluded
    /\ \A g \in guards : Guarded(g)
    /\ ReturnsComputed

-----------------------------------------------------------------------------
(* The bytes of a shape: folds over its dimensions.                         *)

(* A set of numbers that has 0 and the successor of each of its elements    *)
(* has all of them.                                                         *)
LEMMA SetInduction ==
    ASSUME NEW S, 0 \in S, \A n \in Nat : n \in S => n + 1 \in S
    PROVE  Nat \subseteq S
<1> SUFFICES ASSUME ~ (Nat \subseteq S) PROVE FALSE
  OBVIOUS
<1> DEFINE T == Nat \ S
<1>1. T \in SUBSET Nat /\ T # {}
  OBVIOUS
<1>2. PICK m \in T : \A k \in T : m <= k
  <2> HIDE DEF T
  <2> QED BY <1>1, LeastElement
<1>3. m # 0 /\ m \in Nat
  OBVIOUS
<1>4. m - 1 \in Nat /\ ~ (m - 1 \in T)
  BY <1>2, <1>3
<1>5. m - 1 \in S
  BY <1>4
<1>6. m - 1 + 1 \in S
  BY <1>4, <1>5
<1> QED BY <1>3, <1>6

(* The largest number of a set of positions.                                *)
LEMMA LargestPosition ==
    ASSUME NEW k \in Nat, NEW S \in SUBSET (1 .. k + 1), k + 1 \in S
    PROVE  Max(S) = k + 1
<1>1. k + 1 \in S /\ \A y \in S : k + 1 >= y
  OBVIOUS
<1>2. ASSUME NEW x \in S, \A y \in S : x >= y PROVE x = k + 1
  BY <1>1, <1>2
<1> QED BY <1>1, <1>2 DEF Max


(* A dimension is counted into the elements of those before it, if it can.  *)
CountedIn(n, d) == IF d < 0 THEN {} ELSE Times(n, d, MaxSize)

(* What the steps of TensorByteLen's fold come to, set by set: the folds are*)
(* over sets, and take away the maximum.                                    *)
Counting(dims, k, it) ==
    it = [s \in SUBSET (1 .. k) |->
             IF s = {} THEN {1} ELSE CountedIn(it[s \ {Max(s)}], dims[Max(s)])]

(* The bytes of the dimensions at positions up to k.                        *)
Multiplying(dims, bytes, k, it) ==
    it = [s \in SUBSET (1 .. k) |->
             IF s = {} THEN bytes ELSE it[s \ {Max(s)}] * dims[Max(s)]]

(* There are such counts for every list of dimensions.                      *)
LEMMA CountsExist ==
    ASSUME NEW dims
    PROVE  \A k \in Nat : \E it : Counting(dims, k, it)
<1> DEFINE Has == {k \in Nat : \E it : Counting(dims, k, it)}
<1>1. 0 \in Has
  <2> DEFINE it == [s \in SUBSET (1 .. 0) |-> {1}]
  <2>1. \A s \in SUBSET (1 .. 0) : s = {}
    OBVIOUS
  <2>2. Counting(dims, 0, it)
    BY <2>1 DEF Counting
  <2> QED BY <2>2
<1>2. ASSUME NEW k \in Nat, k \in Has PROVE k + 1 \in Has
  <2>1. PICK it : Counting(dims, k, it)
    BY <1>2
  <2> DEFINE next == [s \in SUBSET (1 .. k + 1) |->
                         IF k + 1 \in s THEN CountedIn(it[s \ {k + 1}], dims[k + 1])
                         ELSE it[s]]
  <2>2. ASSUME NEW s \in SUBSET (1 .. k + 1)
        PROVE  next[s] = IF s = {} THEN {1} ELSE CountedIn(next[s \ {Max(s)}], dims[Max(s)])
    <3>1. CASE k + 1 \in s
      <4>1. Max(s) = k + 1
        BY <3>1, LargestPosition
      <4>2. s \ {k + 1} \in SUBSET (1 .. k + 1) /\ k + 1 \notin s \ {k + 1}
        OBVIOUS
      <4>3. next[s \ {k + 1}] = it[s \ {k + 1}]
        BY <4>2
      <4> QED BY <3>1, <4>1, <4>3
    <3>2. CASE s = {}
      <4>1. s \in SUBSET (1 .. k)
        BY <3>2
      <4>2. it[s] = {1}
        BY <2>1, <3>2, <4>1 DEF Counting
      <4> QED BY <3>2, <4>2
    <3>3. CASE k + 1 \notin s /\ s # {}
      <4>1. s \in SUBSET (1 .. k)
        BY <3>3
      <4>2. it[s] = CountedIn(it[s \ {Max(s)}], dims[Max(s)])
        BY <2>1, <3>3, <4>1 DEF Counting
      <4>3. s \ {Max(s)} \in SUBSET (1 .. k + 1) /\ k + 1 \notin s \ {Max(s)}
        BY <3>3
      <4> QED BY <3>3, <4>2, <4>3
    <3> QED BY <3>1, <3>2, <3>3
  <2>3. next = [s \in SUBSET (1 .. k + 1) |-> next[s]]
    OBVIOUS
  <2> HIDE DEF next
  <2>4. Counting(dims, k + 1, next)
    BY <2>2, <2>3 DEF Counting
  <2> QED BY <2>4
<1> HIDE DEF Has
<1>3. Nat \subseteq Has
  BY <1>1, <1>2, SetInduction
<1> QED BY <1>3 DEF Has

(* And such bytes.                                                          *)
LEMMA ProductsExist ==
    ASSUME NEW dims, NEW bytes
    PROVE  \A k \in Nat : \E it : Multiplying(dims, bytes, k, it)
<1> DEFINE Has == {k \in Nat : \E it : Multiplying(dims, bytes, k, it)}
<1>1. 0 \in Has
  <2> DEFINE it == [s \in SUBSET (1 .. 0) |-> bytes]
  <2>1. \A s \in SUBSET (1 .. 0) : s = {}
    OBVIOUS
  <2>2. Multiplying(dims, bytes, 0, it)
    BY <2>1 DEF Multiplying
  <2> QED BY <2>2
<1>2. ASSUME NEW k \in Nat, k \in Has PROVE k + 1 \in Has
  <2>1. PICK it : Multiplying(dims, bytes, k, it)
    BY <1>2
  <2> DEFINE next == [s \in SUBSET (1 .. k + 1) |->
                         IF k + 1 \in s THEN it[s \ {k + 1}] * dims[k + 1] ELSE it[s]]
  <2>2. ASSUME NEW s \in SUBSET (1 .. k + 1)
        PROVE  next[s] = IF s = {} THEN bytes ELSE next[s \ {Max(s)}] * dims[Max(s)]
    <3>1. CASE k + 1 \in s
      <4>1. Max(s) = k + 1
        BY <3>1, LargestPosition
      <4>2. s \ {k + 1} \in SUBSET (1 .. k + 1) /\ k + 1 \notin s \ {k + 1}
        OBVIOUS
      <4>3. next[s \ {k + 1}] = it[s \ {k + 1}]
        BY <4>2
      <4> QED BY <3>1, <4>1, <4>3
    <3>2. CASE s = {}
      <4>1. s \in SUBSET (1 .. k)
        BY <3>2
      <4>2. it[s] = bytes
        BY <2>1, <3>2, <4>1 DEF Multiplying
      <4> QED BY <3>2, <4>2
    <3>3. CASE k + 1 \notin s /\ s # {}
      <4>1. s \in SUBSET (1 .. k)
        BY <3>3
      <4>2. it[s] = it[s \ {Max(s)}] * dims[Max(s)]
        BY <2>1, <3>3, <4>1 DEF Multiplying
      <4>3. s \ {Max(s)} \in SUBSET (1 .. k + 1) /\ k + 1 \notin s \ {Max(s)}
        BY <3>3
      <4> QED BY <3>3, <4>2, <4>3
    <3> QED BY <3>1, <3>2, <3>3
  <2>3. Multiplying(dims, bytes, k + 1, next)
    BY <2>2 DEF Multiplying
  <2> HIDE DEF next
  <2> QED BY <2>3
<1> HIDE DEF Has
<1>3. Nat \subseteq Has
  BY <1>1, <1>2, SetInduction
<1> QED BY <1>3 DEF Has

(* element_count, and what TensorRT multiplies, are folds of these.         *)
LEMMA CountIsFold ==
    ASSUME NEW dims, NEW S, dims \in Seq(S)
    PROVE  \E it : Counting(dims, Len(dims), it) /\ ElementCount(dims, MaxSize) = it[1 .. Len(dims)]
<1>1. DOMAIN dims = 1 .. Len(dims) /\ Len(dims) \in Nat
  OBVIOUS
<1>2. \E it : Counting(dims, Len(dims), it)
  BY <1>1, CountsExist
<1> QED BY <1>1, <1>2 DEF ElementCount, FoldLeft, MapThenFoldSet, Counting, CountedIn

(* The bytes that the engine accesses are such a product.                   *)
LEMMA BytesAreFold ==
    ASSUME NEW dims, NEW S, dims \in Seq(S), NEW raw, NEW bytes, bytes = RawBytes[raw.dtype + 1]
    PROVE  \E it : /\ Multiplying(dims, bytes, Len(dims), it)
                   /\ AccessedBytes(raw, dims) = it[1 .. Len(dims)]
<1>1. DOMAIN dims = 1 .. Len(dims) /\ Len(dims) \in Nat
  OBVIOUS
<1>2. \E it : Multiplying(dims, bytes, Len(dims), it)
  BY <1>1, ProductsExist
<1> QED BY <1>1, <1>2 DEF AccessedBytes, FoldLeft, MapThenFoldSet, Multiplying

(* The checked product, where there is one, is the product.                 *)
LEMMA CountTimesBytes ==
    ASSUME NEW dims \in Seq(Int), NEW raw, NEW bytes \in Int, bytes = RawBytes[raw.dtype + 1],
           NEW n \in ElementCount(dims, MaxSize)
    PROVE  n \in Int /\ AccessedBytes(raw, dims) = n * bytes
<1> DEFINE len == Len(dims)
<1>1. PICK count : Counting(dims, len, count) /\ ElementCount(dims, MaxSize) = count[1 .. len]
  BY CountIsFold
<1>2. PICK it : Multiplying(dims, bytes, len, it) /\ AccessedBytes(raw, dims) = it[1 .. len]
  BY BytesAreFold
<1>3. len \in Nat /\ \A i \in 1 .. len : dims[i] \in Int
  OBVIOUS
<1> HIDE DEF len
<1> DEFINE Has == {k \in Nat : k <= len =>
                      \A m \in count[1 .. k] : m \in Int /\ it[1 .. k] = m * bytes}
<1>4. 0 \in Has
  <2>1. 1 .. 0 = {} /\ 1 .. 0 \in SUBSET (1 .. len)
    OBVIOUS
  <2>2. count[1 .. 0] = {1} /\ it[1 .. 0] = bytes
    BY <1>1, <1>2, <2>1 DEF Counting, Multiplying
  <2>3. 0 \in Nat /\ \A m \in count[1 .. 0] : m \in Int /\ it[1 .. 0] = m * bytes
    BY <2>2
  <2> QED BY <2>3
<1>5. ASSUME NEW k \in Nat, k \in Has PROVE k + 1 \in Has
  <2> SUFFICES ASSUME k + 1 <= len, NEW m \in count[1 .. k + 1]
               PROVE  m \in Int /\ it[1 .. k + 1] = m * bytes
    OBVIOUS
  <2> DEFINE s == 1 .. k + 1
             d == dims[k + 1]
  <2>0. s \in SUBSET (1 .. len) /\ k + 1 \in s /\ k <= len
    BY <1>3
  <2>1. s \in SUBSET (1 .. len) /\ s # {} /\ s \ {k + 1} = 1 .. k /\ s \in SUBSET (1 .. k + 1)
        /\ k + 1 \in s /\ k <= len
    <3>1. (1 .. k + 1) \ {k + 1} = 1 .. k
      OBVIOUS
    <3> QED BY <2>0, <3>1
  <2> HIDE DEF s
  <2>2. Max(s) = k + 1
    BY <2>1, LargestPosition
  <2>3. /\ count[s] = CountedIn(count[1 .. k], d)
        /\ it[s] = it[1 .. k] * d
    BY <1>1, <1>2, <2>1, <2>2 DEF Counting, Multiplying
  <2>4. m \in CountedIn(count[1 .. k], d)
    BY <2>3 DEF s
  <2>5. PICK e \in count[1 .. k] : m = e * d
    BY <2>4 DEF CountedIn, Times
  <2>6. e \in Int /\ it[1 .. k] = e * bytes
    BY <1>5, <2>1
  <2>7. d \in Int
    BY <1>3
  <2> HIDE DEF d
  <2>8. (e * bytes) * d = (e * d) * bytes /\ e * d \in Int
    BY <2>6, <2>7
  <2>9. it[s] = m * bytes /\ m \in Int
    BY <2>3, <2>5, <2>6, <2>8
  <2> QED BY <2>9 DEF s
<1>6. len \in Has
  <2> HIDE DEF Has
  <2>1. Nat \subseteq Has
    BY <1>4, <1>5, SetInduction
  <2> QED BY <1>3, <2>1
<1> QED BY <1>1, <1>2, <1>3, <1>6

(* The bytes that are computed for a type of the engine are those that it   *)
(* accesses: the codes of the types agree.                                  *)
LEMMA BytesAreAccessed ==
    ASSUME NEW dims \in Seq(Int), NEW raw, raw.dtype \in Int,
           NEW n \in TensorByteLen(dims, DataTypeOf(raw.dtype), MaxSize)
    PROVE  n \in Int /\ n = AccessedBytes(raw, dims)
<1>1. DataTypeOf(raw.dtype) \in DOMAIN ElementBytes
  BY DEF TensorByteLen
<1>2. /\ raw.dtype \in 0 .. 8
      /\ RawBytes[raw.dtype + 1] \in Int
      /\ ElementBytes[DataTypeOf(raw.dtype)] = RawBytes[raw.dtype + 1]
  <2> DEFINE code == raw.dtype
  <2>1. code \in 0 .. 11
    BY <1>1 DEF DataTypeOf, ElementBytes
  <2>2. DataTypeOf(code) = DataTypes[code + 1]
    BY <2>1 DEF DataTypeOf
  <2> HIDE DEF code
  <2>3. code # 9 /\ code # 10 /\ code # 11
    BY <1>1, <2>2 DEF DataTypes, ElementBytes, code
  <2>4. code \in {0, 1, 2, 3, 4, 5, 6, 7, 8}
    BY <2>1, <2>3
  <2>5. RawBytes[code + 1] \in Int /\ ElementBytes[DataTypes[code + 1]] = RawBytes[code + 1]
    BY <2>4 DEF DataTypes, ElementBytes, RawBytes
  <2>6. code \in 0 .. 8
    BY <2>4
  <2> QED BY <2>2, <2>5, <2>6 DEF code
<1>3. PICK m \in ElementCount(dims, MaxSize) : n = m * ElementBytes[DataTypeOf(raw.dtype)]
  BY DEF TensorByteLen, Times
<1>4. m \in Int /\ AccessedBytes(raw, dims) = m * RawBytes[raw.dtype + 1]
  BY <1>2, CountTimesBytes
<1> QED BY <1>2, <1>3, <1>4

-----------------------------------------------------------------------------
(* What steps leave of the bindings.                                        *)

(* What was checked of a binding makes its bytes those of its shape.        *)
LEMMA ValidSized ==
    ASSUME NEW b, NEW mode, Fits(Tensors, b, mode), TypeValid(Tensors, b),
           \/ HostBytesValid(Tensors, b, MaxSize)
           \/ DeviceBytesValid(b, MaxSize) /\ b.dtypes # {}
    PROVE  Sized(b, mode)
<1>1. CASE HostBytesValid(Tensors, b, MaxSize)
  BY <1>1 DEF HostBytesValid, Sized
<1>2. CASE DeviceBytesValid(b, MaxSize) /\ b.dtypes # {}
  <2>1. PICK t \in b.dtypes : TRUE
    BY <1>2
  <2>2. Tensors[b.name].dtype = t /\ b.bytes \in TensorByteLen(b.dims, t, MaxSize)
    BY <1>2, <2>1 DEF TypeValid, DeviceBytesValid
  <2> QED BY <2>2 DEF Sized
<1> QED BY <1>1, <1>2

(* They are then those that the engine accesses.                            *)
LEMMA SizedCovers ==
    ASSUME NEW b, NEW mode, Sized(b, mode), b.dims \in Seq(Int)
    PROVE  /\ b.name \in DOMAIN Tensors /\ Tensors[b.name].mode = mode
           /\ b.bytes \in Int /\ b.bytes = AccessedBytes(Engine[b.name], b.dims)
<1>1. b.name \in DOMAIN Tensors /\ Tensors[b.name].mode = mode
  BY DEF Sized, Fits
<1>2. b.name \in DOMAIN Engine /\ Tensors[b.name].dtype = DataTypeOf(Engine[b.name].dtype)
  BY <1>1 DEF Tensors, IoTensor
<1>3. Engine[b.name].dtype \in Int
  BY <1>2, EngineAssumption
<1>4. b.bytes \in TensorByteLen(b.dims, DataTypeOf(Engine[b.name].dtype), MaxSize)
  BY <1>2 DEF Sized
<1> QED BY <1>1, <1>3, <1>4, BytesAreAccessed

(* The dims of tensor n in a context are lists of numbers.                  *)
LEMMA ContextDimsTyped ==
    ASSUME ShapesRemembered, NEW c \in Contexts, NEW n \in Named("output")
    PROVE  ContextDims(c)[n] \in Seq(Int)
<1> DEFINE dims == shapes[c].dims
<1>1. /\ dims \in [Named("input") -> UNION {DimsOf(m) : m \in Named("input")}]
      /\ \A m \in Named("input") : dims[m] \in DimsOf(m)
  BY DEF ShapesRemembered
<1> HIDE DEF dims
<1>2. n \in DOMAIN Inferred(dims) /\ Inferred(dims)[n] \in Seq(Int)
  BY <1>1, EngineAssumption
<1>3. n \notin DOMAIN dims
  <2>1. DOMAIN dims = Named("input")
    BY <1>1
  <2>2. Named("input") \cap Named("output") = {}
    BY DEF Named
  <2> QED BY <2>1, <2>2
<1>4. Over(dims, Inferred(dims))[n] = Inferred(dims)[n]
  BY <1>2, <1>3 DEF Over
<1> QED BY <1>2, <1>4 DEF ContextDims, dims

(* Those of an input are those that it was set to.                          *)
LEMMA ContextDimsSet ==
    ASSUME ShapesRemembered, NEW c \in Contexts, NEW n \in Named("input")
    PROVE  ContextDims(c)[n] = shapes[c].dims[n]
<1>1. n \in DOMAIN shapes[c].dims
  BY DEF ShapesRemembered
<1> QED BY <1>1 DEF ContextDims, Over

(* The call's buffers keep their sizes.                                     *)
SizesKept == \A m \in call.temps : size'[m] = size[m]

(* Work that was covered stays so as long as its buffers are there.         *)
LEMMA CoversKept ==
    ASSUME IInv, BoundCovers, Busy => SizesKept,
           \A s \in Streams : \A work \in ToSet(queue'[s]) :
               work \in ToSet(queue[s]) \/ work.op # "infer"
    PROVE  BoundCovers'
<1> SUFFICES ASSUME NEW s \in Streams, NEW work \in ToSet(queue'[s]), work.op = "infer",
                    NEW n \in DOMAIN Tensors
             PROVE  BytesBehind(work.address[n])' >= AccessedBytes(Engine[n], work.dims[n])
  BY DEF BoundCovers, BytesBehind, Tensors
<1>1. work \in ToSet(queue[s])
  OBVIOUS
<1>2. BytesBehind(work.address[n]) >= AccessedBytes(Engine[n], work.dims[n])
  BY <1>1 DEF BoundCovers
<1>3. OfCall(s, work) \/ OfGuard(s, work)
  BY <1>1 DEF IInv, WorkPlaced
<1>4. work.address[n].of = "buffer" => Busy /\ work.address[n].buffer \in call.temps
  BY <1>3 DEF OfCall, OfGuard, Uses
<1>5. BytesBehind(work.address[n])' = BytesBehind(work.address[n])
  BY <1>4 DEF BytesBehind, SizesKept
<1> QED BY <1>2, <1>5

(* What does not depend on the state.                                       *)
LEMMA ConditionsStay ==
    /\ RefusedFirst' = RefusedFirst /\ OutputsOnce' = OutputsOnce
    /\ \A dims, list : Agrees(dims, list)' = Agrees(dims, list)
    /\ \A list : LaterFit(list)' = LaterFit(list) /\ Distinct(list)' = Distinct(list)
    /\ \A list, i : IsLast(list, i)' = IsLast(list, i)
<1>1. RefusedFirst' = RefusedFirst
  BY DEF RefusedFirst, Tensors
<1>2. OutputsOnce' = OutputsOnce
  BY DEF OutputsOnce, Distinct
<1>3. \A list, i : IsLast(list, i)' = IsLast(list, i)
  BY DEF IsLast
<1>4. \A dims, list : Agrees(dims, list)' = Agrees(dims, list)
  BY DEF Agrees, IsLast
<1>5. \A list : LaterFit(list)' = LaterFit(list) /\ Distinct(list)' = Distinct(list)
  BY DEF LaterFit, Distinct, Tensors
<1> QED BY <1>1, <1>2, <1>3, <1>4, <1>5

(* Likewise where that work was covered under the condition of the calls.   *)
LEMMA CoveredKept ==
    ASSUME IInv, Covered, Busy => SizesKept,
           \A s \in Streams : \A work \in ToSet(queue'[s]) :
               work \in ToSet(queue[s]) \/ work.op # "infer"
    PROVE  Covered'
BY CoversKept, ConditionsStay DEF Covered

(* The steps that a call may go on to with its bindings as they are.        *)
GoesOn(next) ==
    \/ next = "return"
    \/ next = "inputs" /\ call.step = "shapes"
    \/ /\ next \in Fixed /\ call.step \in Staging /\ Len(call.bound) = Len(call.inputs)
       /\ call.step \notin Starting => next \notin Starting

(* What a context remembers stays so while no shapes are set.               *)
LEMMA ShapesStay ==
    ASSUME ShapesRemembered, UNCHANGED shapes
    PROVE  ShapesRemembered'
BY ConditionsStay DEF ShapesRemembered, Named, DimsOf, Tensors

(* A step that only moves the call on keeps its bindings...                 *)
LEMMA MovedBinds ==
    ASSUME IInv, BInv, Busy, NEW next, NEW ok, Moved(next, ok), GoesOn(next),
           SizesKept
    PROVE  /\ CallAsked' /\ CallBound' /\ Apart'
           /\ next # "inputs" /\ shapes' = shapes => CallShapes'
<1>1. /\ call'.step = next /\ call'.id = call.id /\ call'.kind = call.kind
      /\ call'.stream = call.stream /\ call'.inputs = call.inputs
      /\ call'.outputs = call.outputs /\ call'.context = call.context
      /\ call'.temps = call.temps /\ call'.bound = call.bound /\ call'.targets = call.targets
  BY DEF Moved, SameCall
<1>2. CallAsked'
  <2>1. call'.step \notin {"infer", "infer_shapes"}
    BY <1>1 DEF GoesOn, Fixed
  <2> QED BY <1>1, <2>1, ConditionsStay, SMTT(30)
          DEF BInv, CallAsked, Busy, IsSeq, IsBinding, CopiesOut, DimsOf, Tensors
<1>3. CallBound'
  <2>1. \A a, b, copies : PlacedAt(a, b, copies) => PlacedAt(a, b, copies)'
    BY <1>1 DEF PlacedAt, Temporary, CallerMemory, SizesKept
  <2>2. \A b, mode : Sized(b, mode)' = Sized(b, mode)
    BY DEF Sized, Tensors
  <2>3. /\ next \in Early => FALSE
        /\ next \in {"inputs"} => call.step \in Early
        /\ next \in Fixed => Len(call.bound) = Len(call.inputs)
    BY DEF GoesOn, Early, Fixed
  <2> QED BY <1>1, <2>1, <2>2, <2>3 DEF BInv, CallBound, Busy, CopiesOut
<1>4. Apart'
  BY <1>1 DEF BInv, Apart, Busy
<1>5. ASSUME next # "inputs", shapes' = shapes PROVE CallShapes'
  <2>1. CASE next = "return"
    BY <1>1, <2>1 DEF CallShapes, Staging, Fixed
  <2>2. CASE next \in Fixed /\ call.step \in Staging
    <3>1. Held' = Held
      BY <1>1 DEF Held
    <3>2. /\ \A i \in DOMAIN call.inputs : call.inputs[i].name \in Named("input")
          /\ RefusedFirst => Agrees(shapes[Held].dims, call.inputs)
      BY <2>2 DEF BInv, CallShapes
    <3>3. \A i \in DOMAIN call.targets :
              ContextDims(Held)[call.outputs[i].name] = call.outputs[i].dims
      <4>1. CASE call.step \in Fixed
        BY <4>1 DEF BInv, CallShapes
      <4>2. CASE call.step = "inputs"
        <5>1. Len(call.targets) = 0
          BY <4>2 DEF BInv, CallBound
        <5>2. DOMAIN call.targets = {}
          BY <5>1 DEF IInv, CallTyped, IsSeq
        <5> QED BY <5>2
      <4> QED BY <2>2, <4>1, <4>2 DEF Staging
    <3>4. ContextDims(Held)' = ContextDims(Held)
      BY <1>5, <3>1 DEF ContextDims, Over
    <3> QED BY <1>1, <1>5, <3>1, <3>2, <3>3, <3>4, ConditionsStay DEF CallShapes, Named, Tensors
  <2> QED BY <1>5, <2>1, <2>2 DEF GoesOn
<1> QED BY <1>2, <1>3, <1>4, <1>5

(* Queued work stays that of the bindings of the call.                      *)
LEMMA MovedWorkOf ==
    ASSUME IInv, BInv, Busy, NEW next, NEW ok, Moved(next, ok), GoesOn(next),
           NEW work, WorkOf(work)
    PROVE  WorkOf(work)'
<1>1. /\ call'.step = next /\ call'.inputs = call.inputs /\ call'.outputs = call.outputs
      /\ call'.copied = call.copied
      /\ call'.bound = call.bound /\ call'.targets = call.targets
  BY DEF Moved, SameCall
<1>2. call.step \notin Starting => call'.step \notin Starting
  BY <1>1 DEF GoesOn, Starting, Early
<1>3. \A n, a : AddressOf(n, a)' = AddressOf(n, a)
  BY <1>1, ConditionsStay DEF AddressOf, NullAddress
<1>4. CASE work.op = "copy_in"
  BY <1>1, <1>4 DEF WorkOf, Temporary
<1>5. CASE work.op = "infer"
  BY <1>1, <1>2, <1>3, <1>5 DEF WorkOf, Tensors, NullAddress
<1>6. CASE work.op = "copy_out"
  BY <1>1, <1>2, <1>6 DEF WorkOf, Temporary
<1> QED BY <1>4, <1>5, <1>6 DEF WorkOf

(* ...and adds no work...                                                   *)
LEMMA MovedWork ==
    ASSUME IInv, BInv, Busy, NEW next, NEW ok, Moved(next, ok), GoesOn(next),
           \A s \in Streams : ToSet(queue'[s]) \subseteq ToSet(queue[s])
    PROVE  CallWork'
<1>1. call'.id = call.id
  BY DEF Moved, SameCall
<1>2. \A s \in Streams : \A work \in ToSet(queue'[s]) : work.id = call.id => WorkOf(work)
  BY DEF BInv, CallWork
<1> QED BY <1>1, <1>2, MovedWorkOf DEF CallWork

(* ...so that, with addresses as they should be, all is kept.               *)
LEMMA MovedKeeps ==
    ASSUME IInv, BInv, Busy, NEW next, NEW ok, Moved(next, ok), GoesOn(next), next # "inputs",
           UNCHANGED shapes, SizesKept,
           \A s \in Streams : ToSet(queue'[s]) \subseteq ToSet(queue[s]),
           CallAddressed'
    PROVE  BInv'
<1>1. CallAsked' /\ CallBound' /\ Apart' /\ CallShapes'
  BY MovedBinds
<1>2. CallWork'
  BY MovedWork
<1>3. Covered'
  BY CoveredKept DEF BInv
<1>4. ShapesRemembered'
  BY ShapesStay DEF BInv
<1> QED BY <1>1, <1>2, <1>3, <1>4 DEF BInv

(* An early return.                                                         *)
LEMMA FailBinds ==
    ASSUME IInv, BInv, Busy, Fail, UNCHANGED shapes, SizesKept,
           \A s \in Streams : ToSet(queue'[s]) \subseteq ToSet(queue[s])
    PROVE  BInv'
<1>1. Moved("return", FALSE)
  BY FailMoves DEF IInv
<1>2. GoesOn("return")
  BY DEF GoesOn
<1>3. CallAddressed'
  <2>1. call'.step = "return"
    BY <1>1 DEF Moved
  <2> QED BY <2>1 DEF CallAddressed, Fixed
<1> QED BY <1>1, <1>2, <1>3, MovedKeeps

(* An early return after shapes were set.                                   *)
LEMMA RefusedBinds ==
    ASSUME IInv, BInv, Busy, Fail, ShapesRemembered', SizesKept,
           \A s \in Streams : ToSet(queue'[s]) \subseteq ToSet(queue[s])
    PROVE  BInv'
<1>1. Moved("return", FALSE)
  BY FailMoves DEF IInv
<1>2. GoesOn("return")
  BY DEF GoesOn
<1>3. call'.step = "return"
  BY <1>1 DEF Moved
<1>4. CallAddressed' /\ CallShapes'
  BY <1>3 DEF CallAddressed, CallShapes, Staging, Fixed
<1>5. CallAsked' /\ CallBound' /\ Apart'
  BY <1>1, <1>2, MovedBinds
<1>6. CallWork'
  BY <1>1, <1>2, MovedWork
<1>7. Covered'
  BY CoveredKept DEF BInv
<1> QED BY <1>4, <1>5, <1>6, <1>7 DEF BInv

(* A step without a call, or which changes nothing of it.                   *)
LEMMA CallSameBinds ==
    ASSUME IInv, BInv, UNCHANGED <<call, address, shapes>>, Busy => SizesKept,
           \A s \in Streams : ToSet(queue'[s]) \subseteq ToSet(queue[s])
    PROVE  BInv'
<1>1. CallAsked'
  BY ConditionsStay DEF BInv, CallAsked, Busy, IsSeq, IsBinding, CopiesOut, DimsOf, Tensors
<1>2. CallBound'
  <2>1. \A a, b, copies : Busy /\ PlacedAt(a, b, copies) => PlacedAt(a, b, copies)'
    BY DEF PlacedAt, Temporary, CallerMemory, SizesKept
  <2>2. \A b, mode : Sized(b, mode)' = Sized(b, mode)
    BY DEF Sized, Tensors
  <2> QED BY <2>1, <2>2 DEF BInv, CallBound, Busy, CopiesOut
<1>3. Apart'
  BY DEF BInv, Apart, Busy
<1>4. CallShapes' /\ CallAddressed'
  BY ConditionsStay
     DEF BInv, CallShapes, CallAddressed, Busy, Held, ContextDims, Named, Tensors, AddressOf
<1>5. CallWork'
  <2>1. \A work : WorkOf(work)' = WorkOf(work)
    BY ConditionsStay DEF WorkOf, AddressOf, Tensors
  <2>2. Busy' = Busy
    BY DEF Busy
  <2> QED BY <2>1, <2>2 DEF BInv, CallWork
<1>6. Covered'
  BY CoveredKept DEF BInv
<1>7. ShapesRemembered'
  BY ShapesStay DEF BInv
<1> QED BY <1>1, <1>2, <1>3, <1>4, <1>5, <1>6, <1>7 DEF BInv

(* set_input_shapes_if_needed.                                              *)
LEMMA AskedIs ==
    /\ DOMAIN Asked = DOMAIN call.inputs
    /\ \A i \in DOMAIN call.inputs :
           Asked[i].name = call.inputs[i].name /\ Asked[i].dims = call.inputs[i].dims
BY DEF Asked

(* The dims of a context with those of the call's first inputs set.         *)
LEMMA DimsAreSet ==
    ASSUME IInv, BInv, Busy, call.step \in {"shapes", "infer_shapes"},
           NEW k \in 0 .. Len(call.inputs)
    PROVE  /\ DimsUpTo(k) \in [Named("input") -> UNION {DimsOf(n) : n \in Named("input")}]
           /\ \A n \in Named("input") : DimsUpTo(k)[n] \in DimsOf(n)
           /\ k = 0 => DimsUpTo(k) = shapes[Held].dims
           /\ /\ k = Len(call.inputs)
              /\ \A i \in DOMAIN call.inputs : call.inputs[i].name \in Named("input")
              => Agrees(DimsUpTo(k), call.inputs)
<1>1. Held \in Contexts
  BY HeldIs DEF WithContext
<1>2. /\ IsSeq(call.inputs) /\ Len(call.inputs) \in Nat
      /\ DOMAIN call.inputs = 1 .. Len(call.inputs) /\ k \in Nat
  BY DEF BInv, CallAsked, IsSeq
<1>3. \A i \in DOMAIN call.inputs : call.inputs[i].dims \in DimsOf(call.inputs[i].name)
  <2>1. \A i \in DOMAIN call.inputs : call.inputs[i] \in ToSet(call.inputs)
    BY DEF ToSet
  <2> QED BY <2>1 DEF BInv, CallAsked
<1>4. /\ shapes[Held].dims \in [Named("input") -> UNION {DimsOf(n) : n \in Named("input")}]
      /\ \A n \in Named("input") : shapes[Held].dims[n] \in DimsOf(n)
  BY <1>1 DEF BInv, ShapesRemembered
<1>5. DOMAIN DimsUpTo(k) = Named("input")
  BY <1>4 DEF DimsUpTo
<1>6. ASSUME NEW n \in Named("input"), \E i \in 1 .. k : call.inputs[i].name = n,
             NEW j, j = LastOf(call.inputs, k, n)
      PROVE  /\ j \in 1 .. k /\ j \in DOMAIN call.inputs /\ call.inputs[j].name = n
             /\ \A i \in 1 .. k : call.inputs[i].name = n => i <= j
             /\ DimsUpTo(k)[n] = call.inputs[j].dims
  <2>1. /\ j \in 1 .. k /\ call.inputs[j].name = n
        /\ \A i \in 1 .. k : call.inputs[i].name = n => i <= j
    BY <1>2, <1>6, LastIs
  <2>2. j \in DOMAIN call.inputs
    BY <1>2, <2>1
  <2>3. DimsUpTo(k)[n] = call.inputs[j].dims
    BY <1>4, <1>6 DEF DimsUpTo
  <2> QED BY <2>1, <2>2, <2>3
<1>7. ASSUME NEW n \in Named("input"), ~\E i \in 1 .. k : call.inputs[i].name = n
      PROVE  DimsUpTo(k)[n] = shapes[Held].dims[n]
  BY <1>4, <1>7 DEF DimsUpTo
<1>8. ASSUME NEW n \in Named("input") PROVE DimsUpTo(k)[n] \in DimsOf(n)
  <2>1. CASE \E i \in 1 .. k : call.inputs[i].name = n
    <3>1. PICK j : j = LastOf(call.inputs, k, n)
      OBVIOUS
    <3> QED BY <1>3, <1>6, <2>1, <3>1
  <2>2. CASE ~\E i \in 1 .. k : call.inputs[i].name = n
    BY <1>4, <1>7, <2>2
  <2> QED BY <2>1, <2>2
<1>9. DimsUpTo(k) \in [Named("input") -> UNION {DimsOf(n) : n \in Named("input")}]
  <2>1. DimsUpTo(k) = [n \in Named("input") |-> DimsUpTo(k)[n]]
    BY <1>4 DEF DimsUpTo
  <2>2. \A n \in Named("input") : DimsUpTo(k)[n] \in UNION {DimsOf(m) : m \in Named("input")}
    BY <1>8
  <2>3. PICK f : f = DimsUpTo(k)
    OBVIOUS
  <2>4. f = [n \in Named("input") |-> f[n]]
    BY <2>1, <2>3
  <2>5. \A n \in Named("input") : f[n] \in UNION {DimsOf(m) : m \in Named("input")}
    BY <2>2, <2>3
  <2>6. f \in [Named("input") -> UNION {DimsOf(n) : n \in Named("input")}]
    BY <2>4, <2>5
  <2> QED BY <2>3, <2>6
<1>10. ASSUME k = 0 PROVE DimsUpTo(k) = shapes[Held].dims
  <2>1. \A n \in Named("input") : DimsUpTo(k)[n] = shapes[Held].dims[n]
    BY <1>7, <1>10
  <2>2. PICK f, g : f = DimsUpTo(k) /\ g = shapes[Held].dims
    OBVIOUS
  <2>3. /\ f \in [Named("input") -> UNION {DimsOf(n) : n \in Named("input")}]
        /\ g \in [Named("input") -> UNION {DimsOf(n) : n \in Named("input")}]
    BY <1>4, <1>9, <2>2
  <2>4. \A n \in Named("input") : f[n] = g[n]
    BY <2>1, <2>2
  <2>5. f = g
    BY <2>3, <2>4
  <2> QED BY <2>2, <2>5
<1>11. ASSUME k = Len(call.inputs),
              \A i \in DOMAIN call.inputs : call.inputs[i].name \in Named("input")
       PROVE  Agrees(DimsUpTo(k), call.inputs)
  <2> SUFFICES ASSUME NEW i \in DOMAIN call.inputs, IsLast(call.inputs, i)
               PROVE  DimsUpTo(k)[call.inputs[i].name] = call.inputs[i].dims
    BY DEF Agrees
  <2>1. PICK n : n = call.inputs[i].name
    OBVIOUS
  <2>2. n \in Named("input") /\ i \in 1 .. k
    BY <1>2, <1>11, <2>1
  <2>3. PICK j : j = LastOf(call.inputs, k, n)
    OBVIOUS
  <2>4. /\ j \in 1 .. k /\ j \in DOMAIN call.inputs /\ call.inputs[j].name = n
        /\ i <= j /\ DimsUpTo(k)[n] = call.inputs[j].dims
    BY <1>6, <2>1, <2>2, <2>3
  <2>5. ~(j > i)
    BY <2>1, <2>4 DEF IsLast
  <2>6. i = j
    BY <2>2, <2>4, <2>5
  <2> QED BY <2>1, <2>4, <2>6
<1> QED BY <1>8, <1>9, <1>10, <1>11

(* A context gets dims and remembers a request.                             *)
LEMMA ShapesChange ==
    ASSUME ShapesRemembered, NEW c \in Contexts, NEW dims, NEW cached,
           dims \in [Named("input") -> UNION {DimsOf(n) : n \in Named("input")}],
           \A n \in Named("input") : dims[n] \in DimsOf(n),
           \A a \in ToSet(cached) : a.name \in Named("input"),
           RefusedFirst => Agrees(dims, cached),
           DOMAIN shapes' = Contexts, \A d \in Contexts : d # c => shapes'[d] = shapes[d],
           DOMAIN shapes'[c] = {"dims", "cached"},
           shapes'[c].dims = dims, shapes'[c].cached = cached
    PROVE  ShapesRemembered'
<1>1. ASSUME NEW d \in Contexts
      PROVE  /\ DOMAIN shapes'[d] = {"dims", "cached"}
             /\ shapes'[d].dims \in [Named("input") -> UNION {DimsOf(n) : n \in Named("input")}]
             /\ \A n \in Named("input") : shapes'[d].dims[n] \in DimsOf(n)
             /\ \A a \in ToSet(shapes'[d].cached) : a.name \in Named("input")
             /\ RefusedFirst => Agrees(shapes'[d].dims, shapes'[d].cached)
  <2>1. CASE d = c
    BY <2>1
  <2>2. CASE d # c
    BY <2>2 DEF ShapesRemembered
  <2> QED BY <2>1, <2>2
<1> QED BY <1>1, ConditionsStay DEF ShapesRemembered, Named, DimsOf, Tensors

(* What set_input_shapes leaves: the shapes of the call, in the context.    *)
LEMMA ShapesAreSet ==
    ASSUME IInv, BInv, Busy, call.step \in {"shapes", "infer_shapes"}, ShapesSet
    PROVE  /\ ShapesRemembered'
           /\ \A i \in DOMAIN call.inputs : call.inputs[i].name \in Named("input")
           /\ RefusedFirst => Agrees(shapes'[Held].dims, call.inputs)
<1>1. Held \in Contexts
  BY HeldIs DEF WithContext
<1>2. ShapesRemembered /\ IsSeq(call.inputs)
  BY DEF BInv, CallAsked
<1>3. \A dims : Agrees(dims, Asked) => Agrees(dims, call.inputs)
  BY AskedIs DEF Agrees, IsLast
<1>4. \A dims : Agrees(dims, call.inputs) => Agrees(dims, Asked)
  BY AskedIs DEF Agrees, IsLast
<1>5. CASE ShapesKnown /\ UNCHANGED shapes
  <2>1. ShapesRemembered'
    BY <1>2, <1>5, ShapesStay
  <2>2. ASSUME NEW i \in DOMAIN call.inputs
        PROVE  call.inputs[i].name \in Named("input")
    <3>1. Asked[i] \in ToSet(shapes[Held].cached)
      BY <1>5, AskedIs DEF ShapesKnown, ToSet
    <3> QED BY <1>1, <1>2, <3>1, AskedIs DEF ShapesRemembered
  <2>3. ASSUME RefusedFirst PROVE Agrees(shapes[Held].dims, call.inputs)
    <3>1. Agrees(shapes[Held].dims, shapes[Held].cached)
      BY <1>1, <1>2, <2>3 DEF ShapesRemembered
    <3>2. Agrees(shapes[Held].dims, Asked)
      BY <1>5, <3>1 DEF ShapesKnown
    <3> QED BY <1>3, <3>2
  <2> QED BY <1>5, <2>1, <2>2, <2>3
<1>6. CASE ~ShapesKnown
  <2>1. PICK dims : dims = DimsUpTo(Len(call.inputs))
    OBVIOUS
  <2>2. /\ \A i \in DOMAIN call.inputs : Fits(Tensors, call.inputs[i], "input")
        /\ shapes' = [shapes EXCEPT ![Held] = [dims |-> dims, cached |-> Asked]]
    BY <1>6, <2>1 DEF ShapesSet
  <2>3. \A i \in DOMAIN call.inputs : call.inputs[i].name \in Named("input")
    BY <2>2 DEF Fits, Named
  <2>4. Len(call.inputs) \in 0 .. Len(call.inputs)
    BY <1>2 DEF IsSeq
  <2>5. /\ dims \in [Named("input") -> UNION {DimsOf(n) : n \in Named("input")}]
        /\ \A n \in Named("input") : dims[n] \in DimsOf(n)
        /\ Agrees(dims, call.inputs)
    BY <2>1, <2>3, <2>4, DimsAreSet
  <2>6. \A a \in ToSet(Asked) : a.name \in Named("input")
    BY <2>3, AskedIs DEF ToSet
  <2>7. /\ DOMAIN shapes' = Contexts
        /\ \A c \in Contexts : c # Held => shapes'[c] = shapes[c]
        /\ DOMAIN shapes'[Held] = {"dims", "cached"}
        /\ shapes'[Held].dims = dims /\ shapes'[Held].cached = Asked
    BY <1>1, <1>2, <2>2 DEF ShapesRemembered
  <2>8. PICK held, asked : held = Held /\ asked = Asked
    OBVIOUS
  <2>9. ShapesRemembered'
    BY <1>1, <1>2, <1>4, <2>5, <2>6, <2>7, <2>8, ShapesChange
  <2> QED BY <2>3, <2>5, <2>7, <2>9
<1> QED BY <1>5, <1>6 DEF ShapesSet

(* What a refusal leaves: shapes of the call's first inputs, and none where *)
(* only the first can be refused.                                           *)
LEMMA ShapesAreRefused ==
    ASSUME IInv, BInv, Busy, call.step \in {"shapes", "infer_shapes"}, ShapesRefused
    PROVE  ShapesRemembered'
<1>1. Held \in Contexts
  BY HeldIs DEF WithContext
<1>2. /\ ShapesRemembered /\ IsSeq(call.inputs) /\ Len(call.inputs) \in Nat
      /\ DOMAIN call.inputs = 1 .. Len(call.inputs)
      /\ RefusedFirst => LaterFit(call.inputs)
  BY DEF BInv, CallAsked, IsSeq
<1>3. PICK k \in DOMAIN call.inputs :
         /\ k \in MayRefuse \/ ~Fits(Tensors, call.inputs[k], "input")
         /\ shapes' = [shapes EXCEPT ![Held].dims = DimsUpTo(k - 1)]
  BY DEF ShapesRefused
<1>4. k - 1 \in 0 .. Len(call.inputs)
  BY <1>2
<1>5. PICK dims, cached : dims = DimsUpTo(k - 1) /\ cached = shapes[Held].cached
  OBVIOUS
<1>6. /\ dims \in [Named("input") -> UNION {DimsOf(n) : n \in Named("input")}]
      /\ \A n \in Named("input") : dims[n] \in DimsOf(n)
      /\ k - 1 = 0 => dims = shapes[Held].dims
  BY <1>4, <1>5, DimsAreSet
<1>7. ASSUME RefusedFirst PROVE Agrees(dims, cached)
  <2>1. k = 1
    BY <1>2, <1>3, <1>7 DEF RefusedFirst, LaterFit
  <2>2. dims = shapes[Held].dims
    BY <1>6, <2>1
  <2> QED BY <1>1, <1>2, <1>5, <1>7, <2>2 DEF ShapesRemembered
<1>8. /\ DOMAIN shapes' = Contexts
      /\ \A c \in Contexts : c # Held => shapes'[c] = shapes[c]
      /\ shapes'[Held] = [shapes[Held] EXCEPT !.dims = dims]
  BY <1>1, <1>2, <1>3, <1>5 DEF ShapesRemembered
<1>9. DOMAIN shapes[Held] = {"dims", "cached"}
  BY <1>1, <1>2 DEF ShapesRemembered
<1>10. /\ DOMAIN shapes'[Held] = {"dims", "cached"}
       /\ shapes'[Held].dims = dims /\ shapes'[Held].cached = cached
  BY <1>5, <1>8, <1>9
<1>11. \A a \in ToSet(cached) : a.name \in Named("input")
  BY <1>1, <1>2, <1>5 DEF ShapesRemembered
<1>12. PICK held : held = Held
  OBVIOUS
<1> QED BY <1>1, <1>2, <1>6, <1>7, <1>8, <1>10, <1>11, <1>12, ShapesChange

(* Setting the shapes, or failing to, keeps the invariant.                  *)
LEMMA SetShapesBinds == ASSUME IInv, BInv, SetShapes PROVE BInv'
<1>1. Busy /\ call.step = "shapes"
  BY BusyAt DEF SetShapes, At
<1>2. UNCHANGED <<address, size, queue>> /\ SizesKept
  BY DEF SetShapes, device, SizesKept
<1>3. CASE ShapesSet /\ Goto("inputs")
  <2>1. Moved("inputs", call.ok)
    BY <1>1, <1>3, Went DEF IInv
  <2>2. GoesOn("inputs")
    BY <1>1 DEF GoesOn
  <2>3. CallAsked' /\ CallBound' /\ Apart'
    BY <1>1, <1>2, <2>1, <2>2, MovedBinds
  <2>4. CallWork'
    BY <1>1, <1>2, <2>1, <2>2, MovedWork
  <2>5. Covered'
    BY <1>2, CoveredKept DEF BInv
  <2>6. /\ call'.step = "inputs" /\ call'.context = call.context /\ call'.inputs = call.inputs
        /\ call'.targets = call.targets
    BY <2>1 DEF Moved, SameCall
  <2>7. Held' = Held
    BY <2>6 DEF Held
  <2>8. CallShapes'
    BY <1>1, <1>3, <2>6, <2>7, ShapesAreSet, ConditionsStay DEF CallShapes, Fixed, Named, Tensors
  <2>9. CallAddressed'
    BY <1>1, <1>2, <2>6, <2>7 DEF BInv, CallAddressed, Fixed, Tensors, NullAddress
  <2> QED BY <1>1, <1>3, <2>3, <2>4, <2>5, <2>8, <2>9, ShapesAreSet DEF BInv
<1>4. CASE ShapesRefused /\ Fail
  BY <1>1, <1>2, <1>4, ShapesAreRefused, RefusedBinds
<1> QED BY <1>3, <1>4 DEF SetShapes

-----------------------------------------------------------------------------
(* The steps before the call has bound anything.                            *)

(* A sequence of length zero has no index.                                  *)
LEMMA NothingBound ==
    ASSUME NEW q, IsSeq(q), Len(q) = 0
    PROVE  DOMAIN q = {}
BY DEF IsSeq

(* A call without bindings or work needs only be asked for.                 *)
LEMMA EarlyBinds ==
    ASSUME IInv', Busy', ~MayHaveWork', call'.temps = {},
           call'.step \in Early \cup {"return"},
           Len(call'.bound) = 0, Len(call'.targets) = 0,
           Len(call'.inputs) \in Nat, Len(call'.outputs) \in Nat,
           CallAsked', ShapesRemembered', Covered', CallAddressed'
    PROVE  BInv'
<1>1. DOMAIN call'.bound = {} /\ DOMAIN call'.targets = {}
  <2>1. IsSeq(call'.bound) /\ IsSeq(call'.targets)
    BY DEF IInv, CallTyped, IsSeq
  <2> QED BY <2>1, NothingBound
<1>2. CallBound'
  BY <1>1 DEF CallBound, Early, Fixed
<1>3. Apart' /\ CallShapes'
  BY <1>1 DEF Apart, CallShapes, Early, Staging, Fixed
<1>4. CallWork'
  BY DEF IInv, Quiet, NoWorkOf, CallWork
<1> QED BY <1>2, <1>3, <1>4 DEF BInv

(* A call begins with nothing bound and no work of its own.                 *)
LEMMA BeginBinds == ASSUME IInv, BInv, Begin PROVE BInv'
<1>1. ~Busy /\ IInv'
  BY BeginKeeps DEF Begin, Busy
<1>2. PICK id \in Ids, r \in Requests, s \in Streams :
         call' = [step |-> IF r.kind = "allocating" THEN "infer" ELSE "context",
                  id |-> id, kind |-> r.kind, stream |-> s, inputs |-> r.inputs,
                  outputs |-> r.outputs, context |-> {}, temps |-> {},
                  bound |-> <<>>, targets |-> <<>>, copied |-> 0, ok |-> TRUE]
  BY DEF Begin
<1>3. /\ Busy' /\ call'.id = id /\ call'.kind = r.kind /\ call'.stream = s
      /\ call'.inputs = r.inputs /\ call'.outputs = r.outputs /\ call'.temps = {}
      /\ call'.bound = <<>> /\ call'.targets = <<>>
      /\ call'.step = IF r.kind = "allocating" THEN "infer" ELSE "context"
  BY <1>2 DEF Busy, NoCall
<1>4. UNCHANGED <<shapes, size, queue>>
  BY DEF Begin, bound, device
<1>5. CallAsked'
  <2>1. /\ IsSeq(r.inputs) /\ IsSeq(r.outputs)
        /\ \A b \in ToSet(r.inputs) : IsBinding(b)
        /\ ~CopiesOut(r.kind) =>
               \A b \in ToSet(r.outputs) : b.at = "device" /\ b.dtypes # {}
    BY StagedAssumption DEF IsSeq, CopiesOut, IsBinding
  <2>2. /\ OutputsOnce => Distinct(r.outputs)
        /\ RefusedFirst => LaterFit(r.inputs)
    BY DEF OutputsOnce, RefusedFirst, LaterFit
  <2>3. ASSUME NEW b \in ToSet(r.inputs) PROVE b.dims \in DimsOf(b.name)
    BY DEF DimsOf
  <2>4. (DimsOf(1))' = DimsOf(1) /\ \A n : (DimsOf(n))' = DimsOf(n)
    BY DEF DimsOf, Tensors
  <2>5. \A b \in ToSet(call'.inputs) : IsBinding(b) /\ b.dims \in DimsOf(b.name)'
    BY <1>3, <2>1, <2>3, <2>4
  <2> QED BY <1>3, <2>1, <2>2, <2>5, ConditionsStay DEF CallAsked, IsSeq, IsBinding, CopiesOut
<1>6. Len(call'.inputs) \in Nat /\ Len(call'.outputs) \in Nat
  BY <1>3, StagedAssumption
<1>7. Covered'
  BY <1>1, <1>4, CoveredKept DEF BInv
<1>8. ShapesRemembered'
  BY <1>4, ShapesStay DEF BInv
<1>9. CallAddressed' /\ ~MayHaveWork' /\ call'.step \in Early
  BY <1>3 DEF CallAddressed, MayHaveWork, Early, Fixed
<1>10. Len(call'.bound) = 0 /\ Len(call'.targets) = 0
  BY <1>3
<1> QED BY <1>1, <1>3, <1>5, <1>6, <1>7, <1>8, <1>9, <1>10, EarlyBinds

(* The call that takes a context without addresses.                         *)
LEMMA TakeBinds ==
    ASSUME IInv, BInv, IInv', Busy, call.step \in {"infer", "context"},
           NEW next \in {"shapes", "infer_shapes"}, NEW c, Took(next, c),
           next = "infer_shapes" => call.step = "infer",
           \A n \in DOMAIN Tensors : address'[c][n] = NullAddress,
           ShapesRemembered', UNCHANGED <<size, queue>>
    PROVE  BInv'
<1>1. call.temps = {} /\ Len(call.bound) = 0 /\ Len(call.targets) = 0
  BY DEF IInv, CallTyped, BInv, CallBound, Early
<1>2. CallAsked'
  <2>1. /\ IsSeq(call.inputs) /\ (RefusedFirst => LaterFit(call.inputs)) /\ IsSeq(call.outputs)
        /\ (OutputsOnce => Distinct(call.outputs)) /\ call.id \in Ids /\ call.stream \in Streams
        /\ \A b \in ToSet(call.inputs) : IsBinding(b) /\ b.dims \in DimsOf(b.name)
        /\ ~CopiesOut(call.kind) =>
               \A b \in ToSet(call.outputs) : b.at = "device" /\ b.dtypes # {}
        /\ call.step \in {"infer", "infer_shapes"} => call.kind = "allocating"
    BY DEF BInv, CallAsked
  <2>2. /\ call'.id = call.id /\ call'.kind = call.kind /\ call'.stream = call.stream
        /\ call'.inputs = call.inputs /\ call'.outputs = call.outputs
    BY DEF Took
  <2>3. call'.step \in {"infer", "infer_shapes"} => call'.kind = "allocating"
    BY <2>1, <2>2 DEF Took
  <2> QED BY <2>1, <2>2, <2>3, ConditionsStay
          DEF CallAsked, IsSeq, IsBinding, CopiesOut, DimsOf, Tensors
<1>3. Covered'
  BY CoveredKept DEF BInv, SizesKept
<1>4. CallAddressed'
  <2>1. Held' = c
    BY DEF Held, Took
  <2> QED BY <2>1 DEF CallAddressed, Took, Fixed, Tensors, NullAddress
<1>5. ~MayHaveWork' /\ call'.step \in Early \cup {"return"} /\ call'.temps = {}
  BY <1>1 DEF Took, MayHaveWork, Early
<1>6. Len(call'.inputs) \in Nat /\ Len(call'.outputs) \in Nat
  BY DEF BInv, CallAsked, Took, IsSeq
<1>7. Busy' /\ Len(call'.bound) = 0 /\ Len(call'.targets) = 0
  BY <1>1 DEF Took
<1> QED BY <1>2, <1>3, <1>4, <1>5, <1>6, <1>7, EarlyBinds

(* A new context has the dims of the engine.                                *)
LEMMA NewShapes ==
    ASSUME ShapesRemembered, NEW c \in Contexts, shapes' = [shapes EXCEPT ![c] = NoShapes]
    PROVE  ShapesRemembered'
<1> DEFINE dims == [n \in Named("input") |-> Tensors[n].dims]
<1>1. NoShapes.dims = dims /\ NoShapes.cached = <<>>
  BY DEF NoShapes
<1>2. \A n \in Named("input") : dims[n] \in DimsOf(n)
  BY DEF DimsOf
<1>3. dims \in [Named("input") -> UNION {DimsOf(n) : n \in Named("input")}]
  BY <1>2
<1> HIDE DEF dims
<1>4. ToSet(<<>>) = {}
  BY NothingIn
<1>5. Agrees(dims, <<>>)
  BY DEF Agrees
<1>6. /\ DOMAIN shapes' = Contexts /\ \A d \in Contexts : d # c => shapes'[d] = shapes[d]
      /\ shapes'[c] = NoShapes
  BY DEF ShapesRemembered
<1>7. DOMAIN NoShapes = {"dims", "cached"}
  BY DEF NoShapes
<1> QED BY <1>1, <1>2, <1>3, <1>4, <1>5, <1>6, <1>7, ShapesChange

(* A context is got with its addresses cleared and some shapes it may have. *)
LEMMA AcquireBinds ==
    ASSUME IInv, BInv, Busy, call.step \in {"infer", "context"},
           NEW next \in {"shapes", "infer_shapes"}, Acquire(next),
           next = "infer_shapes" => call.step = "infer"
    PROVE  BInv'
<1>1. IInv' /\ UNCHANGED <<size, queue>> /\ SizesKept
  BY AcquireKeeps DEF Acquire, device, SizesKept
<1>2. CASE Reuse(next)
  <2> DEFINE c == Last(pool)
  <2>1. c \in ToSet(pool)
    BY <1>2, Popped DEF Reuse, IInv, Placed
  <2>2. /\ address' = [address EXCEPT ![c] = Cleared(c)] /\ shapes' = shapes
        /\ call' = [call EXCEPT !.step = next, !.context = {c}]
    BY <1>2 DEF Reuse
  <2> HIDE DEF c
  <2>3. Took(next, c)
    BY <2>2, TookIs DEF IInv
  <2>4. c \in Contexts
    BY <2>1 DEF IInv, Placed
  <2>5. \A n \in DOMAIN Tensors : address'[c][n] = NullAddress
    BY <2>2, <2>4 DEF Cleared, IInv, Addressed
  <2>6. ShapesRemembered'
    BY <2>2, ShapesStay DEF BInv
  <2> QED BY <1>1, <2>3, <2>5, <2>6, TakeBinds
<1>3. CASE Create(next)
  <2>1. PICK c \in Contexts :
           /\ address' = [address EXCEPT ![c] = Unbound]
           /\ shapes' = [shapes EXCEPT ![c] = NoShapes]
           /\ call' = [call EXCEPT !.step = next, !.context = {c}]
    BY <1>3 DEF Create
  <2>2. Took(next, c)
    BY <2>1, TookIs DEF IInv
  <2>3. \A n \in DOMAIN Tensors : address'[c][n] = NullAddress
    BY <2>1 DEF Unbound, IInv, Addressed
  <2>4. ShapesRemembered'
    BY <2>1, NewShapes DEF BInv
  <2> QED BY <1>1, <2>2, <2>3, <2>4, TakeBinds
<1>4. CASE ReuseFails \/ CreateFails
  <2>1. Fail /\ UNCHANGED shapes
    BY <1>4 DEF ReuseFails, CreateFails, bound
  <2> QED BY <1>1, <2>1, FailBinds
<1> QED BY <1>2, <1>3, <1>4 DEF Acquire

(* Both steps that get a context.                                           *)
LEMMA ContextStepsBind == ASSUME IInv, BInv, GetContext \/ InferContext PROVE BInv'
<1>1. CASE GetContext
  <2>1. Busy /\ call.step = "context" /\ Acquire("shapes")
    BY <1>1, BusyAt DEF GetContext, At
  <2> QED BY <2>1, AcquireBinds
<1>2. CASE InferContext
  <2>1. Busy /\ call.step = "infer" /\ Acquire("infer_shapes")
    BY <1>2, BusyAt DEF InferContext, At
  <2> QED BY <2>1, AcquireBinds
<1> QED BY <1>1, <1>2

-----------------------------------------------------------------------------
(* The outputs of run_allocating.                                           *)

(* A set's elements in some order.                                          *)
LEMMA SetAsSeq ==
    ASSUME NEW S, IsFiniteSet(S)
    PROVE  IsSeq(SetToSeq(S)) /\ ToSet(SetToSeq(S)) = S /\ NoRepeats(SetToSeq(S))
<1> DEFINE n == Cardinality(S)
           q == SetToSeq(S)
<1>1. n \in Nat /\ ExistsBijection(1 .. n, S)
  BY FS_CardinalityType
<1>2. \E f \in [1 .. n -> S] : IsInjective(f)
  BY <1>1 DEF ExistsBijection, Bijection, Injection
<1>3. q \in [1 .. n -> S] /\ IsInjective(q)
  BY <1>2 DEF SetToSeq
<1>4. q \in Injection(1 .. n, S)
  BY <1>3 DEF Injection
<1> HIDE DEF q
<1>5. IsFiniteSet(1 .. n) /\ Cardinality(1 .. n) = n
  BY <1>1, FS_Interval
<1>6. q \in Surjection(1 .. n, S)
  BY <1>4, <1>5, FS_Injection
<1> HIDE DEF n
<1>7. \A x \in S : \E i \in 1 .. n : q[i] = x
  BY <1>6 DEF Surjection
<1>8. ToSet(q) = S
  BY <1>3, <1>7 DEF ToSet
<1>9. q \in Seq(S)
  BY <1>1, <1>3
<1>10. NoRepeats(q)
  BY <1>3 DEF NoRepeats, IsInjective
<1> QED BY <1>8, <1>9, <1>10 DEF IsSeq, q

(* There is one for each selected output, of its name.                      *)
LEMMA OutputsAre ==
    ASSUME IInv, BInv, Busy, OutputsInferred
    PROVE  \E outputs : /\ call' = [call EXCEPT !.step = "context", !.context = {},
                                                !.outputs = outputs]
                        /\ results' = [results EXCEPT ![call.id].holds =
                                           [n \in {outputs[i].name : i \in DOMAIN outputs} |-> Junk]]
                        /\ IsSeq(outputs) /\ (OutputsOnce => Distinct(outputs))
                        /\ {outputs[i].name : i \in DOMAIN outputs} \subseteq Named("output")
<1> DEFINE dims == Inferred(shapes'[Held].dims)
           outputs == [i \in DOMAIN Selected |-> AllocatedOutput(Selected[i], dims[Selected[i]])]
<1>1. /\ ToSet(Selected) \subseteq Named("output")
      /\ call' = [call EXCEPT !.step = "context", !.context = {}, !.outputs = outputs]
      /\ results' = [results EXCEPT ![call.id].holds = [n \in ToSet(Selected) |-> Junk]]
  BY DEF OutputsInferred
<1>2. /\ Len(Selected) \in Nat /\ DOMAIN Selected = 1 .. Len(Selected)
      /\ OutputsOnce => \A i, j \in DOMAIN Selected : Selected[i] = Selected[j] => i = j
  <2>1. CASE call.outputs = <<>>
    <3>1. IsFiniteSet(Named("output"))
      <4>1. Named("output") \in SUBSET DOMAIN Engine
        BY DEF Named, Tensors
      <4>2. IsFiniteSet(DOMAIN Engine)
        BY EngineAssumption
      <4> QED BY <4>1, <4>2, FS_Subset
    <3>2. PICK q : q = SetToSeq(Named("output"))
      OBVIOUS
    <3>3. IsSeq(q) /\ NoRepeats(q)
      BY <3>1, <3>2, SetAsSeq
    <3>4. Selected = q
      BY <2>1, <3>2 DEF Selected
    <3> QED BY <3>3, <3>4 DEF IsSeq, NoRepeats
  <2>2. CASE call.outputs # <<>>
    <3>1. IsSeq(call.outputs) /\ (OutputsOnce => Distinct(call.outputs))
      BY DEF BInv, CallAsked
    <3>2. Len(call.outputs) \in Nat /\ DOMAIN call.outputs = 1 .. Len(call.outputs)
      BY <3>1 DEF IsSeq
    <3>3. PICK q : q = Selected
      OBVIOUS
    <3>4. q = [i \in 1 .. Len(call.outputs) |-> call.outputs[i].name]
      BY <2>2, <3>2, <3>3 DEF Selected
    <3>5. Len(q) = Len(call.outputs) /\ DOMAIN q = 1 .. Len(call.outputs)
      BY <3>2, <3>4
    <3> QED BY <3>1, <3>2, <3>3, <3>4, <3>5 DEF Distinct
  <2> QED BY <2>1, <2>2
<1>3. \A n, d : AllocatedOutput(n, d).name = n
  BY DEF AllocatedOutput, HostOutput
<1>4. DOMAIN outputs = DOMAIN Selected /\ \A i \in DOMAIN Selected : outputs[i].name = Selected[i]
  BY <1>3
<1>5. IsSeq(outputs)
  <2>1. outputs \in [1 .. Len(Selected) -> ToSet(outputs)]
    <3>1. \A i \in DOMAIN outputs : outputs[i] \in ToSet(outputs)
      BY DEF ToSet
    <3> QED BY <1>2, <3>1
  <2> QED BY <1>2, <2>1 DEF IsSeq
<1> HIDE DEF outputs, dims
<1>6. OutputsOnce => Distinct(outputs)
  BY <1>2, <1>4 DEF Distinct
<1>7. {outputs[i].name : i \in DOMAIN outputs} = ToSet(Selected)
  BY <1>4 DEF ToSet
<1> QED BY <1>1, <1>5, <1>6, <1>7

(* run_allocating goes on with outputs of the inferred shapes.              *)
LEMMA InferShapesBinds == ASSUME IInv, BInv, InferShapes PROVE BInv'
<1>1. Busy /\ call.step = "infer_shapes"
  BY BusyAt DEF InferShapes, At
<1>2. IInv' /\ UNCHANGED <<size, queue>>
  BY InferShapesKeeps DEF InferShapes, device
<1>3. /\ call.temps = {} /\ Len(call.bound) = 0 /\ Len(call.targets) = 0
      /\ call.kind = "allocating" /\ IsSeq(call.inputs) /\ IsSeq(call.outputs)
  BY <1>1 DEF IInv, CallTyped, BInv, CallBound, CallAsked, Early
<1>4. GaveBack
  BY InferShapesGives
<1>5. PICK outputs : /\ call'.outputs = outputs /\ IsSeq(outputs)
                     /\ OutputsOnce => Distinct(outputs)
                     /\ call'.inputs = call.inputs
  <2>1. CASE OutputsInferred
    <3>1. PICK outputs :
              /\ call' = [call EXCEPT !.step = "context", !.context = {}, !.outputs = outputs]
              /\ IsSeq(outputs) /\ (OutputsOnce => Distinct(outputs))
      BY <1>1, <2>1, OutputsAre
    <3>2. call'.outputs = outputs /\ call'.inputs = call.inputs
      BY <1>1, <3>1 DEF IInv, CallTyped, CallFields
    <3> QED BY <3>1, <3>2
  <2>2. CASE call' = [call EXCEPT !.step = "return", !.ok = FALSE, !.context = {}]
    <3>1. call'.outputs = call.outputs /\ call'.inputs = call.inputs
      BY <1>1, <2>2 DEF IInv, CallTyped, CallFields
    <3>2. OutputsOnce => Distinct(call.outputs)
      BY <1>1 DEF BInv, CallAsked
    <3> QED BY <1>3, <3>1, <3>2
  <2> QED BY <2>1, <2>2 DEF InferShapes
<1>6. CallAsked'
  <2>1. /\ (RefusedFirst => LaterFit(call.inputs)) /\ call.id \in Ids /\ call.stream \in Streams
        /\ \A b \in ToSet(call.inputs) : IsBinding(b) /\ b.dims \in DimsOf(b.name)
    BY <1>1 DEF BInv, CallAsked
  <2>2. /\ call'.id = call.id /\ call'.kind = "allocating" /\ call'.stream = call.stream
    BY <1>3, <1>4 DEF GaveBack
  <2> QED BY <1>3, <1>5, <2>1, <2>2, ConditionsStay
          DEF CallAsked, IsSeq, IsBinding, CopiesOut, DimsOf, Tensors
<1>7. ShapesRemembered'
  <2>1. CASE ShapesSet
    BY <1>1, <2>1, ShapesAreSet
  <2>2. CASE ShapesRefused
    BY <1>1, <2>2, ShapesAreRefused
  <2> QED BY <2>1, <2>2 DEF InferShapes
<1>8. Covered'
  BY <1>2, CoveredKept DEF BInv, SizesKept
<1>9. /\ ~MayHaveWork' /\ call'.step \in {"context", "return"} /\ call'.temps = {}
      /\ Busy' /\ Len(call'.bound) = 0 /\ Len(call'.targets) = 0
  BY <1>3, <1>4 DEF GaveBack, MayHaveWork
<1>10. CallAddressed'
  BY <1>9 DEF CallAddressed, Fixed
<1>11. Len(call'.inputs) \in Nat /\ Len(call'.outputs) \in Nat
  BY <1>3, <1>5 DEF IsSeq
<1>12. call'.step \in Early \cup {"return"}
  BY <1>9 DEF Early
<1> QED BY <1>2, <1>6, <1>7, <1>8, <1>9, <1>10, <1>11, <1>12, EarlyBinds

-----------------------------------------------------------------------------
(* Inputs and outputs: one more binding.                                    *)

(* A call with the same fields asks the same.                               *)
LEMMA AskedKept ==
    ASSUME CallAsked, Busy, call'.step = call.step, call'.id = call.id, call'.kind = call.kind,
           call'.stream = call.stream, call'.inputs = call.inputs, call'.outputs = call.outputs
    PROVE  CallAsked'
BY ConditionsStay DEF CallAsked, IsSeq, IsBinding, CopiesOut, DimsOf, Tensors

(* A binding more does not change what was asked.                           *)
LEMMA GrownAsked ==
    ASSUME BInv, Busy, NEW temps, NEW inputs, NEW outputs, Grown(temps, inputs, outputs)
    PROVE  CallAsked'
<1>1. /\ call'.step = call.step /\ call'.id = call.id /\ call'.kind = call.kind
      /\ call'.stream = call.stream /\ call'.inputs = call.inputs
      /\ call'.outputs = call.outputs
  BY DEF Grown, SameCall
<1> QED BY <1>1, AskedKept DEF BInv

(* Nor where earlier bindings are.                                          *)
LEMMA GrownPlaced ==
    ASSUME SizesKept, NEW temps, NEW inputs, NEW outputs, Grown(temps, inputs, outputs),
           NEW a, NEW b, NEW copies, PlacedAt(a, b, copies)
    PROVE  PlacedAt(a, b, copies)'
<1>1. call'.id = call.id /\ call.temps \subseteq call'.temps
  BY DEF Grown, SameCall
<1> QED BY <1>1 DEF PlacedAt, Temporary, CallerMemory, SizesKept

(* A buffer that is allocated leaves the sizes of the others.               *)
LEMMA AllocatedSize ==
    ASSUME IInv, Busy, NEW b, b \notin DOMAIN size, NEW bytes, Allocates(b, bytes)
    PROVE  /\ SizesKept /\ size'[b] = bytes /\ b \notin call.temps
<1>1. call.temps \subseteq DOMAIN size
  BY DEF IInv, CallTyped
<1>2. size' = With(size, b, bytes)
  BY DEF Allocates
<1> QED BY <1>1, <1>2 DEF With, SizesKept

(* An address among others that is of no buffer, or of a new one, is apart. *)
Alone(q, a) == \A i \in DOMAIN q : q[i].of = "buffer" => q[i] # a

(* A buffer that the call did not own is none of its addresses.             *)
LEMMA NewAlone ==
    ASSUME NEW q, NEW id, NEW temps, OwnAll(q, id, temps), NEW a,
           a.of # "buffer" \/ a.buffer \notin temps
    PROVE  Alone(q, a)
<1> SUFFICES ASSUME NEW i \in DOMAIN q, q[i].of = "buffer" PROVE q[i] # a
  BY DEF Alone
<1>1. q[i].buffer \in temps
  BY DEF OwnAll, Own, NullAddress
<1> QED BY <1>1

(* An input that was checked is bound.                                      *)
LEMMA InputAdded ==
    ASSUME IInv, BInv, Busy, call.step = "inputs", NEW temps, NEW a,
           Grown(temps, Append(call.bound, a), call.targets),
           Len(call.bound) < Len(call.inputs), SizesKept,
           NEW input, input = call.inputs[Len(call.bound) + 1],
           InputValid(input), PlacedAt(a, input, input.at = "staged")',
           a.of # "buffer" \/ a.buffer \notin call.temps,
           UNCHANGED <<address, shapes>>,
           \A s \in Streams : \A work \in ToSet(queue'[s]) :
               \/ work \in ToSet(queue[s])
               \/ work.op = "copy_in" /\ work.name = input.name /\ a = Temporary(work.buffer)
    PROVE  BInv'
<1>1. PICK q : q = Append(call.bound, a)
  OBVIOUS
<1>2. PICK k : k = Len(call.bound)
  OBVIOUS
<1>3. /\ call'.step = "inputs" /\ call'.id = call.id /\ call'.kind = call.kind
      /\ call'.inputs = call.inputs /\ call'.outputs = call.outputs
      /\ call'.context = call.context /\ call'.copied = call.copied
      /\ call'.bound = q /\ call'.targets = call.targets
  BY <1>1 DEF Grown, SameCall
<1>4. /\ IsSeq(q) /\ k \in Nat /\ DOMAIN call.bound = 1 .. k /\ DOMAIN q = 1 .. k + 1
      /\ \A i \in DOMAIN call.bound : q[i] = call.bound[i]
      /\ q[k + 1] = a /\ Len(q) = k + 1
  <2>1. IsSeq(call.bound)
    BY DEF IInv, CallTyped
  <2>2. /\ IsSeq(q) /\ k \in Nat /\ DOMAIN call.bound = 1 .. k /\ DOMAIN q = 1 .. k + 1
        /\ \A i \in DOMAIN call.bound : q[i] = call.bound[i]
        /\ q[k + 1] = a
    BY <1>1, <1>2, <2>1, Appended
  <2>3. Len(q) = k + 1
    BY <2>2 DEF IsSeq
  <2> QED BY <2>2, <2>3
<1>5. DOMAIN call.targets = {} /\ Len(call.targets) = 0
  <2>1. Len(call.targets) = 0 /\ IsSeq(call.targets)
    BY DEF BInv, CallBound, IInv, CallTyped
  <2> QED BY <2>1, NothingBound
<1>6. \A i \in DOMAIN q : i \in DOMAIN call.bound \/ i = k + 1
  BY <1>4
<1>7. input = call.inputs[k + 1] /\ k + 1 <= Len(call.inputs) /\ k + 1 \in DOMAIN call.inputs
  <2>1. Len(call.inputs) \in Nat /\ DOMAIN call.inputs = 1 .. Len(call.inputs)
    BY DEF BInv, CallAsked, IsSeq
  <2> QED BY <1>4, <1>2, <2>1
<1>8. Sized(input, "input")
  <2>1. input.at = "device" => input.dtypes # {}
    BY <1>7 DEF BInv, CallAsked, IsBinding, ToSet
  <2> QED BY <2>1, ValidSized DEF InputValid
<1>9. Alone(call.bound, a)
  BY NewAlone DEF IInv, Addressed
<1>10. CallBound'
  <2>1. \A b, mode : Sized(b, mode)' = Sized(b, mode)
    BY DEF Sized, Tensors
  <2>3. \A x, b, copies : PlacedAt(x, b, copies) => PlacedAt(x, b, copies)'
    BY GrownPlaced
  <2>2. ASSUME NEW i \in DOMAIN q
        PROVE  /\ Sized(call.inputs[i], "input")
               /\ PlacedAt(q[i], call.inputs[i], call.inputs[i].at = "staged")'
    <3>1. CASE i \in DOMAIN call.bound
      <4>1. Sized(call.inputs[i], "input")
        BY <3>1 DEF BInv, CallBound
      <4>2. PlacedAt(q[i], call.inputs[i], call.inputs[i].at = "staged")
        BY <1>4, <3>1 DEF BInv, CallBound
      <4>3. PlacedAt(q[i], call.inputs[i], call.inputs[i].at = "staged")'
        BY <1>3, <2>3, <4>2
      <4> QED BY <4>1, <4>3
    <3>2. CASE i = k + 1
      BY <1>3, <1>4, <1>7, <1>8, <3>2
    <3> QED BY <1>6, <3>1, <3>2
  <2> QED BY <1>3, <1>4, <1>5, <1>7, <2>1, <2>2 DEF CallBound, Early, Fixed, BInv
<1>11. Apart'
  <2>1. ASSUME NEW i \in DOMAIN q, NEW j \in DOMAIN q, q[i].of = "buffer", q[i] = q[j]
        PROVE  i = j
    <3>1. CASE i \in DOMAIN call.bound /\ j \in DOMAIN call.bound
      BY <1>4, <2>1, <3>1 DEF BInv, Apart
    <3>2. CASE i = k + 1 /\ j \in DOMAIN call.bound
      BY <1>4, <1>9, <2>1, <3>2 DEF Alone
    <3>3. CASE i \in DOMAIN call.bound /\ j = k + 1
      BY <1>4, <1>9, <2>1, <3>3 DEF Alone
    <3> QED BY <1>6, <3>1, <3>2, <3>3
  <2> QED BY <1>3, <1>5, <2>1 DEF Apart
<1>12. Held' = Held
  BY <1>3 DEF Held
<1>13. CallShapes'
  BY <1>3, <1>5, <1>12, ConditionsStay DEF BInv, CallShapes, Staging, Fixed, Named, Tensors
<1>14. CallAddressed'
  BY <1>3, <1>12 DEF BInv, CallAddressed, Fixed, Tensors, NullAddress
<1>15. CallWork'
  <2>1. ASSUME NEW s \in Streams, NEW work \in ToSet(queue'[s]), work.id = call.id
        PROVE  WorkOf(work)'
    <3>1. CASE work \in ToSet(queue[s])
      <4>1. WorkOf(work)
        BY <2>1, <3>1 DEF BInv, CallWork
      <4>2. PICK i \in DOMAIN call.bound : /\ call.inputs[i].name = work.name
                                           /\ call.bound[i] = Temporary(work.buffer)
        BY <4>1 DEF WorkOf, Starting
      <4>3. work.op = "copy_in"
        BY <4>1 DEF WorkOf, Starting
      <4>4. i \in DOMAIN q /\ q[i] = call.bound[i]
        BY <1>4
      <4> QED BY <1>3, <4>2, <4>3, <4>4 DEF WorkOf, Temporary
    <3>2. CASE work.op = "copy_in" /\ work.name = input.name /\ a = Temporary(work.buffer)
      <4>1. k + 1 \in DOMAIN q /\ q[k + 1] = a
        BY <1>4
      <4> QED BY <1>3, <1>7, <3>2, <4>1 DEF WorkOf, Temporary
    <3> QED BY <3>1, <3>2
  <2> QED BY <1>3, <2>1 DEF CallWork
<1>16. Covered'
  BY CoveredKept DEF BInv
<1>17. ShapesRemembered'
  BY ShapesStay DEF BInv
<1>18. CallAsked'
  BY GrownAsked
<1> QED BY <1>10, <1>11, <1>13, <1>14, <1>15, <1>16, <1>17, <1>18 DEF BInv

(* What is queued is what was queued and one more.                          *)
LEMMA QueuedOne ==
    ASSUME IInv, BInv, Busy, NEW work, Enqueues(call.stream, work)
    PROVE  \A s \in Streams : \A w \in ToSet(queue'[s]) : w \in ToSet(queue[s]) \/ w = work
<1> SUFFICES ASSUME NEW s \in Streams, NEW w \in ToSet(queue'[s])
             PROVE  w \in ToSet(queue[s]) \/ w = work
  OBVIOUS
<1>1. /\ queue' = [queue EXCEPT ![call.stream] = Append(@, work)] /\ DOMAIN queue = Streams
      /\ IsSeq(queue[s])
  BY DEF Enqueues, IInv, WorkPlaced
<1>2. ToSet(Append(queue[s], work)) = ToSet(queue[s]) \cup {work}
  BY <1>1, Appended
<1> QED BY <1>1, <1>2

(* An input is staged, bound as it is, or refused.                          *)
LEMMA StageInputBinds == ASSUME IInv, BInv, StageInput PROVE BInv'
<1>1. PICK input : input = call.inputs[Len(call.bound) + 1]
  OBVIOUS
<1>2. Busy /\ call.step = "inputs" /\ DOMAIN call = CallFields
      /\ Len(call.bound) < Len(call.inputs)
  BY BusyAt DEF StageInput, At, IInv, CallTyped
<1>3. UNCHANGED <<address, shapes>>
  BY DEF StageInput, bound
<1>4. \/ /\ InputValid(input) /\ input.at = "staged"
         /\ \E b \in Buffers \ DOMAIN size :
               /\ Allocates(b, input.bytes)
               /\ Enqueues(call.stream, [op |-> "copy_in", id |-> call.id,
                                         name |-> input.name, buffer |-> b])
               /\ call' = [call EXCEPT !.bound = Append(@, Temporary(b)), !.temps = @ \cup {b}]
      \/ /\ InputValid(input) /\ input.at # "staged"
         /\ call' = [call EXCEPT !.bound = Append(@, CallerMemory(call.id, input)),
                                 !.temps = @ \cup {}]
         /\ UNCHANGED device
      \/ Fail /\ UNCHANGED device
  BY <1>1 DEF StageInput
<1>5. ASSUME InputValid(input), input.at = "staged", NEW b \in Buffers \ DOMAIN size,
             Allocates(b, input.bytes),
             Enqueues(call.stream, [op |-> "copy_in", id |-> call.id,
                                    name |-> input.name, buffer |-> b]),
             call' = [call EXCEPT !.bound = Append(@, Temporary(b)), !.temps = @ \cup {b}]
      PROVE  BInv'
  <2>1. PICK a : a = Temporary(b)
    OBVIOUS
  <2>2. PICK work : work = [op |-> "copy_in", id |-> call.id, name |-> input.name, buffer |-> b]
    OBVIOUS
  <2>3. Grown({b}, Append(call.bound, a), call.targets)
    BY <1>2, <1>5, <2>1 DEF Grown, SameCall, Busy, NoCall, CallFields
  <2>4. SizesKept /\ size'[b] = input.bytes /\ b \notin call.temps
    BY <1>2, <1>5, AllocatedSize
  <2>5. PlacedAt(a, input, input.at = "staged")'
    <3>1. b \in call'.temps
      BY <2>3 DEF Grown
    <3> QED BY <1>5, <2>1, <2>4, <3>1 DEF PlacedAt, Temporary
  <2>6. a.of # "buffer" \/ a.buffer \notin call.temps
    BY <2>1, <2>4 DEF Temporary
  <2>7. \A s \in Streams : \A w \in ToSet(queue'[s]) : w \in ToSet(queue[s]) \/ w = work
    BY <1>2, <1>5, <2>2, QueuedOne
  <2>8. work.op = "copy_in" /\ work.name = input.name /\ a = Temporary(work.buffer)
    BY <2>1, <2>2
  <2>9. \A s \in Streams : \A w \in ToSet(queue'[s]) :
            \/ w \in ToSet(queue[s])
            \/ w.op = "copy_in" /\ w.name = input.name /\ a = Temporary(w.buffer)
    BY <2>7, <2>8
  <2> QED BY <1>1, <1>2, <1>3, <1>5, <2>3, <2>4, <2>5, <2>6, <2>9, InputAdded
<1>6. ASSUME InputValid(input), input.at # "staged",
             call' = [call EXCEPT !.bound = Append(@, CallerMemory(call.id, input)),
                                  !.temps = @ \cup {}],
             UNCHANGED device
      PROVE  BInv'
  <2>1. PICK a : a = CallerMemory(call.id, input)
    OBVIOUS
  <2>2. Grown({}, Append(call.bound, a), call.targets)
    BY <1>2, <1>6, <2>1 DEF Grown, SameCall, Busy, NoCall, CallFields
  <2>3. UNCHANGED <<size, queue>> /\ SizesKept
    BY <1>6 DEF device, SizesKept
  <2>4. PlacedAt(a, input, input.at = "staged")'
    <3>1. call'.id = call.id
      BY <2>2 DEF Grown, SameCall
    <3> QED BY <1>6, <2>1, <3>1 DEF PlacedAt, CallerMemory
  <2>5. a.of # "buffer"
    BY <2>1 DEF CallerMemory
  <2> QED BY <1>1, <1>2, <1>3, <1>6, <2>2, <2>3, <2>4, <2>5, InputAdded
<1>7. CASE Fail /\ UNCHANGED device
  <2>1. UNCHANGED <<size, queue>> /\ SizesKept
    BY <1>7 DEF device, SizesKept
  <2> QED BY <1>2, <1>3, <1>7, <2>1, FailBinds
<1> QED BY <1>4, <1>5, <1>6, <1>7

(* An output that was checked is bound.                                     *)
LEMMA OutputAdded ==
    ASSUME IInv, BInv, Busy, call.step = "outputs", NEW temps, NEW a,
           Grown(temps, call.bound, Append(call.targets, a)),
           Len(call.targets) < Len(call.outputs), SizesKept,
           NEW output, output = call.outputs[Len(call.targets) + 1],
           OutputValid(output), PlacedAt(a, output, CopiesOut(call.kind))',
           a.of # "buffer" \/ a.buffer \notin call.temps,
           \A n \in DOMAIN Tensors :
               \/ address'[Held][n] = address[Held][n]
               \/ n = output.name /\ address'[Held][n] = a,
           UNCHANGED <<shapes, queue>>
    PROVE  BInv'
<1>1. PICK q : q = Append(call.targets, a)
  OBVIOUS
<1>2. PICK k : k = Len(call.targets)
  OBVIOUS
<1>3. /\ call'.step = "outputs" /\ call'.id = call.id /\ call'.kind = call.kind
      /\ call'.inputs = call.inputs /\ call'.outputs = call.outputs
      /\ call'.context = call.context /\ call'.copied = call.copied
      /\ call'.bound = call.bound /\ call'.targets = q
  BY <1>1 DEF Grown, SameCall
<1>4. /\ IsSeq(q) /\ k \in Nat /\ DOMAIN call.targets = 1 .. k /\ DOMAIN q = 1 .. k + 1
      /\ \A i \in DOMAIN call.targets : q[i] = call.targets[i]
      /\ q[k + 1] = a /\ Len(q) = k + 1
  <2>1. IsSeq(call.targets)
    BY DEF IInv, CallTyped
  <2>2. /\ IsSeq(q) /\ k \in Nat /\ DOMAIN call.targets = 1 .. k /\ DOMAIN q = 1 .. k + 1
        /\ \A i \in DOMAIN call.targets : q[i] = call.targets[i]
        /\ q[k + 1] = a
    BY <1>1, <1>2, <2>1, Appended
  <2>3. Len(q) = k + 1
    BY <2>2 DEF IsSeq
  <2> QED BY <2>2, <2>3
<1>5. Len(call.bound) = Len(call.inputs)
  BY DEF BInv, CallBound, Fixed
<1>6. \A i \in DOMAIN q : i \in DOMAIN call.targets \/ i = k + 1
  BY <1>4
<1>7. output = call.outputs[k + 1] /\ k + 1 <= Len(call.outputs) /\ k + 1 \in DOMAIN call.outputs
  <2>1. Len(call.outputs) \in Nat /\ DOMAIN call.outputs = 1 .. Len(call.outputs)
    BY DEF BInv, CallAsked, IsSeq
  <2> QED BY <1>4, <1>2, <2>1
<1>8. Sized(output, "output") /\ ContextDims(Held)[output.name] = output.dims
  <2>1. ~CopiesOut(call.kind) => output.dtypes # {}
    BY <1>7 DEF BInv, CallAsked, ToSet
  <2> QED BY <2>1, ValidSized DEF OutputValid
<1>9. Alone(call.targets, a) /\ Alone(call.bound, a)
  BY NewAlone DEF IInv, Addressed
<1>10. CallBound'
  <2>1. \A b, mode : Sized(b, mode)' = Sized(b, mode)
    BY DEF Sized, Tensors
  <2>2. \A x, b, copies : PlacedAt(x, b, copies) => PlacedAt(x, b, copies)'
    BY GrownPlaced
  <2>3. CopiesOut(call.kind)' = CopiesOut(call.kind)
    BY <1>3 DEF CopiesOut
  <2>4. ASSUME NEW i \in DOMAIN q
        PROVE  /\ Sized(call.outputs[i], "output")
               /\ PlacedAt(q[i], call.outputs[i], CopiesOut(call.kind))'
    <3>1. CASE i \in DOMAIN call.targets
      <4>1. Sized(call.outputs[i], "output")
        BY <3>1 DEF BInv, CallBound
      <4>2. PlacedAt(q[i], call.outputs[i], CopiesOut(call.kind))
        BY <1>4, <3>1 DEF BInv, CallBound
      <4>3. PlacedAt(q[i], call.outputs[i], CopiesOut(call.kind))'
        BY <1>3, <2>2, <2>3, <4>2
      <4> QED BY <4>1, <4>3
    <3>2. CASE i = k + 1
      BY <1>3, <1>4, <1>7, <1>8, <3>2
    <3> QED BY <1>6, <3>1, <3>2
  <2>5. ASSUME NEW i \in DOMAIN call.bound
        PROVE  /\ Sized(call.inputs[i], "input")
               /\ PlacedAt(call.bound[i], call.inputs[i], call.inputs[i].at = "staged")'
    <3>1. /\ Sized(call.inputs[i], "input")
          /\ PlacedAt(call.bound[i], call.inputs[i], call.inputs[i].at = "staged")
      BY DEF BInv, CallBound
    <3> QED BY <1>3, <2>2, <3>1
  <2>6. Len(call.bound) <= Len(call.inputs)
    BY DEF BInv, CallBound
  <2> QED BY <1>3, <1>4, <1>5, <1>7, <2>1, <2>4, <2>5, <2>6 DEF CallBound, Early, Fixed
<1>11. Apart'
  <2>1. ASSUME NEW i \in DOMAIN q, NEW j \in DOMAIN q, q[i].of = "buffer", q[i] = q[j]
        PROVE  i = j
    <3>1. CASE i \in DOMAIN call.targets /\ j \in DOMAIN call.targets
      BY <1>4, <2>1, <3>1 DEF BInv, Apart
    <3>2. CASE i = k + 1 /\ j \in DOMAIN call.targets
      BY <1>4, <1>9, <2>1, <3>2 DEF Alone
    <3>3. CASE i \in DOMAIN call.targets /\ j = k + 1
      BY <1>4, <1>9, <2>1, <3>3 DEF Alone
    <3> QED BY <1>6, <3>1, <3>2, <3>3
  <2>2. ASSUME NEW i \in DOMAIN call.bound, NEW j \in DOMAIN q, call.bound[i].of = "buffer"
        PROVE  call.bound[i] # q[j]
    <3>1. CASE j \in DOMAIN call.targets
      BY <1>4, <2>2, <3>1 DEF BInv, Apart
    <3>2. CASE j = k + 1
      BY <1>4, <1>9, <2>2, <3>2 DEF Alone
    <3> QED BY <1>6, <3>1, <3>2
  <2>3. \A i, j \in DOMAIN call.bound :
            call.bound[i].of = "buffer" /\ call.bound[i] = call.bound[j] => i = j
    BY DEF BInv, Apart
  <2> QED BY <1>3, <2>1, <2>2, <2>3 DEF Apart
<1>12. Held' = Held
  BY <1>3 DEF Held
<1>13. CallShapes'
  <2>1. ContextDims(Held)' = ContextDims(Held)
    BY <1>12 DEF ContextDims, Over
  <2>2. \A i \in DOMAIN q : ContextDims(Held)[call.outputs[i].name] = call.outputs[i].dims
    BY <1>6, <1>7, <1>8 DEF BInv, CallShapes, Fixed
  <2>3. /\ \A i \in DOMAIN call.inputs : call.inputs[i].name \in Named("input")
        /\ RefusedFirst => Agrees(shapes[Held].dims, call.inputs)
    BY DEF BInv, CallShapes, Staging, Fixed
  <2> QED BY <1>3, <1>12, <2>1, <2>2, <2>3, ConditionsStay DEF CallShapes, Named, Tensors
<1>14. ASSUME NEW n, NEW x, AddressOf(n, x) PROVE AddressOf(n, x)'
  <2>1. \A i \in DOMAIN call.targets : i \in DOMAIN q /\ q[i] = call.targets[i]
    BY <1>4
  <2> QED BY <1>3, <1>14, <2>1, ConditionsStay DEF AddressOf, NullAddress
<1>15. CallAddressed'
  <2>1. ASSUME NEW n \in DOMAIN Tensors, NEW x, x = address'[Held][n]
        PROVE  AddressOf(n, x)'
    <3>1. CASE x = address[Held][n]
      <4>1. AddressOf(n, x)
        BY <3>1 DEF BInv, CallAddressed, Fixed
      <4> QED BY <1>14, <4>1
    <3>2. CASE n = output.name /\ x = a
      <4>1. k + 1 \in DOMAIN q /\ q[k + 1] = a
        BY <1>4
      <4> QED BY <1>3, <1>7, <3>2, <4>1 DEF AddressOf
    <3> QED BY <2>1, <3>1, <3>2
  <2>2. \A n \in DOMAIN Tensors : AddressOf(n, address[Held][n])'
    BY <1>12, <2>1 DEF AddressOf
  <2> QED BY <1>3, <2>2 DEF CallAddressed, Fixed, Tensors
<1>16. CallWork'
  <2>1. ASSUME NEW s \in Streams, NEW work \in ToSet(queue[s]), work.id = call.id
        PROVE  WorkOf(work)'
    <3>1. WorkOf(work)
      BY <2>1 DEF BInv, CallWork
    <3>2. /\ work.op = "copy_in"
          /\ \E i \in DOMAIN call.bound : /\ call.inputs[i].name = work.name
                                          /\ call.bound[i] = Temporary(work.buffer)
      BY <3>1 DEF WorkOf, Starting
    <3> QED BY <1>3, <3>2 DEF WorkOf, Temporary
  <2> QED BY <1>3, <2>1 DEF CallWork
<1>17. Covered'
  BY CoveredKept DEF BInv
<1>18. ShapesRemembered'
  BY ShapesStay DEF BInv
<1>19. CallAsked'
  BY GrownAsked
<1> QED BY <1>10, <1>11, <1>13, <1>15, <1>16, <1>17, <1>18, <1>19 DEF BInv

(* An output gets a buffer, is bound as it is, or is refused.               *)
LEMMA PrepareOutputBinds == ASSUME IInv, BInv, PrepareOutput PROVE BInv'
<1>1. PICK output : output = call.outputs[Len(call.targets) + 1]
  OBVIOUS
<1>2. Busy /\ call.step = "outputs" /\ DOMAIN call = CallFields
      /\ Len(call.targets) < Len(call.outputs)
  BY BusyAt DEF PrepareOutput, At, IInv, CallTyped
<1>3. UNCHANGED shapes
  BY DEF PrepareOutput
<1>4. \/ /\ OutputValid(output) /\ CopiesOut(call.kind)
         /\ \E b \in Buffers \ DOMAIN size :
               /\ Allocates(b, output.bytes)
               /\ call' = [call EXCEPT !.targets = Append(@, Temporary(b)), !.temps = @ \cup {b}]
               /\ UNCHANGED <<queue, address>>
      \/ /\ OutputValid(output) /\ ~CopiesOut(call.kind)
         /\ call' = [call EXCEPT !.targets = Append(@, CallerMemory(call.id, output)),
                                 !.temps = @ \cup {}]
         /\ address' = [address EXCEPT ![Held][output.name] = CallerMemory(call.id, output)]
         /\ UNCHANGED device
      \/ Fail /\ UNCHANGED <<device, address>>
  BY <1>1 DEF PrepareOutput
<1>5. ASSUME OutputValid(output), CopiesOut(call.kind), NEW b \in Buffers \ DOMAIN size,
             Allocates(b, output.bytes),
             call' = [call EXCEPT !.targets = Append(@, Temporary(b)), !.temps = @ \cup {b}],
             UNCHANGED <<queue, address>>
      PROVE  BInv'
  <2>1. PICK a : a = Temporary(b)
    OBVIOUS
  <2>2. Grown({b}, call.bound, Append(call.targets, a))
    BY <1>2, <1>5, <2>1 DEF Grown, SameCall, Busy, NoCall, CallFields
  <2>3. SizesKept /\ size'[b] = output.bytes /\ b \notin call.temps
    BY <1>2, <1>5, AllocatedSize
  <2>4. PlacedAt(a, output, CopiesOut(call.kind))'
    <3>1. b \in call'.temps /\ CopiesOut(call.kind)'
      BY <1>5, <2>2 DEF Grown, SameCall, CopiesOut
    <3> QED BY <2>1, <2>3, <3>1 DEF PlacedAt, Temporary
  <2>5. a.of # "buffer" \/ a.buffer \notin call.temps
    BY <2>1, <2>3 DEF Temporary
  <2> QED BY <1>1, <1>2, <1>3, <1>5, <2>2, <2>3, <2>4, <2>5, OutputAdded
<1>6. ASSUME OutputValid(output), ~CopiesOut(call.kind),
             call' = [call EXCEPT !.targets = Append(@, CallerMemory(call.id, output)),
                                  !.temps = @ \cup {}],
             address' = [address EXCEPT ![Held][output.name] = CallerMemory(call.id, output)],
             UNCHANGED device
      PROVE  BInv'
  <2>1. PICK a : a = CallerMemory(call.id, output)
    OBVIOUS
  <2>2. Grown({}, call.bound, Append(call.targets, a))
    BY <1>2, <1>6, <2>1 DEF Grown, SameCall, Busy, NoCall, CallFields
  <2>3. UNCHANGED <<size, queue>> /\ SizesKept
    BY <1>6 DEF device, SizesKept
  <2>4. PlacedAt(a, output, CopiesOut(call.kind))'
    <3>1. call'.id = call.id /\ ~CopiesOut(call.kind)'
      BY <1>6, <2>2 DEF Grown, SameCall, CopiesOut
    <3> QED BY <2>1, <3>1 DEF PlacedAt, CallerMemory
  <2>5. a.of # "buffer"
    BY <2>1 DEF CallerMemory
  <2>6. \A n \in DOMAIN Tensors :
            \/ address'[Held][n] = address[Held][n]
            \/ n = output.name /\ address'[Held][n] = a
    <3>1. Held \in Contexts /\ DOMAIN address = Contexts
      BY <1>2, HeldIs DEF IInv, Addressed, WithContext
    <3>2. address' = [address EXCEPT ![Held] = [@ EXCEPT ![output.name] = a]]
      BY <1>6, <2>1
    <3>3. address'[Held] = [address[Held] EXCEPT ![output.name] = a]
      BY <3>1, <3>2
    <3>4. \A n \in DOMAIN Tensors : n \in DOMAIN address[Held]
      BY <3>1 DEF IInv, Addressed
    <3> QED BY <3>3, <3>4
  <2> QED BY <1>1, <1>2, <1>3, <1>6, <2>2, <2>3, <2>4, <2>5, <2>6, OutputAdded
<1>7. CASE Fail /\ UNCHANGED <<device, address>>
  <2>1. UNCHANGED <<size, queue>> /\ SizesKept
    BY <1>7 DEF device, SizesKept
  <2> QED BY <1>2, <1>3, <1>7, <2>1, FailBinds
<1> QED BY <1>4, <1>5, <1>6, <1>7

-----------------------------------------------------------------------------
(* The addresses are set.                                                   *)

(* Addresses of the context are set from bindings, some or all of them.     *)
LEMMA BindBinds ==
    ASSUME IInv, BInv, Busy, call.step \in {"inputs", "outputs"},
           NEW bindings, NEW targets, Len(targets) = Len(bindings), IsSeq(targets),
           IsSeq(bindings),
           \A i \in DOMAIN targets :
               IsLast(bindings, i) => AddressOf(bindings[i].name, targets[i]),
           NEW next \in {"outputs", "enqueue"}, Len(call.bound) = Len(call.inputs),
           BindAll(bindings, targets, next),
           UNCHANGED <<shapes, size, queue>>
    PROVE  BInv'
<1>1. PICK k \in 0 .. Len(bindings) :
         /\ address' = [address EXCEPT ![Held] = Binding(bindings, targets, k)]
         /\ (k = Len(bindings) /\ Goto(next)) \/ Fail
  BY DEF BindAll
<1>2. SizesKept /\ \A s \in Streams : ToSet(queue'[s]) \subseteq ToSet(queue[s])
  BY DEF SizesKept
<1>3. CASE k = Len(bindings) /\ Goto(next)
  <2>1. Moved(next, call.ok)
    BY <1>3, Went DEF IInv
  <2>2. GoesOn(next) /\ next # "inputs"
    BY DEF GoesOn, Fixed, Staging, Starting
  <2>3. /\ call'.bound = call.bound /\ call'.targets = call.targets /\ call'.inputs = call.inputs
        /\ call'.outputs = call.outputs /\ call'.context = call.context
        /\ call'.step \in Fixed
    BY <2>1 DEF Moved, SameCall, Fixed
  <2>4. Held' = Held /\ Held \in Contexts
    BY <2>3, HeldIs DEF Held, WithContext
  <2>5. k \in Nat /\ DOMAIN bindings = 1 .. k /\ \A i \in 1 .. k : i \in DOMAIN targets
    BY <1>1, <1>3 DEF IsSeq
  <2>6. ASSUME NEW n \in DOMAIN Tensors PROVE AddressOf(n, Binding(bindings, targets, k)[n])
    <3>1. CASE \E i \in 1 .. k : bindings[i].name = n
      <4>1. PICK j : j = LastOf(bindings, k, n)
        OBVIOUS
      <4>2. /\ j \in 1 .. k /\ bindings[j].name = n
            /\ \A i \in 1 .. k : bindings[i].name = n => i <= j
        BY <2>5, <3>1, <4>1, LastIs
      <4>3. Binding(bindings, targets, k)[n] = targets[j]
        BY <3>1, <4>1 DEF Binding
      <4>4. IsLast(bindings, j)
        BY <2>5, <4>2 DEF IsLast
      <4> QED BY <2>5, <4>2, <4>3, <4>4
    <3>2. CASE ~\E i \in 1 .. k : bindings[i].name = n
      <4>1. Binding(bindings, targets, k)[n] = address[Held][n]
        BY <3>2 DEF Binding
      <4>2. AddressOf(n, address[Held][n])
        <5>1. CASE call.step = "inputs"
          <6>1. address[Held][n] = NullAddress
            BY <5>1 DEF BInv, CallAddressed
          <6> QED BY <6>1 DEF AddressOf
        <5>2. CASE call.step = "outputs"
          BY <5>2 DEF BInv, CallAddressed, Fixed
        <5> QED BY <5>1, <5>2
      <4> QED BY <4>1, <4>2
    <3> QED BY <3>1, <3>2
  <2>7. address'[Held] = Binding(bindings, targets, k)
    BY <1>1, <2>4 DEF IInv, Addressed
  <2>8. ASSUME NEW n \in DOMAIN Tensors, NEW x, x = address'[Held][n]
        PROVE  AddressOf(n, x)'
    <3>1. AddressOf(n, x)
      BY <2>6, <2>7, <2>8
    <3> QED BY <2>3, <3>1, ConditionsStay DEF AddressOf, NullAddress
  <2>9. \A n \in DOMAIN Tensors : AddressOf(n, address[Held][n])'
    BY <2>4, <2>8 DEF AddressOf
  <2>10. call'.step \notin {"infer_shapes", "shapes", "inputs"}
    BY <2>3 DEF Fixed
  <2>11. CallAddressed'
    BY <2>9, <2>10 DEF CallAddressed, Tensors
  <2> QED BY <1>2, <2>1, <2>2, <2>11, MovedKeeps
<1>4. CASE Fail
  BY <1>2, <1>4, FailBinds
<1> QED BY <1>1, <1>3, <1>4

(* To those of the inputs.                                                  *)
LEMMA BindInputsBinds == ASSUME IInv, BInv, BindInputs PROVE BInv'
<1>1. Busy /\ call.step = "inputs"
  BY BusyAt DEF BindInputs, At
<1>2. UNCHANGED <<shapes, size, queue>>
  BY DEF BindInputs, device
<1>3. IsSeq(call.bound) /\ Len(call.bound) = Len(call.inputs)
  BY <1>1 DEF BindInputs, IInv, CallTyped
<1>4. /\ IsSeq(call.inputs)
      /\ \A i \in DOMAIN call.bound :
             IsLast(call.inputs, i) => AddressOf(call.inputs[i].name, call.bound[i])
  BY <1>1 DEF AddressOf, BInv, CallAsked
<1>5. BindAll(call.inputs, call.bound, "outputs")
  BY DEF BindInputs
<1> QED BY <1>1, <1>2, <1>3, <1>4, <1>5, BindBinds

(* To those of the outputs.                                                 *)
LEMMA BindOutputsBinds == ASSUME IInv, BInv, BindOutputs PROVE BInv'
<1>1. Busy /\ call.step = "outputs"
  BY BusyAt DEF BindOutputs, At
<1>2. UNCHANGED <<shapes, size, queue>>
  BY DEF BindOutputs, device
<1>3. IsSeq(call.targets) /\ Len(call.targets) = Len(call.outputs)
  BY <1>1 DEF BindOutputs, IInv, CallTyped
<1>4. /\ IsSeq(call.outputs)
      /\ \A i \in DOMAIN call.targets :
             IsLast(call.outputs, i) => AddressOf(call.outputs[i].name, call.targets[i])
  BY <1>1 DEF AddressOf, BInv, CallAsked
<1>5. BindAll(call.outputs, call.targets, "enqueue")
  BY DEF BindOutputs
<1>6. Len(call.bound) = Len(call.inputs)
  BY <1>1 DEF BInv, CallBound, Fixed
<1> QED BY <1>1, <1>2, <1>3, <1>4, <1>5, <1>6, BindBinds

-----------------------------------------------------------------------------
(* The launch, the copies and the wait.                                     *)

(* The memory of a binding has the bytes of its shape.                      *)
LEMMA PlacedBytes ==
    ASSUME NEW a, NEW b, NEW copies, PlacedAt(a, b, copies)
    PROVE  BytesBehind(a) = b.bytes
<1>1. CASE copies
  <2>1. PICK m : a = Temporary(m) /\ size[m] = b.bytes
    BY <1>1 DEF PlacedAt
  <2> QED BY <2>1 DEF Temporary, BytesBehind
<1>2. CASE ~copies
  <2>1. a = CallerMemory(call.id, b)
    BY <1>2 DEF PlacedAt
  <2> QED BY <2>1 DEF CallerMemory, BytesBehind
<1> QED BY <1>1, <1>2

(* Where the call bound a tensor, the engine finds what it accesses.        *)
LEMMA AddressCovers ==
    ASSUME RefusedFirst, IInv, BInv, Busy, call.step \in {"outputs", "enqueue"},
           NEW n \in DOMAIN Tensors, NEW a, a # NullAddress, AddressOf(n, a)
    PROVE  BytesBehind(a) >= AccessedBytes(Engine[n], ContextDims(Held)[n])
<1>1. Held \in Contexts /\ ShapesRemembered
  BY HeldIs DEF WithContext, BInv
<1>2. ASSUME NEW i \in DOMAIN call.bound, call.inputs[i].name = n, a = call.bound[i],
             IsLast(call.inputs, i)
      PROVE  BytesBehind(a) >= AccessedBytes(Engine[n], ContextDims(Held)[n])
  <2>0. PICK b : b = call.inputs[i]
    OBVIOUS
  <2>1. Sized(b, "input") /\ PlacedAt(a, b, b.at = "staged")
    BY <1>2, <2>0 DEF BInv, CallBound
  <2>2. i \in DOMAIN call.inputs
    <3>1. /\ DOMAIN call.bound = 1 .. Len(call.bound) /\ Len(call.bound) \in Nat
          /\ DOMAIN call.inputs = 1 .. Len(call.inputs) /\ Len(call.inputs) \in Nat
      BY DEF IInv, CallTyped, IsSeq, BInv, CallAsked
    <3>2. Len(call.bound) <= Len(call.inputs)
      BY DEF BInv, CallBound
    <3> QED BY <3>1, <3>2
  <2>3. b.dims \in Seq(Int)
    BY <2>0, <2>2 DEF BInv, CallAsked, IsBinding, ToSet
  <2>4. b.bytes \in Int /\ b.bytes = AccessedBytes(Engine[n], b.dims)
    BY <1>2, <2>0, <2>1, <2>3, SizedCovers
  <2>5. BytesBehind(a) = b.bytes
    BY <2>1, PlacedBytes
  <2>6. n \in Named("input") /\ shapes[Held].dims[n] = b.dims
    BY <1>2, <2>0, <2>2 DEF BInv, CallShapes, Staging, Fixed, Agrees
  <2>7. ContextDims(Held)[n] = b.dims
    BY <1>1, <2>6, ContextDimsSet
  <2> QED BY <2>4, <2>5, <2>7
<1>3. ASSUME NEW i \in DOMAIN call.targets, call.outputs[i].name = n, a = call.targets[i]
      PROVE  BytesBehind(a) >= AccessedBytes(Engine[n], ContextDims(Held)[n])
  <2>0. PICK b : b = call.outputs[i]
    OBVIOUS
  <2>1. Sized(b, "output") /\ PlacedAt(a, b, CopiesOut(call.kind))
    BY <1>3, <2>0 DEF BInv, CallBound
  <2>2. n \in Named("output")
    BY <1>3, <2>0, <2>1 DEF Sized, Fits, Named
  <2>3. ContextDims(Held)[n] = b.dims
    BY <1>3, <2>0 DEF BInv, CallShapes, Fixed
  <2>4. b.dims \in Seq(Int)
    BY <1>1, <2>2, <2>3, ContextDimsTyped
  <2>5. b.bytes \in Int /\ b.bytes = AccessedBytes(Engine[n], b.dims)
    BY <1>3, <2>0, <2>1, <2>4, SizedCovers
  <2>6. BytesBehind(a) = b.bytes
    BY <2>1, PlacedBytes
  <2> QED BY <2>3, <2>5, <2>6
<1> QED BY <1>2, <1>3 DEF AddressOf

(* The inference is enqueued with the addresses that are set: here the bytes*)
(* behind them are compared to those that it accesses.                      *)
LEMMA EnqueueBinds == ASSUME IInv, BInv, Enqueue PROVE BInv'
<1>1. PICK work : work = [op |-> "infer", id |-> call.id, context |-> Held,
                          address |-> address[Held], dims |-> ContextDims(Held)]
  OBVIOUS
<1>2. Busy /\ call.step = "enqueue"
  BY BusyAt DEF Enqueue, At
<1>3. UNCHANGED <<shapes, address, size>> /\ SizesKept
  BY DEF Enqueue, bound, SizesKept
<1>4. \/ Ready /\ Enqueues(call.stream, work) /\ Goto(AfterEnqueue)
      \/ Fail /\ UNCHANGED queue
  BY <1>1 DEF Enqueue
<1>5. CASE Ready /\ Enqueues(call.stream, work) /\ Goto(AfterEnqueue)
  <2>0. PICK next : next = AfterEnqueue
    OBVIOUS
  <2>1. next \in {"copy_out", "synchronize", "return"}
    BY <2>0 DEF AfterEnqueue
  <2>2. Moved(next, call.ok)
    BY <1>2, <1>5, <2>0, <2>1, Went DEF IInv
  <2>3. Len(call.bound) = Len(call.inputs) /\ Len(call.targets) = Len(call.outputs)
    BY <1>2 DEF BInv, CallBound, Fixed, IInv, CallTyped
  <2>4. GoesOn(next)
    BY <1>2, <2>1, <2>3 DEF GoesOn, Fixed, Staging, Starting
  <2>5. CallAsked' /\ CallBound' /\ Apart' /\ CallShapes'
    BY <1>2, <1>3, <2>1, <2>2, <2>4, MovedBinds
  <2>6. ShapesRemembered'
    BY <1>3, ShapesStay DEF BInv
  <2>7. \A s \in Streams : \A w \in ToSet(queue'[s]) : w \in ToSet(queue[s]) \/ w = work
    BY <1>2, <1>5, QueuedOne
  <2>8. /\ call'.step = next /\ call'.id = call.id /\ call'.context = call.context
        /\ call'.inputs = call.inputs /\ call'.outputs = call.outputs
        /\ call'.bound = call.bound /\ call'.targets = call.targets
    BY <2>2 DEF Moved, SameCall
  <2>9. \A n, a : AddressOf(n, a)' = AddressOf(n, a)
    BY <2>8, ConditionsStay DEF AddressOf, NullAddress
  <2>10. \A n \in DOMAIN Tensors : AddressOf(n, address[Held][n])
    BY <1>2 DEF BInv, CallAddressed, Fixed
  <2>11. Held' = Held
    BY <2>8 DEF Held
  <2>12. CallAddressed'
    <3>1. \A n \in DOMAIN Tensors : AddressOf(n, address[Held][n])'
      BY <1>3, <2>8, <2>10, <2>11, ConditionsStay DEF AddressOf, NullAddress
    <3> QED BY <2>1, <2>8, <3>1 DEF CallAddressed, Tensors
  <2>13. CallWork'
    <3>1. WorkOf(work)'
      <4>1. \A n \in DOMAIN Tensors : work.address[n] # NullAddress
        BY <1>1, <1>5 DEF Ready
      <4>2. \A n \in DOMAIN Tensors : AddressOf(n, work.address[n])
        BY <1>1, <2>10
      <4>3. \A n \in DOMAIN Tensors : AddressOf(n, work.address[n])'
        BY <2>9, <4>2
      <4>4. call'.step \notin Starting
        BY <2>1, <2>8 DEF Starting, Early
      <4> QED BY <1>1, <2>3, <2>8, <4>1, <4>3, <4>4 DEF WorkOf, Tensors, NullAddress
    <3>2. ASSUME NEW s \in Streams, NEW w \in ToSet(queue'[s]), w.id = call.id
          PROVE  WorkOf(w)'
      <4>1. CASE w \in ToSet(queue[s])
        <5>1. WorkOf(w)
          BY <1>2, <3>2, <4>1 DEF BInv, CallWork
        <5> QED BY <1>2, <2>2, <2>4, <5>1, MovedWorkOf
      <4> QED BY <2>7, <3>1, <4>1
    <3> QED BY <2>8, <3>2 DEF CallWork
  <2>14. Covered'
    <3> SUFFICES ASSUME RefusedFirst PROVE BoundCovers'
      BY ConditionsStay DEF Covered
    <3>1. \A a : BytesBehind(a)' = BytesBehind(a)
      BY <1>3 DEF BytesBehind
    <3>2. ASSUME NEW n \in DOMAIN Tensors
          PROVE  BytesBehind(work.address[n]) >= AccessedBytes(Engine[n], work.dims[n])
      <4>1. PICK a : a = address[Held][n]
        OBVIOUS
      <4>2. a # NullAddress /\ AddressOf(n, a)
        BY <1>5, <2>10, <4>1 DEF Ready
      <4>3. BytesBehind(a) >= AccessedBytes(Engine[n], ContextDims(Held)[n])
        BY <1>2, <4>2, AddressCovers
      <4> QED BY <1>1, <4>1, <4>3
    <3>3. ASSUME NEW s \in Streams, NEW w \in ToSet(queue'[s]), w.op = "infer",
                 NEW n \in DOMAIN Tensors
          PROVE  BytesBehind(w.address[n]) >= AccessedBytes(Engine[n], w.dims[n])
      <4>1. CASE w \in ToSet(queue[s])
        BY <3>3, <4>1 DEF BInv, Covered, BoundCovers
      <4> QED BY <2>7, <3>2, <4>1
    <3> QED BY <3>1, <3>3 DEF BoundCovers, Tensors
  <2> QED BY <2>5, <2>6, <2>12, <2>13, <2>14 DEF BInv
<1>6. CASE Fail /\ UNCHANGED queue
  BY <1>2, <1>3, <1>6, FailBinds
<1> QED BY <1>4, <1>5, <1>6

(* From the first output on, addresses stay those of the bindings.          *)
LEMMA AddressedOn ==
    ASSUME IInv, BInv, Busy, call.step \in Fixed, NEW next \in Fixed \cup {"return"}, NEW ok,
           Moved(next, ok), UNCHANGED address
    PROVE  CallAddressed'
<1>1. /\ call'.step = next /\ call'.context = call.context
      /\ call'.inputs = call.inputs /\ call'.outputs = call.outputs
      /\ call'.bound = call.bound /\ call'.targets = call.targets
  BY DEF Moved, SameCall
<1>2. \A n \in DOMAIN Tensors : AddressOf(n, address[Held][n])
  BY DEF BInv, CallAddressed
<1>3. Held' = Held
  BY <1>1 DEF Held
<1>4. \A n \in DOMAIN Tensors : AddressOf(n, address[Held][n])'
  BY <1>1, <1>2, <1>3, ConditionsStay DEF AddressOf, NullAddress
<1>5. call'.step \notin {"infer_shapes", "shapes", "inputs"}
  BY <1>1 DEF Fixed
<1> QED BY <1>4, <1>5 DEF CallAddressed, Tensors

(* A copy is queued from the buffer of its output.                          *)
LEMMA CopyQueued ==
    ASSUME IInv, BInv, Busy, call.step = "copy_out", NEW i, i = call.copied + 1,
           call.copied < Len(call.outputs), call' = [call EXCEPT !.copied = @ + 1],
           Enqueues(call.stream, [op |-> "copy_out", id |-> call.id,
                                  name |-> call.outputs[i].name,
                                  buffer |-> call.targets[i].buffer]),
           UNCHANGED <<address, shapes, size>>
    PROVE  BInv'
<1>1. /\ call'.step = call.step /\ call'.id = call.id /\ call'.kind = call.kind
      /\ call'.stream = call.stream /\ call'.inputs = call.inputs
      /\ call'.outputs = call.outputs /\ call'.context = call.context
      /\ call'.temps = call.temps /\ call'.bound = call.bound /\ call'.targets = call.targets
      /\ call'.copied = i /\ call'.ok = call.ok
  BY DEF IInv, CallTyped, CallFields
<1>2. PICK work : work = [op |-> "copy_out", id |-> call.id, name |-> call.outputs[i].name,
                          buffer |-> call.targets[i].buffer]
  OBVIOUS
<1>3. \A s \in Streams : \A w \in ToSet(queue'[s]) : w \in ToSet(queue[s]) \/ w = work
  BY <1>2, QueuedOne
<1>4. SizesKept
  BY DEF SizesKept
<1>5. i \in Nat /\ call.copied \in Nat /\ call.copied <= i /\ i \in DOMAIN call.targets
  <2>1. call.copied \in Nat /\ Len(call.targets) = Len(call.outputs) /\ IsSeq(call.targets)
    BY DEF IInv, CallTyped
  <2>2. Len(call.targets) \in Nat /\ DOMAIN call.targets = 1 .. Len(call.targets)
    BY <2>1 DEF IsSeq
  <2>3. i \in Nat /\ call.copied <= i
    BY <2>1
  <2>4. i >= 1 /\ i <= Len(call.targets)
    BY <2>1, <2>2
  <2> QED BY <2>1, <2>2, <2>3, <2>4
<1>6. CallAsked'
  BY <1>1, AskedKept DEF BInv
<1>7. CallBound'
  <2>1. \A a, b, copies : PlacedAt(a, b, copies) => PlacedAt(a, b, copies)'
    BY <1>1, <1>4 DEF PlacedAt, Temporary, CallerMemory, SizesKept
  <2>2. \A b, mode : Sized(b, mode)' = Sized(b, mode)
    BY DEF Sized, Tensors
  <2> QED BY <1>1, <2>1, <2>2 DEF BInv, CallBound, Busy, CopiesOut
<1>8. Apart'
  BY <1>1 DEF BInv, Apart, Busy
<1>9. CallShapes' /\ CallAddressed'
  <2>1. Held' = Held
    BY <1>1 DEF Held
  <2>2. ContextDims(Held)' = ContextDims(Held)
    BY <2>1 DEF ContextDims, Over
  <2>3. CallShapes'
    BY <1>1, <2>1, <2>2, ConditionsStay DEF BInv, CallShapes, Busy, Named, Tensors
  <2>4. \A n, a : AddressOf(n, a)' = AddressOf(n, a)
    BY <1>1, ConditionsStay DEF AddressOf, NullAddress
  <2>5. \A n \in DOMAIN Tensors : AddressOf(n, address[Held][n])
    BY DEF BInv, CallAddressed, Fixed
  <2>6. \A n \in DOMAIN Tensors : AddressOf(n, address[Held][n])'
    BY <1>1, <2>1, <2>5, ConditionsStay DEF AddressOf, NullAddress
  <2>7. CallAddressed'
    BY <1>1, <2>6 DEF CallAddressed, Tensors
  <2> QED BY <2>3, <2>7
<1>10. CallWork'
  <2>1. ASSUME NEW w, WorkOf(w) PROVE WorkOf(w)'
    <3>1. \A n, a : AddressOf(n, a)' = AddressOf(n, a)
      BY <1>1, ConditionsStay DEF AddressOf, NullAddress
    <3>2. CASE w.op = "copy_in"
      BY <1>1, <2>1, <3>2 DEF WorkOf, Temporary
    <3>3. CASE w.op = "infer"
      BY <1>1, <2>1, <3>1, <3>3 DEF WorkOf, Tensors, NullAddress
    <3>4. CASE w.op = "copy_out"
      <4>1. PICK j \in DOMAIN call.targets : /\ j <= call.copied
                                             /\ call.outputs[j].name = w.name
                                             /\ call.targets[j] = Temporary(w.buffer)
        BY <2>1, <3>4 DEF WorkOf
      <4>2. j <= call'.copied
        <5>1. j \in Int
          BY DEF IInv, CallTyped, IsSeq
        <5> QED BY <1>1, <1>5, <4>1, <5>1
      <4> QED BY <1>1, <2>1, <3>4, <4>1, <4>2 DEF WorkOf, Temporary
    <3> QED BY <2>1, <3>2, <3>3, <3>4 DEF WorkOf
  <2>2. WorkOf(work)'
    <3>1. CopiesOut(call.kind)
      BY DEF IInv, CallTyped
    <3>2. PICK m : call.targets[i] = Temporary(m)
      BY <1>5, <3>1 DEF BInv, CallBound, PlacedAt
    <3>3. call.targets[i] = Temporary(work.buffer)
      BY <1>2, <3>2 DEF Temporary
    <3>4. call'.step \notin Starting
      BY <1>1 DEF Starting, Early
    <3>5. /\ i \in DOMAIN call'.targets /\ i <= call'.copied
          /\ call'.outputs[i].name = work.name /\ call'.targets[i] = Temporary(work.buffer)
      <4>1. i \in DOMAIN call'.targets /\ i <= call'.copied
        BY <1>1, <1>5
      <4>2. call'.outputs[i].name = work.name
        BY <1>1, <1>2
      <4>3. call'.targets[i] = Temporary(work.buffer)
        BY <1>1, <3>3
      <4> QED BY <4>1, <4>2, <4>3
    <3>6. work.op = "copy_out"
      BY <1>2
    <3> QED BY <3>4, <3>5, <3>6 DEF WorkOf, Temporary
  <2>3. ASSUME NEW s \in Streams, NEW w \in ToSet(queue'[s]), w.id = call.id
        PROVE  WorkOf(w)'
    <3>1. CASE w \in ToSet(queue[s])
      BY <2>1, <2>3, <3>1 DEF BInv, CallWork
    <3> QED BY <1>3, <2>2, <3>1
  <2> QED BY <1>1, <2>3 DEF CallWork
<1>11. Covered'
  <2>1. work.op # "infer"
    BY <1>2
  <2> QED BY <1>3, <1>4, <2>1, CoveredKept DEF BInv
<1>12. ShapesRemembered'
  BY ShapesStay DEF BInv
<1> QED BY <1>6, <1>7, <1>8, <1>9, <1>10, <1>11, <1>12 DEF BInv

(* A copy of an output is queued, or fails.                                 *)
LEMMA CopyOutBinds == ASSUME IInv, BInv, CopyOut PROVE BInv'
<1>1. Busy /\ call.step = "copy_out"
  BY BusyAt DEF CopyOut, At
<1>2. UNCHANGED <<address, shapes, size>> /\ SizesKept
  BY DEF CopyOut, bound, SizesKept
<1>3. PICK i : i = call.copied + 1
  OBVIOUS
<1>4. \/ /\ call.copied < Len(call.outputs)
         /\ Enqueues(call.stream, [op |-> "copy_out", id |-> call.id,
                                   name |-> call.outputs[i].name,
                                   buffer |-> call.targets[i].buffer])
         /\ call' = [call EXCEPT !.copied = @ + 1]
      \/ Fail /\ UNCHANGED queue
      \/ Goto("synchronize") /\ UNCHANGED queue
  BY <1>3 DEF CopyOut
<1>5. CASE Goto("synchronize") /\ UNCHANGED queue
  <2>1. Moved("synchronize", call.ok)
    BY <1>1, <1>5, Went DEF IInv
  <2>2. Len(call.bound) = Len(call.inputs)
    BY <1>1 DEF BInv, CallBound, Fixed
  <2>3. GoesOn("synchronize")
    BY <1>1, <2>2 DEF GoesOn, Fixed, Staging, Starting, Early
  <2>4. CallAddressed'
    BY <1>1, <1>2, <2>1, AddressedOn DEF Fixed
  <2>5. \A s \in Streams : ToSet(queue'[s]) \subseteq ToSet(queue[s])
    BY <1>5
  <2> QED BY <1>1, <1>2, <2>1, <2>3, <2>4, <2>5, MovedKeeps
<1>6. CASE Fail /\ UNCHANGED queue
  BY <1>1, <1>2, <1>6, FailBinds
<1> QED BY <1>1, <1>2, <1>3, <1>4, <1>5, <1>6, CopyQueued

(* Waiting for the stream changes no binding.                               *)
LEMMA SynchronizeBinds == ASSUME IInv, BInv, Synchronize PROVE BInv'
<1>1. Busy /\ call.step = "synchronize"
  BY BusyAt DEF Synchronize, At
<1>2. UNCHANGED <<address, shapes, size>> /\ SizesKept
  BY DEF Synchronize, bound, SizesKept
<1>3. CASE Goto("return") /\ UNCHANGED queue
  <2>1. Moved("return", call.ok)
    BY <1>1, <1>3, Went DEF IInv
  <2>2. GoesOn("return")
    BY DEF GoesOn
  <2>3. CallAddressed'
    BY <1>1, <1>2, <2>1, AddressedOn DEF Fixed
  <2>4. \A s \in Streams : ToSet(queue'[s]) \subseteq ToSet(queue[s])
    BY <1>3
  <2> QED BY <1>1, <1>2, <2>1, <2>2, <2>3, <2>4, MovedKeeps
<1>4. CASE Abandoned /\ Fail
  <2>1. \A s \in Streams : ToSet(queue'[s]) \subseteq ToSet(queue[s])
    BY <1>4, NothingIn DEF Abandoned
  <2> QED BY <1>1, <1>2, <1>4, <2>1, FailBinds
<1> QED BY <1>3, <1>4 DEF Synchronize

-----------------------------------------------------------------------------
(* The end of calls, the Session and the device.                            *)

(* Between calls only the shapes and the queued work matter.                *)
LEMMA IdleBinds ==
    ASSUME ~Busy', ShapesRemembered', Covered'
    PROVE  BInv'
BY DEF BInv, CallAsked, CallBound, Apart, CallShapes, CallAddressed, CallWork

(* The call returns.                                                        *)
LEMMA ReturnBinds == ASSUME IInv, BInv, Return PROVE BInv'
<1>1. ~Busy' /\ UNCHANGED <<shapes, queue>>
  BY DEF Return, Busy, bound
<1>2. ShapesRemembered'
  BY <1>1, ShapesStay DEF BInv
<1>3. CASE call.temps = {}
  BY <1>1, <1>2, <1>3, CoveredKept, IdleBinds DEF BInv, SizesKept
<1>4. CASE call.temps # {}
  <2>1. \A s \in Streams : ToSet(queue[s]) = {}
    BY <1>4, NothingIn DEF Return, Freed
  <2>2. Covered'
    BY <1>1, <2>1 DEF Covered, BoundCovers
  <2> QED BY <1>1, <1>2, <2>2, IdleBinds
<1> QED BY <1>3, <1>4

(* Steps outside calls.                                                     *)
LEMMA OthersBind ==
    ASSUME IInv, BInv, EndGuard \/ DropSession \/ OpenSession \/ UNCHANGED vars
    PROVE  BInv'
<1>1. UNCHANGED <<call, address, shapes, size>> /\ SizesKept
  BY DEF EndGuard, DropSession, OpenSession, vars, bound, device, SizesKept
<1>2. (UNCHANGED queue) \/ Abandoned
  BY DEF EndGuard, DropSession, OpenSession, vars, device
<1>3. \A s \in Streams : ToSet(queue'[s]) \subseteq ToSet(queue[s])
  BY <1>2, NothingIn DEF Abandoned
<1> QED BY <1>1, <1>3, CallSameBinds

(* The device does a work, which leaves less of it.                         *)
LEMMA WorkBinds == ASSUME IInv, BInv, NEW s \in Streams, Work(s) PROVE BInv'
<1>1. UNCHANGED <<call, address, shapes, size>> /\ SizesKept
  BY DEF Work, bound, SizesKept
<1>2. queue' = [queue EXCEPT ![s] = Tail(@)] /\ queue[s] # <<>>
  BY DEF Work
<1>3. ASSUME NEW t \in Streams PROVE ToSet(queue'[t]) \subseteq ToSet(queue[t])
  <2>1. DOMAIN queue = Streams /\ IsSeq(queue[s])
    BY DEF IInv, WorkPlaced
  <2>2. ToSet(Tail(queue[s])) \subseteq ToSet(queue[s])
    BY <1>2, <2>1, Tailed
  <2> QED BY <1>2, <2>1, <2>2
<1> QED BY <1>1, <1>3, CallSameBinds

(* Initially nothing is bound.                                              *)
LEMMA InitBinds == ASSUME Init PROVE BInv
<1>1. ~Busy /\ queue = [s \in Streams |-> <<>>] /\ shapes = [c \in Contexts |-> NoShapes]
  BY DEF Init, Busy
<1>2. Covered
  BY <1>1, NothingIn DEF Covered, BoundCovers
<1>3. ShapesRemembered
  <2> DEFINE dims == [n \in Named("input") |-> Tensors[n].dims]
  <2>1. NoShapes.dims = dims /\ NoShapes.cached = <<>>
    BY DEF NoShapes
  <2>2. \A n \in Named("input") : dims[n] \in DimsOf(n)
    BY DEF DimsOf
  <2>3. dims \in [Named("input") -> UNION {DimsOf(n) : n \in Named("input")}]
    BY <2>2
  <2> HIDE DEF dims
  <2>4. ToSet(<<>>) = {} /\ Agrees(dims, <<>>)
    BY NothingIn DEF Agrees
  <2>5. DOMAIN NoShapes = {"dims", "cached"}
    BY DEF NoShapes
  <2> QED BY <1>1, <2>1, <2>2, <2>3, <2>4, <2>5 DEF ShapesRemembered
<1> QED BY <1>1, <1>2, <1>3
        DEF BInv, CallAsked, CallBound, Apart, CallShapes, CallAddressed, CallWork

(***************************************************************************)
(* The bindings of a call stay those it was asked for, with the shapes of  *)
(* its context, and no buffer is used for two of them.                     *)
(***************************************************************************)
THEOREM BindingsInvariant == Spec => [](IInv /\ BInv)
<1>1. Init => BInv
  BY InitBinds
<1>2. IInv /\ BInv /\ [Next]_vars => BInv'
  <2> SUFFICES ASSUME IInv, BInv, [Next]_vars PROVE BInv'
    OBVIOUS
  <2>1. CASE Begin
    BY <2>1, BeginBinds
  <2>2. CASE GetContext \/ InferContext
    BY <2>2, ContextStepsBind
  <2>3. CASE InferShapes
    BY <2>3, InferShapesBinds
  <2>4. CASE SetShapes
    BY <2>4, SetShapesBinds
  <2>5. CASE StageInput
    BY <2>5, StageInputBinds
  <2>6. CASE BindInputs
    BY <2>6, BindInputsBinds
  <2>7. CASE PrepareOutput
    BY <2>7, PrepareOutputBinds
  <2>8. CASE BindOutputs
    BY <2>8, BindOutputsBinds
  <2>9. CASE Enqueue
    BY <2>9, EnqueueBinds
  <2>10. CASE CopyOut
    BY <2>10, CopyOutBinds
  <2>11. CASE Synchronize
    BY <2>11, SynchronizeBinds
  <2>12. CASE Return
    BY <2>12, ReturnBinds
  <2>13. CASE EndGuard \/ DropSession \/ OpenSession \/ UNCHANGED vars
    BY <2>13, OthersBind
  <2>14. CASE \E s \in Streams : Work(s)
    BY <2>14, WorkBinds
  <2> QED BY <2>1, <2>2, <2>3, <2>4, <2>5, <2>6, <2>7, <2>8, <2>9, <2>10, <2>11, <2>12,
             <2>13, <2>14 DEF Next
<1> QED BY <1>1, <1>2, StagedInvariant, PTL DEF Spec

(***************************************************************************)
(* Where only the first input of a call can be refused, the memory behind  *)
(* each address of an inference has the bytes that the engine accesses for *)
(* the shapes of its context: for any engine, any other requests (also     *)
(* some that name a tensor twice) and usize::MAX, whatever a context was   *)
(* used for before.                                                        *)
(***************************************************************************)
THEOREM AddressesCover ==
    ASSUME RefusedFirst
    PROVE  Spec => []BoundCovers
<1>1. BInv => BoundCovers
  BY DEF BInv, Covered
<1> QED BY <1>1, BindingsInvariant, PTL

-----------------------------------------------------------------------------
(* What steps leave of results and of what is known of others.              *)

(* What is known of the result of id stays.                                 *)
SameHolds(id) ==
    /\ results'[id].status = results[id].status
    /\ DOMAIN results'[id].holds = DOMAIN results[id].holds
    /\ \A n \in DOMAIN results[id].holds : results'[id].holds[n] = results[id].holds[n]

(* So that it stays computed.                                               *)
LEMMA HoldsSame ==
    ASSUME NEW id, SameHolds(id), HoldsOutputs(id)
    PROVE  HoldsOutputs(id)'
BY DEF SameHolds, HoldsOutputs, OutputOf

(* The work of a guard is an inference, on its stream.                      *)
LEMMA GuardsWork ==
    ASSUME IInv, NEW s \in Streams, NEW work \in ToSet(queue[s]),
           NEW g \in guards, work.id = g.id
    PROVE  /\ s = g.stream /\ Uses(work, {g.context}, {}) /\ work.op = "infer"
           /\ \A n \in DOMAIN Tensors : /\ work.address[n].of = "caller"
                                        /\ work.address[n].id = g.id
<1>1. OfCall(s, work) \/ OfGuard(s, work)
  BY DEF IInv, WorkPlaced
<1>2. ~OfCall(s, work)
  BY DEF OfCall, IInv, Placed
<1>3. PICK h \in guards : work.id = h.id /\ s = h.stream /\ Uses(work, {h.context}, {})
  BY <1>1, <1>2 DEF OfGuard
<1>4. h = g
  BY <1>3 DEF IInv, Placed
<1> QED BY <1>3, <1>4 DEF Uses

(* The work of a call is on its stream.                                     *)
LEMMA CallsWork ==
    ASSUME IInv, BInv, Busy, NEW s \in Streams, NEW work \in ToSet(queue[s]), work.id = call.id
    PROVE  s = call.stream /\ WorkOf(work) /\ Uses(work, call.context, call.temps)
<1>1. OfCall(s, work) \/ OfGuard(s, work)
  BY DEF IInv, WorkPlaced
<1>2. ~OfGuard(s, work)
  BY DEF OfGuard, IInv, Placed
<1> QED BY <1>1, <1>2 DEF OfCall, BInv, CallWork

(* Work is of the call or of a guard.                                       *)
LEMMA WorkIsOf ==
    ASSUME IInv, NEW s \in Streams, NEW work \in ToSet(queue[s])
    PROVE  (Busy /\ work.id = call.id) \/ \E g \in guards : work.id = g.id
BY DEF IInv, WorkPlaced, OfCall, OfGuard

(* New work is of the call.                                                 *)
QueueGrows == \A s \in Streams : /\ ToSet(queue[s]) \subseteq ToSet(queue'[s])
                                 /\ \A work \in ToSet(queue'[s]) :
                                        work \in ToSet(queue[s]) \/ (Busy /\ work.id = call.id)

(* An error of the device's work took all of it.                            *)
QueueGone == broken' = TRUE /\ \A s \in Streams : ToSet(queue'[s]) = {}

(* What is known of a guard stays, while its results do.                    *)
LEMMA GuardKept ==
    ASSUME IInv, DInv, NEW g \in guards, results'[g.id] = results[g.id],
           (QueueGrows /\ broken' = broken) \/ QueueGone
    PROVE  Guarded(g)'
<1>1. Guarded(g) /\ g.stream \in Streams
  BY DEF DInv, ResultsTyped
<1>2. ~broken' => Infering(g.stream, g.id)' \/ HoldsOutputs(g.id)'
  <2>1. CASE QueueGone
    BY <2>1 DEF QueueGone
  <2>2. CASE QueueGrows /\ broken' = broken
    <3>1. Infering(g.stream, g.id) => Infering(g.stream, g.id)'
      BY <1>1, <2>2 DEF QueueGrows, Infering
    <3>2. HoldsOutputs(g.id) => HoldsOutputs(g.id)'
      BY <1>1 DEF HoldsOutputs, OutputOf
    <3> QED BY <1>1, <2>2, <3>1, <3>2 DEF Guarded
  <2> QED BY <2>1, <2>2
<1>3. DOMAIN results'[g.id].holds \subseteq Named("output")'
  BY <1>1 DEF Guarded, Named, Tensors
<1>4. ASSUME NEW work \in ToSet(queue'[g.stream]), work.id = g.id
      PROVE  /\ work.op = "infer"
             /\ \A n \in DOMAIN Tensors : work.address[n].of = "caller" /\ work.address[n].name = n
  <2>1. work \in ToSet(queue[g.stream])
    BY <1>1, <1>4 DEF QueueGone, QueueGrows, IInv, Placed
  <2> QED BY <1>1, <1>4, <2>1 DEF Guarded
<1> QED BY <1>2, <1>3, <1>4 DEF Guarded, Tensors

(* Results stay, but for those of a call that has not returned.             *)
OthersStay == \A id \in Ids : \/ results'[id] = results[id]
                              \/ results'[id].status # "ok" /\ \A g \in guards : g.id # id

(* Results of guards and of calls that returned are kept.                   *)
LEMMA OthersKept ==
    ASSUME IInv, DInv, OthersStay, UNCHANGED guards,
           (QueueGrows /\ broken' = broken) \/ QueueGone
    PROVE  (\A g \in guards : Guarded(g))' /\ ReturnsComputed'
<1>1. ASSUME NEW g \in guards PROVE Guarded(g)'
  <2>1. results'[g.id] = results[g.id]
    BY DEF DInv, ResultsTyped, OthersStay
  <2> QED BY <2>1, GuardKept
<1>2. ReturnsComputed'
  BY DEF DInv, ReturnsComputed, OutputOf, OthersStay
<1> QED BY <1>1, <1>2

(* The memory of the call's buffers stays.                                  *)
Remembers == \A m \in call.temps : m \in DOMAIN memory' /\ memory'[m] = memory[m]

(* What an address of the call reads is kept.                               *)
LEMMA ReadKept ==
    ASSUME IInv, DInv, Busy, Remembers, NEW a, a.of = "buffer" => a.buffer \in call.temps
    PROVE  Read(a)' = Read(a)
<1>1. call.temps \subseteq DOMAIN memory
  BY DEF IInv, CallTyped, DInv, ResultsTyped
<1> QED BY <1>1 DEF Read, Remembers, InputOf, Junk

(* Buffers that are bound are the call's.                                   *)
LEMMA BoundBuffers ==
    ASSUME IInv, Busy
    PROVE  /\ \A i \in DOMAIN call.bound :
                  call.bound[i].of = "buffer" => call.bound[i].buffer \in call.temps
           /\ \A i \in DOMAIN call.targets :
                  call.targets[i].of = "buffer" => call.targets[i].buffer \in call.temps
BY DEF IInv, Addressed, OwnAll, Own, NullAddress

(* The same call, but for its step and its context.                         *)
SameBindings ==
    /\ Busy' /\ call'.id = call.id /\ call'.kind = call.kind /\ call'.stream = call.stream
    /\ call'.inputs = call.inputs /\ call'.outputs = call.outputs
    /\ call'.bound = call.bound /\ call'.targets = call.targets

(* An input stays copied, or to be copied.                                  *)
LEMMA LoadedAt ==
    ASSUME IInv, BInv, DInv, Busy, Remembers, QueueGrows, ~broken, NEW i \in DOMAIN call.bound,
           call.bound[i].of = "buffer", call'.bound[i] = call.bound[i],
           call'.id = call.id, call'.stream = call.stream, call'.inputs = call.inputs
    PROVE  CopyingIn(i)' \/ Read(call.bound[i])' = InputOf(call.id, call.inputs[i].name)
<1>1. CopyingIn(i) \/ Read(call.bound[i]) = InputOf(call.id, call.inputs[i].name)
  BY DEF DInv, Loaded
<1>2. CopyingIn(i) => CopyingIn(i)'
  <2>1. call.stream \in Streams
    BY DEF BInv, CallAsked
  <2> QED BY <2>1 DEF CopyingIn, QueueGrows, Temporary
<1>3. PICK a : a = call.bound[i]
  OBVIOUS
<1>4. Read(a)' = Read(a)
  BY <1>3, ReadKept, BoundBuffers
<1>5. Read(call.bound[i])' = Read(call.bound[i])
  BY <1>3, <1>4
<1> QED BY <1>1, <1>2, <1>5

(* All inputs do.                                                           *)
LEMMA LoadedKept ==
    ASSUME IInv, BInv, DInv, Busy, SameBindings, Remembers,
           (QueueGrows /\ broken' = broken) \/ broken' = TRUE
    PROVE  Loaded'
<1> SUFFICES ASSUME ~broken', NEW i \in DOMAIN call.bound, call.bound[i].of = "buffer"
             PROVE  CopyingIn(i)' \/ Read(call.bound[i])' = InputOf(call.id, call.inputs[i].name)
  BY DEF Loaded, SameBindings, InputOf
<1>1. QueueGrows /\ broken' = broken
  OBVIOUS
<1>2. ~broken
  BY <1>1
<1> QED BY <1>1, <1>2, LoadedAt DEF SameBindings

(* What is left to compute for the call stays.                              *)
LEMMA ComputingKept ==
    ASSUME IInv, BInv, DInv, Busy, SameBindings, Remembers, UNCHANGED results,
           (QueueGrows /\ broken' = broken) \/ broken' = TRUE, Launched' => Launched
    PROVE  Computing'
<1>1. call.stream \in Streams
  BY DEF BInv, CallAsked
<1> SUFFICES ASSUME Launched'
             PROVE  /\ Len(call.targets) = Len(call.outputs)
                    /\ ~broken' =>
                          \/ Infering(call.stream, call.id)'
                          \/ IF CopiesOut(call.kind)
                             THEN \A i \in DOMAIN call.targets :
                                      Read(call.targets[i])' = OutputOf(call.id, call.outputs[i].name)
                             ELSE HoldsOutputs(call.id)'
  BY DEF Computing, SameBindings, Infering, Read, OutputOf, HoldsOutputs
<1>2. Computing /\ Launched
  BY DEF DInv
<1> SUFFICES ASSUME ~broken', ~Infering(call.stream, call.id)'
             PROVE  IF CopiesOut(call.kind)
                    THEN \A i \in DOMAIN call.targets :
                             Read(call.targets[i])' = OutputOf(call.id, call.outputs[i].name)
                    ELSE HoldsOutputs(call.id)'
  BY <1>2 DEF Computing
<1>3. QueueGrows /\ broken' = broken
  OBVIOUS
<1>4. ~broken
  BY <1>3
<1>5. Infering(call.stream, call.id) => Infering(call.stream, call.id)'
  <2>1. ASSUME NEW work \in ToSet(queue[call.stream]), work.op = "infer", work.id = call.id
        PROVE  Infering(call.stream, call.id)'
    <3>1. work \in ToSet(queue'[call.stream]) /\ work.id = call'.id /\ call'.stream = call.stream
      BY <1>1, <1>3, <2>1 DEF QueueGrows, SameBindings
    <3> QED BY <2>1, <3>1 DEF Infering
  <2> QED BY <2>1 DEF Infering
<1>6. ~broken /\ ~Infering(call.stream, call.id)
  BY <1>4, <1>5
<1>7. CASE CopiesOut(call.kind)
  <2>1. ASSUME NEW i \in DOMAIN call.targets
        PROVE  Read(call.targets[i])' = OutputOf(call.id, call.outputs[i].name)
    <3>1. Read(call.targets[i]) = OutputOf(call.id, call.outputs[i].name)
      BY <1>2, <1>6, <1>7 DEF Computing
    <3>2. PICK a : a = call.targets[i]
      OBVIOUS
    <3>3. Read(a)' = Read(a)
      BY <3>2, ReadKept, BoundBuffers
    <3> QED BY <3>1, <3>2, <3>3 DEF SameBindings
  <2> QED BY <1>7, <2>1
<1>8. CASE ~CopiesOut(call.kind)
  <2>1. HoldsOutputs(call.id)
    BY <1>2, <1>6, <1>8 DEF Computing
  <2> QED BY <1>8, <2>1 DEF HoldsOutputs, OutputOf, SameBindings
<1> QED BY <1>7, <1>8

(* The call's outputs and the copies of them stay what they are.            *)
LEMMA CallDataKept ==
    ASSUME IInv, BInv, DInv, Busy, SameBindings, Remembers, UNCHANGED results,
           call'.copied = call.copied,
           (QueueGrows /\ broken' = broken) \/ broken' = TRUE,
           Launched' => Launched, call'.step \in Starting => call.step \in Starting,
           call'.step = "copy_out" => call.step = "copy_out",
           call'.step = "synchronize" =>
               \/ call.step = "synchronize"
               \/ call.step = "copy_out" /\ call.copied = Len(call.outputs)
               \/ ~CopiesOut(call.kind)
    PROVE  Computing' /\ CopiedBack'
<1>1. call.stream \in Streams
  BY DEF BInv, CallAsked
<1>2. Computing'
  BY ComputingKept
<1>3. CopiedBack'
  <2>1. CopiedBack /\ Busy
    BY DEF DInv
  <2>2. call'.step \in Starting => call'.copied = 0
    BY <2>1 DEF CopiedBack
  <2>3. call'.step = "copy_out" => call'.copied <= Len(call'.outputs)
    BY <2>1 DEF CopiedBack, SameBindings
  <2>4. call'.step = "synchronize" /\ CopiesOut(call'.kind) => call'.copied = Len(call'.outputs)
    BY <2>1 DEF CopiedBack, SameBindings
  <2>5. ASSUME call'.step \in {"copy_out", "synchronize"}, CopiesOut(call.kind), ~broken',
               NEW i \in 1 .. call.copied
        PROVE  \/ CopyingOut(i)'
               \/ results[call.id].holds[call.outputs[i].name] = OutputOf(call.id, call.outputs[i].name)
    <3>1. \/ CopyingOut(i)
          \/ results[call.id].holds[call.outputs[i].name] = OutputOf(call.id, call.outputs[i].name)
      BY <2>1, <2>5 DEF CopiedBack
    <3>2. CopyingOut(i) => CopyingOut(i)'
      BY <1>1, <2>5 DEF CopyingOut, QueueGrows, SameBindings
    <3> QED BY <3>1, <3>2
  <2>6. ASSUME call'.step \in {"copy_out", "synchronize"}, CopiesOut(call'.kind), ~broken',
               NEW i \in 1 .. call'.copied
        PROVE  \/ CopyingOut(i)'
               \/ results'[call'.id].holds[call'.outputs[i].name] = OutputOf(call'.id, call'.outputs[i].name)
    BY <2>5, <2>6 DEF SameBindings
  <2> QED BY <2>2, <2>3, <2>4, <2>6 DEF CopiedBack, OutputOf
<1> QED BY <1>2, <1>3

(* A step of the call that leaves results and what is bound.                *)
LEMMA CallStepKept ==
    ASSUME IInv, BInv, DInv, Busy, SameBindings, Remembers, UNCHANGED <<results, guards>>,
           call'.copied = call.copied,
           (QueueGrows /\ broken' = broken) \/ QueueGone,
           Launched' => Launched, call'.step \in Starting => call.step \in Starting,
           call'.step = "copy_out" => call.step = "copy_out",
           call'.step = "synchronize" =>
               \/ call.step = "synchronize"
               \/ call.step = "copy_out" /\ call.copied = Len(call.outputs)
               \/ ~CopiesOut(call.kind),
           call'.step = "return" => call'.ok = FALSE,
           DOMAIN memory' = DOMAIN size', Ordered'
    PROVE  DInv'
<1>1. (QueueGrows /\ broken' = broken) \/ broken' = TRUE
  BY DEF QueueGone
<1>2. Computing' /\ CopiedBack'
  BY <1>1, CallDataKept
<1>3. Loaded'
  BY <1>1, LoadedKept
<1>4. (\A g \in guards : Guarded(g))' /\ ReturnsComputed'
  BY OthersKept DEF OthersStay
<1>5. Concluded'
  BY DEF Concluded
<1>6. ResultsTyped'
  BY DEF DInv, ResultsTyped, SameBindings, Busy
<1> QED BY <1>2, <1>3, <1>4, <1>5, <1>6 DEF DInv

(* A queue that does not change.                                            *)
LEMMA QueueSame ==
    ASSUME UNCHANGED queue
    PROVE  QueueGrows /\ (Ordered => Ordered')
BY DEF QueueGrows, Ordered

(* A queue that is abandoned.                                               *)
LEMMA QueueEmpty ==
    ASSUME Abandoned
    PROVE  QueueGone /\ Ordered'
<1>1. \A s \in Streams : queue'[s] = <<>>
  BY DEF Abandoned
<1>2. \A s \in Streams : ToSet(queue'[s]) = {} /\ DOMAIN queue'[s] = {}
  BY <1>1, NothingIn
<1> QED BY <1>2 DEF QueueGone, Ordered, Abandoned

(* A step from which only the step, the context and the result differ.      *)
LEMMA MoveData ==
    ASSUME IInv, BInv, DInv, Busy, SameBindings, call'.copied = call.copied,
           UNCHANGED <<size, memory, queue, broken, results, guards>>,
           \/ call'.step = "return" /\ call'.ok = FALSE
           \/ call'.step \in Starting /\ call.step \in Starting
           \/ call'.step = "synchronize" /\ call.step = "copy_out" /\ call.copied = Len(call.outputs)
    PROVE  DInv'
<1>1. QueueGrows /\ Ordered'
  BY QueueSame DEF DInv
<1>2. Remembers
  BY DEF Remembers, IInv, CallTyped, DInv, ResultsTyped
<1>3. /\ Launched' => Launched
      /\ call'.step \in Starting => call.step \in Starting
      /\ call'.step = "copy_out" => call.step = "copy_out"
      /\ call'.step = "synchronize" =>
               \/ call.step = "synchronize"
               \/ call.step = "copy_out" /\ call.copied = Len(call.outputs)
               \/ ~CopiesOut(call.kind)
      /\ call'.step = "return" => call'.ok = FALSE
  BY DEF Launched, Starting, Early
<1>4. DOMAIN memory' = DOMAIN size'
  BY DEF DInv, ResultsTyped
<1> QED BY <1>1, <1>2, <1>3, <1>4, CallStepKept

(* What a step that only moves the call on keeps.                           *)
LEMMA MovedSame ==
    ASSUME NEW next, NEW ok, Moved(next, ok)
    PROVE  /\ SameBindings /\ call'.copied = call.copied
           /\ call'.step = next /\ call'.ok = ok /\ call'.temps = call.temps
BY DEF Moved, SameCall, SameBindings

(* An early return with an error.                                           *)
LEMMA FailData ==
    ASSUME IInv, BInv, DInv, Busy, Fail,
           UNCHANGED <<size, memory, queue, broken, results, guards>>
    PROVE  DInv'
<1>1. Moved("return", FALSE)
  BY FailMoves DEF IInv
<1> QED BY <1>1, MovedSame, MoveData

(* A step on, before the inference is enqueued.                             *)
LEMMA GotoData ==
    ASSUME IInv, BInv, DInv, Busy, NEW next \in Starting, Goto(next), call.step \in Starting,
           UNCHANGED <<size, memory, queue, broken, results, guards>>
    PROVE  DInv'
<1>1. Moved(next, call.ok)
  BY Went DEF IInv, Starting, Early
<1> QED BY <1>1, MovedSame, MoveData

(* Shapes are no data.                                                      *)
LEMMA SetShapesData == ASSUME IInv, BInv, DInv, SetShapes PROVE DInv'
<1>1. Busy /\ call.step = "shapes" /\ "inputs" \in Starting /\ "shapes" \in Starting
  BY BusyAt DEF SetShapes, At, Starting, Early
<1>2. UNCHANGED <<size, memory, queue, broken, results, guards>>
  BY DEF SetShapes, device
<1>3. Goto("inputs") \/ Fail
  BY DEF SetShapes
<1> QED BY <1>1, <1>2, <1>3, FailData, GotoData

(* Nor are addresses of the context.                                        *)
LEMMA BindData ==
    ASSUME IInv, BInv, DInv, BindInputs \/ BindOutputs
    PROVE  DInv'
<1>1. Busy /\ call.step \in {"inputs", "outputs"} /\ {"inputs", "outputs", "enqueue"} \subseteq Starting
  BY BusyAt DEF BindInputs, BindOutputs, At, Starting, Early
<1>2. UNCHANGED <<size, memory, queue, broken, results, guards>>
  BY DEF BindInputs, BindOutputs, device
<1>3. Goto("outputs") \/ Goto("enqueue") \/ Fail
  BY DEF BindInputs, BindOutputs, BindAll
<1> QED BY <1>1, <1>2, <1>3, FailData, GotoData

(* Nor is the context.                                                      *)
LEMMA AcquireData == ASSUME IInv, BInv, DInv, GetContext \/ InferContext PROVE DInv'
<1>1. PICK next \in {"shapes", "infer_shapes"} : Acquire(next)
  BY DEF GetContext, InferContext
<1>2. Busy /\ call.step \in Starting /\ next \in Starting
  BY BusyAt DEF GetContext, InferContext, At, Starting, Early
<1>3. UNCHANGED <<size, memory, queue, broken, results, guards>>
  BY <1>1 DEF Acquire, device
<1>4. CASE Fail
  BY <1>2, <1>3, <1>4, FailData
<1>5. CASE \E c : call' = [call EXCEPT !.step = next, !.context = {c}]
  <2>1. PICK c : call' = [call EXCEPT !.step = next, !.context = {c}]
    BY <1>5
  <2>2. Took(next, c)
    BY <1>2, <2>1, TookIs DEF IInv
  <2>3. SameBindings /\ call'.copied = call.copied /\ call'.step = next
    BY <2>2 DEF Took, SameBindings
  <2> QED BY <1>2, <1>3, <2>3, MoveData
<1> QED BY <1>1, <1>4, <1>5 DEF Acquire, Reuse, ReuseFails, Create, CreateFails

-----------------------------------------------------------------------------
(* The data before the call has bound anything.                             *)

(* A call that has bound nothing yet.                                       *)
LEMMA EarlyData ==
    ASSUME IInv', BInv', Busy', DInv, IInv, ResultsTyped', OthersStay,
           UNCHANGED <<guards, queue, broken>>,
           call'.step \in Early \/ (call'.step = "return" /\ call'.ok = FALSE),
           call'.copied = 0, Len(call'.bound) = 0
    PROVE  DInv'
<1>1. QueueGrows /\ Ordered'
  BY QueueSame DEF DInv
<1>2. (\A g \in guards : Guarded(g))' /\ ReturnsComputed'
  BY <1>1, OthersKept
<1>3. Loaded'
  <2>1. IsSeq(call'.bound)
    BY DEF IInv, CallTyped, IsSeq
  <2>2. DOMAIN call'.bound = {}
    BY <2>1, NothingBound
  <2> QED BY <2>2 DEF Loaded
<1>4. Computing'
  BY DEF Computing, Launched, Early
<1>5. CopiedBack'
  BY DEF CopiedBack, Starting, Early
<1>6. Concluded'
  BY DEF Concluded, Early
<1> QED BY <1>1, <1>2, <1>3, <1>4, <1>5, <1>6 DEF DInv

(* The call that begins has a result that holds junk.                       *)
LEMMA BeginData == ASSUME IInv, BInv, DInv, Begin PROVE DInv'
<1>1. ~Busy /\ IInv' /\ BInv'
  BY BeginKeeps, BeginBinds DEF Begin, Busy
<1>2. PICK id \in Ids, r \in Requests, s \in Streams :
         /\ \A g \in guards : g.id # id
         /\ call' = [step |-> IF r.kind = "allocating" THEN "infer" ELSE "context",
                     id |-> id, kind |-> r.kind, stream |-> s, inputs |-> r.inputs,
                     outputs |-> r.outputs, context |-> {}, temps |-> {},
                     bound |-> <<>>, targets |-> <<>>, copied |-> 0, ok |-> TRUE]
         /\ results' = [results EXCEPT ![id] =
                [status |-> "none", holds |-> [n \in {o.name : o \in ToSet(r.outputs)} |-> Junk]]]
  BY DEF Begin
<1>3. /\ Busy' /\ call'.id = id /\ call'.outputs = r.outputs
      /\ call'.bound = <<>> /\ call'.copied = 0
      /\ call'.step = IF r.kind = "allocating" THEN "infer" ELSE "context"
  BY <1>2 DEF Busy, NoCall
<1>4. UNCHANGED <<guards, size, memory, queue, broken>>
  BY DEF Begin, device
<1>5. DOMAIN results = Ids
  BY DEF DInv, ResultsTyped
<1>6. /\ results'[id] = [status |-> "none",
                         holds |-> [n \in {o.name : o \in ToSet(r.outputs)} |-> Junk]]
      /\ DOMAIN results' = Ids
      /\ \A i \in Ids : i # id => results'[i] = results[i]
  BY <1>2, <1>5
<1>7. /\ results'[id].status # "ok" /\ DOMAIN results'[id] = {"status", "holds"}
      /\ DOMAIN results'[id].holds = {o.name : o \in ToSet(r.outputs)}
  BY <1>6
<1>8. {o.name : o \in ToSet(r.outputs)} = {r.outputs[i].name : i \in DOMAIN r.outputs}
  BY DEF ToSet
<1>9. ResultsTyped'
  <2>1. DOMAIN memory' = DOMAIN size'
    BY <1>4 DEF DInv, ResultsTyped
  <2>2. \A i \in Ids : DOMAIN results'[i] = {"status", "holds"}
    BY <1>6, <1>7 DEF DInv, ResultsTyped
  <2>3. \A g \in guards : g.id \in Ids /\ g.stream \in Streams /\ results'[g.id].status # "ok"
    BY <1>2, <1>6 DEF DInv, ResultsTyped
  <2>4. /\ results'[call'.id].status # "ok"
        /\ DOMAIN results'[call'.id].holds = {call'.outputs[i].name : i \in DOMAIN call'.outputs}
    BY <1>3, <1>7, <1>8
  <2> QED BY <1>4, <1>6, <2>1, <2>2, <2>3, <2>4 DEF ResultsTyped
<1>10. OthersStay
  BY <1>2, <1>6, <1>7 DEF OthersStay
<1>11. Len(call'.bound) = 0 /\ call'.step \in Early
  BY <1>3 DEF Early
<1> QED BY <1>1, <1>3, <1>4, <1>9, <1>10, <1>11, EarlyData

(* So has that of run_allocating, for the outputs that it selects.          *)
LEMMA InferShapesData == ASSUME IInv, BInv, DInv, InferShapes PROVE DInv'
<1>1. Busy /\ call.step = "infer_shapes"
  BY BusyAt DEF InferShapes, At
<1>2. IInv' /\ BInv' /\ UNCHANGED <<guards, size, memory, queue, broken>>
  BY InferShapesKeeps, InferShapesBinds DEF InferShapes, device
<1>3. Len(call.bound) = 0 /\ call.copied = 0
  BY <1>1 DEF BInv, CallBound, DInv, CopiedBack, Early, Starting
<1>4. GaveBack
  BY InferShapesGives
<1>5. /\ Busy' /\ Len(call'.bound) = 0 /\ call'.copied = 0 /\ call'.id = call.id
      /\ call'.step \in Early \/ (call'.step = "return" /\ call'.ok = FALSE)
  BY <1>3, <1>4 DEF GaveBack, Early
<1>6. call.id \in Ids /\ \A g \in guards : g.id # call.id
  BY <1>1 DEF BInv, CallAsked, IInv, Placed
<1>7. ResultsTyped' /\ OthersStay
  <2>1. CASE OutputsInferred
    <3>6. \E outputs :
              /\ call' = [call EXCEPT !.step = "context", !.context = {}, !.outputs = outputs]
              /\ results' = [results EXCEPT ![call.id].holds =
                                 [n \in {outputs[i].name : i \in DOMAIN outputs} |-> Junk]]
              /\ IsSeq(outputs)
              /\ {outputs[i].name : i \in DOMAIN outputs} \subseteq Named("output")
      BY <1>1, <2>1, OutputsAre
    <3>1. PICK outputs :
              /\ call' = [call EXCEPT !.step = "context", !.context = {}, !.outputs = outputs]
              /\ results' = [results EXCEPT ![call.id].holds =
                                 [n \in {outputs[i].name : i \in DOMAIN outputs} |-> Junk]]
              /\ IsSeq(outputs)
              /\ {outputs[i].name : i \in DOMAIN outputs} \subseteq Named("output")
      BY <3>6
    <3>2. call'.outputs = outputs
      BY <1>1, <3>1 DEF IInv, CallTyped, CallFields
    <3>3. /\ DOMAIN results = Ids /\ DOMAIN results[call.id] = {"status", "holds"}
          /\ results[call.id].status # "ok"
      BY <1>1, <1>6 DEF DInv, ResultsTyped
    <3>4. /\ DOMAIN results' = Ids
          /\ \A i \in Ids : i # call.id => results'[i] = results[i]
          /\ results'[call.id] = [results[call.id] EXCEPT !.holds =
                                      [n \in {outputs[i].name : i \in DOMAIN outputs} |-> Junk]]
      BY <1>6, <3>1, <3>3
    <3>5. /\ DOMAIN results'[call.id] = {"status", "holds"}
          /\ results'[call.id].status = results[call.id].status
          /\ DOMAIN results'[call.id].holds = {outputs[i].name : i \in DOMAIN outputs}
      BY <3>3, <3>4
    <3>8. ResultsTyped'
      BY <1>2, <1>5, <1>6, <3>2, <3>3, <3>4, <3>5 DEF DInv, ResultsTyped
    <3>7. OthersStay
      BY <1>6, <3>3, <3>4, <3>5 DEF OthersStay
    <3> QED BY <3>7, <3>8
  <2>2. CASE UNCHANGED results /\ call' = [call EXCEPT !.step = "return", !.ok = FALSE, !.context = {}]
    <3>1. call'.outputs = call.outputs
      BY <1>1, <2>2 DEF IInv, CallTyped, CallFields
    <3>2. ResultsTyped'
      BY <1>1, <1>2, <1>5, <2>2, <3>1 DEF DInv, ResultsTyped
    <3> QED BY <2>2, <3>2 DEF OthersStay
  <2> QED BY <2>1, <2>2 DEF InferShapes
<1> QED BY <1>2, <1>5, <1>7, EarlyData

-----------------------------------------------------------------------------
(* Bindings are added.                                                      *)

(* The call queues work that comes after what it queued before.             *)
LEMMA OrderedMore ==
    ASSUME IInv, BInv, Busy, Ordered, NEW work, Enqueues(call.stream, work), work.id = call.id,
           \A w \in ToSet(queue[call.stream]) : w.id = call.id => Rank(w.op) <= Rank(work.op)
    PROVE  Ordered' /\ QueueGrows
<1>1. /\ queue' = [queue EXCEPT ![call.stream] = Append(@, work)] /\ DOMAIN queue = Streams
      /\ \A s \in Streams : IsSeq(queue[s])
  BY DEF Enqueues, IInv, WorkPlaced
<1>2. call.stream \in Streams
  BY DEF BInv, CallAsked
<1>3. PICK q : q = queue[call.stream]
  OBVIOUS
<1>4. PICK a : a = Append(q, work)
  OBVIOUS
<1>5. /\ Len(q) \in Nat /\ DOMAIN q = 1 .. Len(q) /\ DOMAIN a = 1 .. Len(q) + 1
      /\ \A i \in DOMAIN q : a[i] = q[i]
      /\ a[Len(q) + 1] = work /\ ToSet(a) = ToSet(q) \cup {work}
  BY <1>1, <1>2, <1>3, <1>4, Appended
<1>6. queue'[call.stream] = a /\ \A s \in Streams : s # call.stream => queue'[s] = queue[s]
  BY <1>1, <1>2, <1>3, <1>4
<1>7. Ordered'
  <2> SUFFICES ASSUME NEW s \in Streams, NEW i \in DOMAIN queue'[s], NEW j \in DOMAIN queue'[s],
                      i < j, queue'[s][i].id = queue'[s][j].id
               PROVE  Rank(queue'[s][i].op) <= Rank(queue'[s][j].op)
    BY DEF Ordered, Rank
  <2>1. CASE s # call.stream
    BY <1>6, <2>1 DEF Ordered
  <2>2. CASE s = call.stream
    <3>1. i \in DOMAIN q /\ (j \in DOMAIN q \/ j = Len(q) + 1)
      BY <1>5, <1>6, <2>2
    <3>2. CASE j \in DOMAIN q
      BY <1>2, <1>3, <1>5, <1>6, <2>2, <3>1, <3>2 DEF Ordered
    <3>3. CASE j = Len(q) + 1
      <4>1. q[i] \in ToSet(q)
        BY <3>1 DEF ToSet
      <4>2. a[j] = work /\ a[i] = q[i] /\ queue'[s] = a
        BY <1>5, <1>6, <2>2, <3>1, <3>3
      <4>3. q[i].id = work.id
        BY <4>2
      <4>4. Rank(q[i].op) <= Rank(work.op)
        BY <1>3, <4>1, <4>3
      <4> QED BY <4>2, <4>4
    <3> QED BY <3>1, <3>2, <3>3
  <2> QED BY <2>1, <2>2
<1>8. QueueGrows
  <2>1. ASSUME NEW s \in Streams
        PROVE  /\ ToSet(queue[s]) \subseteq ToSet(queue'[s])
               /\ \A w \in ToSet(queue'[s]) : w \in ToSet(queue[s]) \/ (Busy /\ w.id = call.id)
    <3>1. CASE s # call.stream
      BY <1>6, <3>1
    <3>2. CASE s = call.stream
      BY <1>3, <1>5, <1>6, <3>2
    <3> QED BY <3>1, <3>2
  <2> QED BY <2>1 DEF QueueGrows
<1> QED BY <1>7, <1>8

(* A new buffer leaves what others hold.                                    *)
LEMMA AllocatedMemory ==
    ASSUME IInv, Busy, DOMAIN memory = DOMAIN size,
           NEW b, b \notin DOMAIN size, NEW bytes, Allocates(b, bytes)
    PROVE  Remembers /\ DOMAIN memory' = DOMAIN size' /\ broken' = broken
<1>1. call.temps \subseteq DOMAIN size
  BY DEF IInv, CallTyped
<1>2. memory' = With(memory, b, Junk) /\ size' = With(size, b, bytes) /\ broken' = broken
  BY DEF Allocates
<1>3. \A m \in DOMAIN memory : m # b => m \in DOMAIN memory' /\ memory'[m] = memory[m]
  BY <1>2 DEF With
<1>4. DOMAIN memory' = DOMAIN size'
  BY <1>2 DEF With
<1> QED BY <1>1, <1>2, <1>3, <1>4 DEF Remembers

(* A binding more leaves what is known of the data.                         *)
LEMMA GrownData ==
    ASSUME IInv, BInv, DInv, Busy, call.step \in {"inputs", "outputs"},
           NEW temps, NEW inputs, NEW outputs, Grown(temps, inputs, outputs),
           UNCHANGED <<results, guards, broken>>,
           QueueGrows, Ordered', DOMAIN memory' = DOMAIN size', Loaded'
    PROVE  DInv'
<1>1. /\ Busy' /\ call'.step = call.step /\ call'.copied = call.copied /\ call'.id = call.id
      /\ call'.outputs = call.outputs
  BY DEF Grown, SameCall
<1>2. (\A g \in guards : Guarded(g))' /\ ReturnsComputed'
  BY OthersKept DEF OthersStay
<1>3. ResultsTyped'
  BY <1>1 DEF DInv, ResultsTyped
<1>4. Computing' /\ Concluded'
  BY <1>1 DEF Computing, Launched, Concluded
<1>5. CopiedBack'
  BY <1>1 DEF DInv, CopiedBack, Starting
<1> QED BY <1>2, <1>3, <1>4, <1>5 DEF DInv

(* An input's address is added.                                             *)
LEMMA InputLoads ==
    ASSUME IInv, BInv, DInv, Busy, call.step = "inputs", NEW temps, NEW a,
           Grown(temps, Append(call.bound, a), call.targets),
           UNCHANGED <<results, guards, broken>>,
           QueueGrows, Ordered', DOMAIN memory' = DOMAIN size', Remembers,
           a.of = "buffer" =>
               \E w \in ToSet(queue'[call.stream]) :
                   w.op = "copy_in" /\ w.id = call.id /\ a = Temporary(w.buffer)
    PROVE  DInv'
<1>1. PICK q : q = Append(call.bound, a)
  OBVIOUS
<1>2. /\ call'.bound = q /\ call'.id = call.id /\ call'.stream = call.stream
      /\ call'.inputs = call.inputs
  BY <1>1 DEF Grown, SameCall
<1>3. /\ \A i \in DOMAIN call.bound : q[i] = call.bound[i]
      /\ \A i \in DOMAIN q : i \in DOMAIN call.bound \/ q[i] = a
  <2>1. IsSeq(call.bound)
    BY DEF IInv, CallTyped
  <2>2. /\ Len(call.bound) \in Nat /\ DOMAIN call.bound = 1 .. Len(call.bound)
        /\ DOMAIN q = 1 .. Len(call.bound) + 1
        /\ \A i \in DOMAIN call.bound : q[i] = call.bound[i]
        /\ q[Len(call.bound) + 1] = a
    BY <1>1, <2>1, Appended
  <2> QED BY <2>2
<1>4. Loaded'
  <2> SUFFICES ASSUME ~broken, NEW i \in DOMAIN q, q[i].of = "buffer"
               PROVE  CopyingIn(i)' \/ Read(call.bound[i])' = InputOf(call.id, call.inputs[i].name)
    BY <1>2 DEF Loaded, InputOf
  <2>1. CASE i \in DOMAIN call.bound
    BY <1>2, <1>3, <2>1, LoadedAt
  <2>2. CASE q[i] = a
    <3>1. PICK w \in ToSet(queue'[call.stream]) :
              w.op = "copy_in" /\ w.id = call.id /\ a = Temporary(w.buffer)
      BY <2>2
    <3> QED BY <1>2, <2>2, <3>1 DEF CopyingIn, Temporary
  <2> QED BY <1>3, <2>1, <2>2
<1> QED BY <1>4, GrownData

(* An input is staged: its copy is queued.                                  *)
LEMMA StageInputData == ASSUME IInv, BInv, DInv, StageInput PROVE DInv'
<1>1. PICK input : input = call.inputs[Len(call.bound) + 1]
  OBVIOUS
<1>2. Busy /\ call.step = "inputs" /\ DOMAIN call = CallFields
  BY BusyAt DEF StageInput, At, IInv, CallTyped
<1>3. UNCHANGED <<results, guards>> /\ DOMAIN memory = DOMAIN size
  BY DEF StageInput, DInv, ResultsTyped
<1>4. \/ \E b \in Buffers \ DOMAIN size :
               /\ Allocates(b, input.bytes)
               /\ Enqueues(call.stream, [op |-> "copy_in", id |-> call.id,
                                         name |-> input.name, buffer |-> b])
               /\ call' = [call EXCEPT !.bound = Append(@, Temporary(b)), !.temps = @ \cup {b}]
      \/ /\ call' = [call EXCEPT !.bound = Append(@, CallerMemory(call.id, input)),
                                 !.temps = @ \cup {}]
         /\ UNCHANGED device
      \/ Fail /\ UNCHANGED device
  BY <1>1 DEF StageInput
<1>5. ASSUME NEW b \in Buffers \ DOMAIN size, Allocates(b, input.bytes),
             Enqueues(call.stream, [op |-> "copy_in", id |-> call.id,
                                    name |-> input.name, buffer |-> b]),
             call' = [call EXCEPT !.bound = Append(@, Temporary(b)), !.temps = @ \cup {b}]
      PROVE  DInv'
  <2>1. PICK a : a = Temporary(b)
    OBVIOUS
  <2>2. PICK work : work = [op |-> "copy_in", id |-> call.id, name |-> input.name, buffer |-> b]
    OBVIOUS
  <2>3. Grown({b}, Append(call.bound, a), call.targets)
    BY <1>2, <1>5, <2>1 DEF Grown, SameCall, Busy, NoCall, CallFields
  <2>4. Remembers /\ DOMAIN memory' = DOMAIN size' /\ broken' = broken
    BY <1>2, <1>3, <1>5, AllocatedMemory
  <2>5. work.op = "copy_in" /\ work.id = call.id /\ work.buffer = b
    BY <2>2
  <2>6. \A w \in ToSet(queue[call.stream]) : w.id = call.id => Rank(w.op) <= Rank(work.op)
    <3>1. ASSUME NEW w \in ToSet(queue[call.stream]), w.id = call.id PROVE w.op = "copy_in"
      <4>1. call.stream \in Streams
        BY <1>2 DEF BInv, CallAsked
      <4>2. WorkOf(w)
        BY <1>2, <3>1, <4>1 DEF BInv, CallWork
      <4> QED BY <1>2, <4>2 DEF WorkOf, Starting
    <3> QED BY <2>5, <3>1 DEF Rank
  <2>7. Ordered' /\ QueueGrows
    BY <1>2, <1>5, <2>2, <2>5, <2>6, OrderedMore DEF DInv
  <2>8. work \in ToSet(queue'[call.stream])
    <3>1. call.stream \in Streams /\ DOMAIN queue = Streams /\ IsSeq(queue[call.stream])
      BY <1>2 DEF BInv, CallAsked, IInv, WorkPlaced
    <3>2. queue'[call.stream] = Append(queue[call.stream], work)
      BY <1>5, <2>2, <3>1 DEF Enqueues
    <3>3. ToSet(Append(queue[call.stream], work)) = ToSet(queue[call.stream]) \cup {work}
      BY <3>1, Appended
    <3> QED BY <3>2, <3>3
  <2> QED BY <1>2, <1>3, <2>1, <2>3, <2>4, <2>5, <2>7, <2>8, InputLoads
<1>6. ASSUME call' = [call EXCEPT !.bound = Append(@, CallerMemory(call.id, input)),
                                  !.temps = @ \cup {}],
             UNCHANGED device
      PROVE  DInv'
  <2>1. PICK a : a = CallerMemory(call.id, input)
    OBVIOUS
  <2>2. Grown({}, Append(call.bound, a), call.targets)
    BY <1>2, <1>6, <2>1 DEF Grown, SameCall, Busy, NoCall, CallFields
  <2>3. UNCHANGED <<size, memory, queue, broken>>
    BY <1>6 DEF device
  <2>4. QueueGrows /\ Ordered' /\ DOMAIN memory' = DOMAIN size'
    BY <1>3, <2>3, QueueSame DEF DInv
  <2>5. Remembers
    BY <1>2, <1>3, <2>3 DEF Remembers, IInv, CallTyped
  <2>6. a.of # "buffer"
    BY <2>1 DEF CallerMemory
  <2> QED BY <1>2, <1>3, <2>2, <2>3, <2>4, <2>5, <2>6, InputLoads
<1>7. CASE Fail /\ UNCHANGED device
  BY <1>2, <1>3, <1>7, FailData DEF device
<1> QED BY <1>4, <1>5, <1>6, <1>7

(* An output is prepared, its buffer with it.                               *)
LEMMA PrepareOutputData == ASSUME IInv, BInv, DInv, PrepareOutput PROVE DInv'
<1>1. PICK output : output = call.outputs[Len(call.targets) + 1]
  OBVIOUS
<1>2. Busy /\ call.step = "outputs" /\ DOMAIN call = CallFields
  BY BusyAt DEF PrepareOutput, At, IInv, CallTyped
<1>3. UNCHANGED <<results, guards>> /\ DOMAIN memory = DOMAIN size
  BY DEF PrepareOutput, DInv, ResultsTyped
<1>4. \/ \E b \in Buffers \ DOMAIN size :
               /\ Allocates(b, output.bytes)
               /\ call' = [call EXCEPT !.targets = Append(@, Temporary(b)), !.temps = @ \cup {b}]
               /\ UNCHANGED queue
      \/ /\ call' = [call EXCEPT !.targets = Append(@, CallerMemory(call.id, output)),
                                 !.temps = @ \cup {}]
         /\ UNCHANGED device
      \/ Fail /\ UNCHANGED device
  BY <1>1 DEF PrepareOutput
<1>5. ASSUME NEW temps, NEW outputs, Grown(temps, call.bound, outputs), UNCHANGED <<queue, broken>>,
             Remembers, DOMAIN memory' = DOMAIN size'
      PROVE  DInv'
  <2>1. QueueGrows /\ Ordered'
    BY <1>5, QueueSame DEF DInv
  <2>2. /\ call'.bound = call.bound /\ call'.id = call.id /\ call'.stream = call.stream
        /\ call'.inputs = call.inputs
    BY <1>5 DEF Grown, SameCall
  <2>3. Loaded'
    <3> SUFFICES ASSUME ~broken, NEW i \in DOMAIN call.bound, call.bound[i].of = "buffer"
                 PROVE  CopyingIn(i)' \/ Read(call.bound[i])' = InputOf(call.id, call.inputs[i].name)
      BY <1>5, <2>2 DEF Loaded, InputOf
    <3> QED BY <1>2, <1>5, <2>1, <2>2, LoadedAt
  <2> QED BY <1>2, <1>3, <1>5, <2>1, <2>3, GrownData
<1>6. ASSUME NEW b \in Buffers \ DOMAIN size, Allocates(b, output.bytes),
             call' = [call EXCEPT !.targets = Append(@, Temporary(b)), !.temps = @ \cup {b}],
             UNCHANGED queue
      PROVE  DInv'
  <2>1. Grown({b}, call.bound, Append(call.targets, Temporary(b)))
    BY <1>2, <1>6 DEF Grown, SameCall, Busy, NoCall, CallFields
  <2>2. Remembers /\ DOMAIN memory' = DOMAIN size' /\ broken' = broken
    BY <1>2, <1>3, <1>6, AllocatedMemory
  <2> QED BY <1>5, <1>6, <2>1, <2>2
<1>7. ASSUME call' = [call EXCEPT !.targets = Append(@, CallerMemory(call.id, output)),
                                  !.temps = @ \cup {}],
             UNCHANGED device
      PROVE  DInv'
  <2>1. Grown({}, call.bound, Append(call.targets, CallerMemory(call.id, output)))
    BY <1>2, <1>7 DEF Grown, SameCall, Busy, NoCall, CallFields
  <2>2. UNCHANGED <<size, memory, queue, broken>>
    BY <1>7 DEF device
  <2>3. Remembers /\ DOMAIN memory' = DOMAIN size'
    BY <1>2, <1>3, <2>2 DEF Remembers, IInv, CallTyped
  <2> QED BY <1>5, <2>1, <2>2, <2>3
<1>8. CASE Fail /\ UNCHANGED device
  BY <1>2, <1>3, <1>8, FailData DEF device
<1> QED BY <1>4, <1>6, <1>7, <1>8

-----------------------------------------------------------------------------
(* The inference is queued, then the copies of its outputs.                 *)

(* The inference is queued, behind the copies of the inputs.                *)
LEMMA EnqueueData == ASSUME IInv, BInv, DInv, Enqueue PROVE DInv'
<1>1. PICK work : work = [op |-> "infer", id |-> call.id, context |-> Held,
                          address |-> address[Held], dims |-> ContextDims(Held)]
  OBVIOUS
<1>2. Busy /\ call.step = "enqueue"
  BY BusyAt DEF Enqueue, At
<1>3. UNCHANGED <<size, memory, broken, results, guards>>
  BY DEF Enqueue
<1>4. \/ Enqueues(call.stream, work) /\ Goto(AfterEnqueue)
      \/ Fail /\ UNCHANGED queue
  BY <1>1 DEF Enqueue
<1>5. CASE Enqueues(call.stream, work) /\ Goto(AfterEnqueue)
  <2>1. PICK next : next = AfterEnqueue
    OBVIOUS
  <2>2. /\ next \in {"copy_out", "synchronize", "return"}
        /\ next = "return" => call.kind = "enqueue"
        /\ CopiesOut(call.kind) <=> next = "copy_out"
    BY <2>1 DEF AfterEnqueue, CopiesOut
  <2>3. Moved(next, call.ok)
    BY <1>2, <1>5, <2>1, <2>2, Went DEF IInv
  <2>4. SameBindings /\ call'.copied = call.copied /\ call'.step = next
    BY <2>3, MovedSame
  <2>5. work.op = "infer" /\ work.id = call.id
    BY <1>1
  <2>6. \A w \in ToSet(queue[call.stream]) : w.id = call.id => Rank(w.op) <= Rank(work.op)
    <3>1. ASSUME NEW w \in ToSet(queue[call.stream]), w.id = call.id PROVE w.op = "copy_in"
      <4>1. call.stream \in Streams
        BY <1>2 DEF BInv, CallAsked
      <4>2. WorkOf(w)
        BY <1>2, <3>1, <4>1 DEF BInv, CallWork
      <4> QED BY <1>2, <4>2 DEF WorkOf, Starting
    <3> QED BY <2>5, <3>1 DEF Rank
  <2>7. Ordered' /\ QueueGrows
    BY <1>2, <1>5, <2>5, <2>6, OrderedMore DEF DInv
  <2>8. work \in ToSet(queue'[call.stream])
    <3>1. call.stream \in Streams /\ DOMAIN queue = Streams /\ IsSeq(queue[call.stream])
      BY <1>2 DEF BInv, CallAsked, IInv, WorkPlaced
    <3>2. queue'[call.stream] = Append(queue[call.stream], work)
      BY <1>5, <3>1 DEF Enqueues
    <3>3. ToSet(Append(queue[call.stream], work)) = ToSet(queue[call.stream]) \cup {work}
      BY <3>1, Appended
    <3> QED BY <3>2, <3>3
  <2>9. Remembers
    BY <1>2, <1>3 DEF Remembers, IInv, CallTyped, DInv, ResultsTyped
  <2>10. Loaded'
    BY <1>2, <1>3, <2>4, <2>7, <2>9, LoadedKept
  <2>11. Computing'
    <3>1. Infering(call.stream, call.id)'
      BY <2>4, <2>5, <2>8 DEF Infering, SameBindings
    <3>2. Len(call'.targets) = Len(call'.outputs)
      BY <1>2, <2>4 DEF SameBindings, IInv, CallTyped
    <3> QED BY <3>1, <3>2 DEF Computing
  <2>12. CopiedBack'
    <3>1. call.copied = 0 /\ Len(call.outputs) \in Nat
      BY <1>2 DEF DInv, CopiedBack, Starting, BInv, CallAsked, IsSeq
    <3>2. call'.copied = 0 /\ call'.outputs = call.outputs /\ call'.kind = call.kind
      BY <2>4, <3>1 DEF SameBindings
    <3>3. 1 .. call'.copied = {} /\ call'.copied <= Len(call'.outputs)
      BY <3>1, <3>2
    <3>4. call'.step = "synchronize" => ~CopiesOut(call'.kind)
      BY <2>2, <2>4, <3>2
    <3>5. call'.step \notin Starting
      BY <2>2, <2>4 DEF Starting, Early
    <3> QED BY <3>3, <3>4, <3>5 DEF CopiedBack
  <2>13. Concluded'
    BY <2>2, <2>4 DEF Concluded, SameBindings
  <2>14. (\A g \in guards : Guarded(g))' /\ ReturnsComputed'
    BY <1>3, <2>7, OthersKept DEF OthersStay
  <2>15. ResultsTyped'
    BY <1>2, <1>3, <2>4 DEF DInv, ResultsTyped, SameBindings
  <2> QED BY <2>7, <2>10, <2>11, <2>12, <2>13, <2>14, <2>15 DEF DInv
<1>6. CASE Fail /\ UNCHANGED queue
  BY <1>2, <1>3, <1>6, FailData
<1> QED BY <1>4, <1>5, <1>6

(* A copy of an output is queued, behind the inference.                     *)
LEMMA CopyOutData == ASSUME IInv, BInv, DInv, CopyOut PROVE DInv'
<1>1. PICK i : i = call.copied + 1
  OBVIOUS
<1>2. Busy /\ call.step = "copy_out" /\ CopiesOut(call.kind)
  BY BusyAt DEF CopyOut, At, IInv, CallTyped
<1>3. UNCHANGED <<size, memory, broken, results, guards>>
  BY DEF CopyOut
<1>4. PICK work : work = [op |-> "copy_out", id |-> call.id, name |-> call.outputs[i].name,
                          buffer |-> call.targets[i].buffer]
  OBVIOUS
<1>5. \/ /\ call.copied < Len(call.outputs) /\ Enqueues(call.stream, work)
         /\ call' = [call EXCEPT !.copied = @ + 1]
      \/ Fail /\ UNCHANGED queue
      \/ call.copied = Len(call.outputs) /\ Goto("synchronize") /\ UNCHANGED queue
  BY <1>1, <1>4 DEF CopyOut
<1>6. CASE /\ call.copied < Len(call.outputs) /\ Enqueues(call.stream, work)
           /\ call' = [call EXCEPT !.copied = @ + 1]
  <2>1. /\ SameBindings /\ call'.copied = i /\ call'.step = "copy_out" /\ call'.ok = call.ok
    BY <1>1, <1>2, <1>6 DEF IInv, CallTyped, CallFields, SameBindings, Busy, NoCall
  <2>2. work.op = "copy_out" /\ work.id = call.id /\ work.name = call.outputs[i].name
    BY <1>4
  <2>3. \A w \in ToSet(queue[call.stream]) : w.id = call.id => Rank(w.op) <= Rank(work.op)
    BY <2>2 DEF Rank
  <2>4. Ordered' /\ QueueGrows
    BY <1>2, <1>6, <2>2, <2>3, OrderedMore DEF DInv
  <2>5. call.stream \in Streams
    BY <1>2 DEF BInv, CallAsked
  <2>6. work \in ToSet(queue'[call.stream])
    <3>1. DOMAIN queue = Streams /\ IsSeq(queue[call.stream])
      BY <2>5 DEF IInv, WorkPlaced
    <3>2. queue'[call.stream] = Append(queue[call.stream], work)
      BY <1>6, <2>5, <3>1 DEF Enqueues
    <3>3. ToSet(Append(queue[call.stream], work)) = ToSet(queue[call.stream]) \cup {work}
      BY <3>1, Appended
    <3> QED BY <3>2, <3>3
  <2>7. Remembers
    BY <1>2, <1>3 DEF Remembers, IInv, CallTyped, DInv, ResultsTyped
  <2>8. Loaded'
    BY <1>2, <1>3, <2>1, <2>4, <2>7, LoadedKept
  <2>9. Launched
    BY <1>2 DEF Launched
  <2>10. Computing'
    BY <1>2, <1>3, <2>1, <2>4, <2>7, <2>9, ComputingKept
  <2>11. CopiedBack'
    <3>1. call.copied \in Nat /\ Len(call.outputs) \in Nat
      BY <1>2 DEF IInv, CallTyped, BInv, CallAsked, IsSeq
    <3>2. call'.copied <= Len(call.outputs)
      BY <1>1, <1>6, <2>1, <3>1
    <3>3. ASSUME NEW j \in 1 .. i, ~broken
          PROVE  CopyingOut(j)' \/ results[call.id].holds[call.outputs[j].name]
                                       = OutputOf(call.id, call.outputs[j].name)
      <4>1. CASE j = i
        BY <2>1, <2>2, <2>6, <4>1 DEF CopyingOut, SameBindings
      <4>2. CASE j # i
        <5>1. j \in 1 .. call.copied
          BY <1>1, <3>1, <4>2
        <5>2. CopyingOut(j) \/ results[call.id].holds[call.outputs[j].name]
                                   = OutputOf(call.id, call.outputs[j].name)
          BY <1>2, <3>3, <5>1 DEF DInv, CopiedBack
        <5>3. CopyingOut(j) => CopyingOut(j)'
          BY <2>1, <2>4, <2>5 DEF CopyingOut, QueueGrows, SameBindings
        <5> QED BY <5>2, <5>3
      <4> QED BY <4>1, <4>2
    <3>4. ASSUME ~broken', NEW j \in 1 .. call'.copied
          PROVE  CopyingOut(j)' \/ results'[call'.id].holds[call'.outputs[j].name]
                                       = OutputOf(call'.id, call'.outputs[j].name)
      BY <1>3, <2>1, <3>3, <3>4 DEF SameBindings
    <3> QED BY <2>1, <3>2, <3>4 DEF CopiedBack, Starting, Early, OutputOf, SameBindings
  <2>12. Concluded'
    BY <2>1 DEF Concluded
  <2>13. (\A g \in guards : Guarded(g))' /\ ReturnsComputed'
    BY <1>3, <2>4, OthersKept DEF OthersStay
  <2>14. ResultsTyped'
    BY <1>2, <1>3, <2>1 DEF DInv, ResultsTyped, SameBindings
  <2> QED BY <2>4, <2>8, <2>10, <2>11, <2>12, <2>13, <2>14 DEF DInv
<1>7. CASE Fail /\ UNCHANGED queue
  BY <1>2, <1>3, <1>7, FailData
<1>8. CASE call.copied = Len(call.outputs) /\ Goto("synchronize") /\ UNCHANGED queue
  <2>1. Moved("synchronize", call.ok)
    BY <1>2, <1>8, Went DEF IInv
  <2> QED BY <1>2, <1>3, <1>8, <2>1, MovedSame, MoveData
<1> QED BY <1>5, <1>6, <1>7, <1>8

-----------------------------------------------------------------------------
(* Calls and guards end.                                                    *)

(* When the work of the call is done its outputs are computed.              *)
LEMMA DoneHolds ==
    ASSUME IInv, BInv, DInv, Busy, call.step = "synchronize", Synchronized(call.stream)
    PROVE  HoldsOutputs(call.id) /\ NoWorkOf(call.id)
<1>1. queue[call.stream] = <<>> /\ ~broken /\ ToSet(queue[call.stream]) = {}
  BY NothingIn DEF Synchronized
<1>2. NoWorkOf(call.id)
  <2>1. ASSUME NEW s \in Streams, NEW work \in ToSet(queue[s]) PROVE work.id # call.id
    <3>1. s # call.stream
      BY <1>1
    <3>2. OfGuard(s, work)
      BY <3>1 DEF IInv, WorkPlaced, OfCall
    <3> QED BY <3>2 DEF OfGuard, IInv, Placed
  <2> QED BY <2>1 DEF NoWorkOf
<1>3. CASE ~CopiesOut(call.kind)
  BY <1>1, <1>2, <1>3 DEF DInv, Computing, Launched, Infering
<1>4. CASE CopiesOut(call.kind)
  <2>1. ASSUME NEW n \in DOMAIN results[call.id].holds
        PROVE  results[call.id].holds[n] = OutputOf(call.id, n)
    <3>1. PICK i \in DOMAIN call.outputs : n = call.outputs[i].name
      BY DEF DInv, ResultsTyped
    <3>2. i \in 1 .. call.copied
      BY <1>4 DEF DInv, CopiedBack, BInv, CallAsked, IsSeq
    <3>3. CopyingOut(i) \/ results[call.id].holds[n] = OutputOf(call.id, n)
      BY <1>1, <1>4, <3>1, <3>2 DEF DInv, CopiedBack
    <3> QED BY <1>1, <3>3 DEF CopyingOut
  <2> QED BY <1>2, <2>1 DEF HoldsOutputs
<1> QED BY <1>2, <1>3, <1>4

(* When the stream is empty, each output holds what was computed.           *)
LEMMA SynchronizeData == ASSUME IInv, BInv, DInv, Synchronize PROVE DInv'
<1>1. Busy /\ call.step = "synchronize"
  BY BusyAt DEF Synchronize, At
<1>2. UNCHANGED <<size, memory, results, guards>> /\ Remembers
  BY <1>1 DEF Synchronize, Remembers, IInv, CallTyped, DInv, ResultsTyped
<1>3. CASE Synchronized(call.stream) /\ Goto("return") /\ UNCHANGED <<queue, broken>>
  <2>1. SameBindings /\ call'.copied = call.copied /\ call'.step = "return" /\ call'.ok = call.ok
    <3>1. Moved("return", call.ok)
      BY <1>1, <1>3, Went DEF IInv
    <3> QED BY <3>1, MovedSame
  <2>2. QueueGrows /\ Ordered' /\ broken' = broken
    BY <1>3, QueueSame DEF DInv
  <2>3. Loaded'
    BY <1>1, <1>2, <2>1, <2>2, LoadedKept
  <2>4. Launched
    BY <1>1 DEF Launched
  <2>5. Computing'
    BY <1>1, <1>2, <2>1, <2>2, <2>4, ComputingKept
  <2>6. CopiedBack'
    BY <2>1 DEF CopiedBack, Starting, Early
  <2>7. Concluded'
    <3>1. HoldsOutputs(call.id) /\ NoWorkOf(call.id)
      BY <1>1, <1>3, DoneHolds
    <3> QED BY <1>2, <1>3, <2>1, <3>1
            DEF Concluded, HoldsOutputs, OutputOf, NoWorkOf, SameBindings
  <2>8. (\A g \in guards : Guarded(g))' /\ ReturnsComputed'
    BY <1>2, <2>2, OthersKept DEF OthersStay
  <2>9. ResultsTyped'
    BY <1>1, <1>2, <2>1 DEF DInv, ResultsTyped, SameBindings
  <2> QED BY <2>2, <2>3, <2>5, <2>6, <2>7, <2>8, <2>9 DEF DInv
<1>4. CASE Abandoned /\ Fail
  <2>1. SameBindings /\ call'.copied = call.copied /\ call'.step = "return" /\ call'.ok = FALSE
    <3>1. Moved("return", FALSE)
      BY <1>1, <1>4, FailMoves DEF IInv
    <3> QED BY <3>1, MovedSame
  <2>2. QueueGone /\ Ordered'
    BY <1>4, QueueEmpty
  <2>3. /\ Launched' => Launched
        /\ call'.step \notin Starting
    BY <2>1 DEF Launched, Starting, Early
  <2>4. DOMAIN memory' = DOMAIN size'
    BY <1>2 DEF DInv, ResultsTyped
  <2> QED BY <1>1, <1>2, <2>1, <2>2, <2>3, <2>4, CallStepKept
<1> QED BY <1>3, <1>4 DEF Synchronize

(* A step which changes nothing of calls and the device.                    *)
LEMMA SameData ==
    ASSUME IInv, BInv, DInv, DropSession \/ OpenSession \/ UNCHANGED vars
    PROVE  DInv'
<1>1. UNCHANGED <<call, size, memory, queue, broken, results, guards>>
  BY DEF DropSession, OpenSession, vars, device
<1>2. (\A g \in guards : Guarded(g))' /\ ReturnsComputed' /\ Ordered'
  BY <1>1, QueueSame, OthersKept DEF OthersStay, DInv
<1>3. ResultsTyped'
  BY <1>1 DEF DInv, ResultsTyped, Busy
<1>4. \A a : Read(a)' = Read(a)
  BY <1>1 DEF Read, InputOf, Junk
<1>5. Loaded'
  BY <1>1, <1>4 DEF DInv, Loaded, Busy, CopyingIn, Read
<1>6. Computing' /\ CopiedBack' /\ Concluded'
  BY <1>1, <1>4 DEF DInv, Computing, CopiedBack, Concluded, Busy, Launched, Infering, CopyingOut,
                    HoldsOutputs, NoWorkOf, Read
<1> QED BY <1>2, <1>3, <1>5, <1>6 DEF DInv

(* The work that a call without buffers leaves is of the caller's memory.   *)
LEMMA LeftWork ==
    ASSUME IInv, BInv, Busy, call.temps = {}, NEW s \in Streams, NEW work \in ToSet(queue[s]),
           work.id = call.id
    PROVE  /\ work.op = "infer"
           /\ \A n \in DOMAIN Tensors : work.address[n].of = "caller" /\ work.address[n].name = n
<1>1. WorkOf(work)
  BY CallsWork
<1>2. \A m : Temporary(m).of = "buffer" /\ Temporary(m).buffer = m
  BY DEF Temporary
<1>3. /\ \A i \in DOMAIN call.bound : call.bound[i].of # "buffer"
      /\ \A i \in DOMAIN call.targets : call.targets[i].of # "buffer"
  BY BoundBuffers
<1>4. work.op = "infer"
  BY <1>1, <1>2, <1>3 DEF WorkOf
<1>5. ASSUME NEW n \in DOMAIN Tensors, NEW a, a = work.address[n]
      PROVE  a.of = "caller" /\ a.name = n
  <2>1. a # NullAddress /\ AddressOf(n, a)
    BY <1>1, <1>4, <1>5 DEF WorkOf
  <2>2. \A b : CallerMemory(call.id, b).of = "caller" /\ CallerMemory(call.id, b).name = b.name
    BY DEF CallerMemory
  <2>3. CASE \E i \in DOMAIN call.bound : call.inputs[i].name = n /\ a = call.bound[i]
    <3>1. PICK i \in DOMAIN call.bound : call.inputs[i].name = n /\ a = call.bound[i]
      BY <2>3
    <3>2. PlacedAt(a, call.inputs[i], call.inputs[i].at = "staged")
      BY <3>1 DEF BInv, CallBound
    <3>3. a = CallerMemory(call.id, call.inputs[i])
      BY <3>2 DEF PlacedAt
    <3> QED BY <2>2, <3>1, <3>3
  <2>4. CASE \E i \in DOMAIN call.targets : call.outputs[i].name = n /\ a = call.targets[i]
    <3>1. PICK i \in DOMAIN call.targets : call.outputs[i].name = n /\ a = call.targets[i]
      BY <2>4
    <3>2. PlacedAt(a, call.outputs[i], CopiesOut(call.kind))
      BY <3>1 DEF BInv, CallBound
    <3>3. a = CallerMemory(call.id, call.outputs[i])
      BY <3>2 DEF PlacedAt
    <3> QED BY <2>2, <3>1, <3>3
  <2> QED BY <2>1, <2>3, <2>4 DEF AddressOf
<1> QED BY <1>4, <1>5

(* A call that returns a guard.                                             *)
LEMMA GuardBegins ==
    ASSUME IInv, BInv, DInv, Return, InFlight,
           NEW g, g = [id |-> call.id, stream |-> call.stream, context |-> Held]
    PROVE  Guarded(g)'
<1>1. /\ Busy /\ call.step = "return" /\ call.kind = "enqueue" /\ call.ok = TRUE
      /\ ~CopiesOut(call.kind) /\ Launched
  BY BusyAt DEF Return, InFlight, At, CopiesOut, Launched
<1>2. /\ UNCHANGED <<queue, broken>>
      /\ call.temps # {} => \A s \in Streams : queue[s] = <<>>
      /\ results' = [results EXCEPT ![call.id].status = "none"]
  BY <1>1 DEF Return, Freed, InFlight
<1>3. call.id \in Ids /\ call.stream \in Streams /\ g.id = call.id /\ g.stream = call.stream
  BY <1>1 DEF BInv, CallAsked
<1>4. results'[call.id].holds = results[call.id].holds
  BY <1>2, <1>3 DEF DInv, ResultsTyped
<1>5. ~broken => Infering(call.stream, call.id) \/ HoldsOutputs(call.id)
  BY <1>1 DEF DInv, Computing
<1>6. ~broken' => Infering(g.stream, g.id)' \/ HoldsOutputs(g.id)'
  <2>1. Infering(call.stream, call.id) => Infering(g.stream, g.id)'
    BY <1>2, <1>3 DEF Infering
  <2>2. HoldsOutputs(call.id) => HoldsOutputs(g.id)'
    BY <1>3, <1>4 DEF HoldsOutputs, OutputOf
  <2> QED BY <1>2, <1>5, <2>1, <2>2
<1>7. DOMAIN results[call.id].holds \subseteq Named("output")
  <2>1. DOMAIN results[call.id].holds = {call.outputs[i].name : i \in DOMAIN call.outputs}
    BY <1>1 DEF DInv, ResultsTyped
  <2>2. DOMAIN call.targets = DOMAIN call.outputs
    <3>1. Len(call.targets) = Len(call.outputs)
      BY <1>1 DEF DInv, Computing
    <3>2. IsSeq(call.targets) /\ IsSeq(call.outputs)
      BY <1>1 DEF IInv, CallTyped, BInv, CallAsked
    <3> QED BY <3>1, <3>2 DEF IsSeq
  <2>3. \A i \in DOMAIN call.outputs : call.outputs[i].name \in Named("output")
    BY <1>1, <2>2 DEF BInv, CallBound, Sized, Fits, Named
  <2> QED BY <2>1, <2>3
<1>8. ASSUME NEW work \in ToSet(queue[call.stream]), work.id = call.id
      PROVE  /\ work.op = "infer"
             /\ \A n \in DOMAIN Tensors : work.address[n].of = "caller" /\ work.address[n].name = n
  <2>1. call.temps = {}
    BY <1>2, <1>3, <1>8, NothingIn
  <2> QED BY <1>1, <1>3, <1>8, <2>1, LeftWork
<1> QED BY <1>2, <1>3, <1>4, <1>6, <1>7, <1>8 DEF Guarded, Named, Tensors

(* Between calls nothing is known but of results, guards and work.          *)
LEMMA IdleData ==
    ASSUME ~Busy', ResultsTyped', Ordered', (\A g \in guards : Guarded(g))', ReturnsComputed'
    PROVE  DInv'
BY DEF DInv, Loaded, Computing, CopiedBack, Concluded

(* The call returns: its status is that of a result it concluded, or a guard*)
(* is left with its inference.                                              *)
LEMMA ReturnData == ASSUME IInv, BInv, DInv, Return PROVE DInv'
<1>1. PICK g : g = [id |-> call.id, stream |-> call.stream, context |-> Held]
  OBVIOUS
<1>2. Busy /\ call.step = "return" /\ ~Busy'
  BY BusyAt DEF Return, At, Busy
<1>3. /\ UNCHANGED <<queue, broken>>
      /\ size' = Without(size, call.temps) /\ memory' = Without(memory, call.temps)
      /\ guards' = IF InFlight THEN guards \cup {g} ELSE guards
  BY <1>1 DEF Return, Freed, InFlight
<1>4. PICK status : /\ results' = [results EXCEPT ![call.id].status = status]
                    /\ status \in {"none", "ok", "error"}
                    /\ InFlight => status = "none"
                    /\ status = "ok" => ~InFlight /\ call.ok = TRUE
  <2>1. PICK status : status = IF InFlight THEN "none" ELSE IF call.ok THEN "ok" ELSE "error"
    OBVIOUS
  <2>2. results' = [results EXCEPT ![call.id].status = status]
    BY <2>1 DEF Return, InFlight
  <2>3. status \in {"none", "ok", "error"} /\ (InFlight => status = "none")
    BY <2>1
  <2>4. status = "ok" => ~InFlight /\ call.ok
    BY <2>1
  <2>5. status = "ok" => call.ok = TRUE
    BY <2>4
  <2> QED BY <2>2, <2>3, <2>4, <2>5
<1>5. /\ call.id \in Ids /\ call.stream \in Streams /\ \A h \in guards : h.id # call.id
      /\ g.id = call.id /\ g.stream = call.stream
  BY <1>1, <1>2 DEF BInv, CallAsked, IInv, Placed
<1>6. DOMAIN results = Ids /\ DOMAIN results[call.id] = {"status", "holds"}
  BY <1>5 DEF DInv, ResultsTyped
<1>7. /\ DOMAIN results' = Ids /\ DOMAIN results'[call.id] = {"status", "holds"}
      /\ results'[call.id].status = status /\ results'[call.id].holds = results[call.id].holds
      /\ \A id \in Ids : id # call.id => results'[id] = results[id]
  BY <1>4, <1>5, <1>6
<1>8. QueueGrows /\ Ordered'
  BY <1>3, QueueSame DEF DInv
<1>9. ResultsTyped'
  <2>1. DOMAIN memory' = DOMAIN size'
    BY <1>3 DEF Without, DInv, ResultsTyped
  <2>2. \A id \in Ids : DOMAIN results'[id] = {"status", "holds"}
    BY <1>7 DEF DInv, ResultsTyped
  <2>3. ASSUME NEW h \in guards'
        PROVE  h.id \in Ids /\ h.stream \in Streams /\ results'[h.id].status # "ok"
    <3>1. CASE h \in guards
      BY <1>5, <1>7, <3>1 DEF DInv, ResultsTyped
    <3>2. CASE h \notin guards
      <4>1. InFlight /\ h = g
        BY <1>3, <2>3, <3>2
      <4> QED BY <1>4, <1>5, <1>7, <4>1
    <3> QED BY <3>1, <3>2
  <2> QED BY <1>2, <1>7, <2>1, <2>2, <2>3 DEF ResultsTyped
<1>10. (\A h \in guards : Guarded(h))'
  <2>1. ASSUME NEW h \in guards PROVE Guarded(h)'
    <3>1. results'[h.id] = results[h.id]
      BY <1>5, <1>7 DEF DInv, ResultsTyped
    <3> QED BY <1>3, <1>8, <3>1, GuardKept
  <2>2. InFlight => Guarded(g)'
    BY <1>1, GuardBegins
  <2>3. \A h \in guards' : Guarded(h)'
    BY <1>3, <2>1, <2>2
  <2> QED BY <2>3
<1>11. ReturnsComputed'
  <2>1. ASSUME NEW id \in Ids, results'[id].status = "ok", NEW n \in DOMAIN results'[id].holds
        PROVE  results'[id].holds[n] = OutputOf(id, n)
    <3>1. CASE id # call.id
      BY <1>7, <2>1, <3>1 DEF DInv, ReturnsComputed
    <3>2. CASE id = call.id
      <4>1. call.ok = TRUE /\ call.kind # "enqueue"
        BY <1>4, <1>7, <2>1, <3>2 DEF InFlight
      <4>2. HoldsOutputs(call.id)
        BY <1>2, <4>1 DEF DInv, Concluded
      <4> QED BY <1>7, <2>1, <3>2, <4>2 DEF HoldsOutputs
    <3> QED BY <3>1, <3>2
  <2> QED BY <2>1 DEF ReturnsComputed, OutputOf
<1> QED BY <1>2, <1>8, <1>9, <1>10, <1>11, IdleData

(* A guard is synchronized: its inference is done.                          *)
LEMMA EndGuardData == ASSUME IInv, BInv, DInv, EndGuard PROVE DInv'
<1>1. PICK g \in guards, ok \in BOOLEAN :
         /\ IF ok THEN Synchronized(g.stream) /\ UNCHANGED <<queue, broken>>
            ELSE Abandoned
         /\ guards' = guards \ {g}
         /\ results' = [results EXCEPT ![g.id].status = IF ok THEN "ok" ELSE "error"]
  BY DEF EndGuard
<1>2. ~Busy /\ ~Busy' /\ UNCHANGED <<size, memory>>
  BY DEF EndGuard, Busy
<1>3. PICK status : status = IF ok THEN "ok" ELSE "error"
  OBVIOUS
<1>4. /\ g.id \in Ids /\ g.stream \in Streams /\ \A h \in guards : h # g => h.id # g.id
      /\ DOMAIN results = Ids /\ DOMAIN results[g.id] = {"status", "holds"}
  BY DEF DInv, ResultsTyped, IInv, Placed
<1>5. /\ DOMAIN results' = Ids /\ DOMAIN results'[g.id] = {"status", "holds"}
      /\ results'[g.id].status = status /\ results'[g.id].holds = results[g.id].holds
      /\ \A id \in Ids : id # g.id => results'[id] = results[id]
  <2>1. results' = [results EXCEPT ![g.id].status = status]
    BY <1>1, <1>3
  <2> QED BY <1>4, <2>1
<1>6. Ordered' /\ ((QueueGrows /\ broken' = broken) \/ QueueGone)
  BY <1>1, QueueSame, QueueEmpty DEF DInv
<1>7. ResultsTyped'
  BY <1>1, <1>2, <1>4, <1>5 DEF DInv, ResultsTyped
<1>8. (\A h \in guards : Guarded(h))'
  <2>1. ASSUME NEW h \in guards, h # g PROVE Guarded(h)'
    <3>1. results'[h.id] = results[h.id]
      BY <1>4, <1>5, <2>1 DEF DInv, ResultsTyped
    <3> QED BY <1>6, <3>1, GuardKept
  <2>2. \A h \in guards' : Guarded(h)'
    BY <1>1, <2>1
  <2> QED BY <2>2
<1>9. ReturnsComputed'
  <2>1. ASSUME NEW id \in Ids, results'[id].status = "ok", NEW n \in DOMAIN results'[id].holds
        PROVE  results'[id].holds[n] = OutputOf(id, n)
    <3>1. CASE id # g.id
      BY <1>5, <2>1, <3>1 DEF DInv, ReturnsComputed
    <3>2. CASE id = g.id
      <4>1. queue[g.stream] = <<>> /\ ~broken
        BY <1>1, <1>3, <1>5, <2>1, <3>2 DEF Synchronized
      <4>2. HoldsOutputs(g.id)
        <5>1. ToSet(queue[g.stream]) = {}
          BY <4>1, NothingIn
        <5>2. Guarded(g)
          BY DEF DInv
        <5> QED BY <4>1, <5>1, <5>2 DEF Guarded, Infering
      <4> QED BY <1>5, <2>1, <3>2, <4>2 DEF HoldsOutputs
    <3> QED BY <3>1, <3>2
  <2> QED BY <2>1 DEF ReturnsComputed, OutputOf
<1> QED BY <1>2, <1>6, <1>7, <1>8, <1>9, IdleData

-----------------------------------------------------------------------------
(* The device does the first work of a stream.                              *)

(* The first of a queue, and the rest.                                      *)
LEMMA FirstOf ==
    ASSUME NEW q, IsSeq(q), q # <<>>
    PROVE  /\ Head(q) \in ToSet(q) /\ ToSet(q) = {Head(q)} \cup ToSet(Tail(q))
           /\ Len(q) \in Nat /\ DOMAIN q = 1 .. Len(q) /\ 1 \in DOMAIN q /\ q[1] = Head(q)
           /\ DOMAIN Tail(q) = 1 .. Len(q) - 1
           /\ \A i \in DOMAIN Tail(q) : Tail(q)[i] = q[i + 1]
<1> DEFINE S == ToSet(q)
           t == Tail(q)
           h == Head(q)
<1>1. q \in Seq(S)
  BY DEF IsSeq
<1> HIDE DEF S
<1>2. /\ Len(q) \in Nat /\ DOMAIN q = 1 .. Len(q) /\ 1 \in DOMAIN q /\ h = q[1]
      /\ DOMAIN t = 1 .. Len(q) - 1 /\ \A i \in DOMAIN t : t[i] = q[i + 1]
  BY <1>1
<1> HIDE DEF t, h
<1>3. h \in ToSet(q) /\ ToSet(t) \subseteq ToSet(q)
  <2>1. \A i \in DOMAIN t : i + 1 \in DOMAIN q
    BY <1>2
  <2> QED BY <1>2, <2>1 DEF ToSet
<1>4. ASSUME NEW x \in ToSet(q) PROVE x = h \/ x \in ToSet(t)
  <2>1. PICK i \in DOMAIN q : x = q[i]
    BY DEF ToSet
  <2>2. CASE i = 1
    BY <1>2, <2>1, <2>2
  <2>3. CASE i # 1
    <3>1. i - 1 \in DOMAIN t /\ (i - 1) + 1 = i
      BY <1>2, <2>3
    <3>2. t[i - 1] = q[i]
      BY <1>2, <3>1
    <3> QED BY <2>1, <3>1, <3>2 DEF ToSet
  <2> QED BY <2>2, <2>3
<1> QED BY <1>2, <1>3, <1>4 DEF t, h

(* Of a call's work it is what the call queued first.                       *)
Taken(s, work) ==
    /\ work \in ToSet(queue[s])
    /\ \A t \in Streams :
          /\ ToSet(queue'[t]) \subseteq ToSet(queue[t])
          /\ \A w \in ToSet(queue[t]) : w \in ToSet(queue'[t]) \/ w = work
    /\ \A w \in ToSet(queue[s]) : w.id = work.id => Rank(work.op) <= Rank(w.op)
    /\ UNCHANGED <<call, guards, size, broken>>
    /\ Ordered'

(* The device takes the first work of a stream.                             *)
LEMMA WorkTaken ==
    ASSUME IInv, Ordered, NEW s \in Streams, Work(s), NEW work, work = Head(queue[s])
    PROVE  Taken(s, work)
<1>1. PICK q : q = queue[s]
  OBVIOUS
<1>2. PICK tail : tail = Tail(q)
  OBVIOUS
<1>3. /\ queue' = [queue EXCEPT ![s] = Tail(@)] /\ q # <<>>
      /\ UNCHANGED <<call, guards, size, broken>>
  BY <1>1 DEF Work
<1>4. DOMAIN queue = Streams /\ IsSeq(q)
  BY <1>1 DEF IInv, WorkPlaced
<1>5. queue'[s] = tail /\ \A t \in Streams : t # s => queue'[t] = queue[t]
  BY <1>1, <1>2, <1>3, <1>4
<1>6. /\ work \in ToSet(q) /\ ToSet(q) = {work} \cup ToSet(tail)
      /\ Len(q) \in Nat /\ DOMAIN q = 1 .. Len(q) /\ 1 \in DOMAIN q /\ q[1] = work
      /\ DOMAIN tail = 1 .. Len(q) - 1 /\ \A i \in DOMAIN tail : tail[i] = q[i + 1]
  BY <1>1, <1>2, <1>3, <1>4, FirstOf
<1>7. ASSUME NEW t \in Streams
      PROVE  /\ ToSet(queue'[t]) \subseteq ToSet(queue[t])
             /\ \A w \in ToSet(queue[t]) : w \in ToSet(queue'[t]) \/ w = work
  BY <1>1, <1>5, <1>6
<1>8. ASSUME NEW w \in ToSet(q), w.id = work.id PROVE Rank(work.op) <= Rank(w.op)
  <2>1. PICK j \in DOMAIN q : w = q[j]
    BY DEF ToSet
  <2>2. CASE j = 1
    BY <1>6, <2>1, <2>2 DEF Rank
  <2>3. CASE j # 1
    <3>1. 1 < j
      BY <1>6, <2>3
    <3> QED BY <1>1, <1>6, <1>8, <2>1, <3>1 DEF Ordered
  <2> QED BY <2>2, <2>3
<1>9. Ordered'
  <2> SUFFICES ASSUME NEW t \in Streams, NEW i \in DOMAIN queue'[t], NEW j \in DOMAIN queue'[t],
                      i < j, queue'[t][i].id = queue'[t][j].id
               PROVE  Rank(queue'[t][i].op) <= Rank(queue'[t][j].op)
    BY DEF Ordered, Rank
  <2>1. CASE t # s
    BY <1>5, <2>1 DEF Ordered
  <2>2. CASE t = s
    <3>1. i \in DOMAIN tail /\ j \in DOMAIN tail /\ queue'[t] = tail
      BY <1>5, <2>2
    <3>2. i + 1 \in DOMAIN q /\ j + 1 \in DOMAIN q /\ i + 1 < j + 1
      BY <1>6, <3>1
    <3>3. tail[i] = q[i + 1] /\ tail[j] = q[j + 1]
      BY <1>6, <3>1
    <3>4. q[i + 1].id = q[j + 1].id
      BY <3>1, <3>3
    <3>5. Rank(q[i + 1].op) <= Rank(q[j + 1].op)
      BY <1>1, <3>2, <3>4 DEF Ordered
    <3> QED BY <3>1, <3>3, <3>5
  <2> QED BY <2>1, <2>2
<1> QED BY <1>1, <1>3, <1>6, <1>7, <1>8, <1>9 DEF Taken

(* What any work leaves: the domains, and the results of others.            *)
LeavesOthers(work) ==
    /\ DOMAIN memory' = DOMAIN memory /\ DOMAIN results' = Ids
    /\ \A id \in Ids : /\ DOMAIN results'[id] = {"status", "holds"}
                       /\ results'[id].status = results[id].status
                       /\ DOMAIN results'[id].holds = DOMAIN results[id].holds
    /\ \A id \in Ids : id # work.id => SameHolds(id)

(* What is known of other calls stays when it is done.                      *)
LEMMA OthersData ==
    ASSUME IInv, BInv, DInv, NEW s \in Streams, NEW work, Taken(s, work), LeavesOthers(work)
    PROVE  /\ ResultsTyped' /\ Ordered' /\ ReturnsComputed'
           /\ \A g \in guards : g.id # work.id => Guarded(g)'
<1>1. /\ UNCHANGED <<call, guards, size, broken>> /\ Ordered' /\ work \in ToSet(queue[s])
      /\ \A t \in Streams :
           /\ ToSet(queue'[t]) \subseteq ToSet(queue[t])
           /\ \A w \in ToSet(queue[t]) : w \in ToSet(queue'[t]) \/ w = work
  BY DEF Taken
<1>2. ResultsTyped'
  <2>1. DOMAIN memory' = DOMAIN size'
    BY <1>1 DEF DInv, ResultsTyped, LeavesOthers
  <2>2. \A g \in guards' : g.id \in Ids /\ g.stream \in Streams /\ results'[g.id].status # "ok"
    BY <1>1 DEF DInv, ResultsTyped, LeavesOthers
  <2>3. Busy' => /\ results'[call'.id].status # "ok"
                 /\ DOMAIN results'[call'.id].holds
                        = {call'.outputs[i].name : i \in DOMAIN call'.outputs}
    BY <1>1 DEF DInv, ResultsTyped, LeavesOthers, Busy, BInv, CallAsked
  <2> QED BY <2>1, <2>2, <2>3 DEF ResultsTyped, LeavesOthers
<1>3. work.id \in Ids => results[work.id].status # "ok"
  BY <1>1, WorkIsOf DEF DInv, ResultsTyped
<1>4. ReturnsComputed'
  <2>1. ASSUME NEW id \in Ids, results'[id].status = "ok", NEW n \in DOMAIN results'[id].holds
        PROVE  results'[id].holds[n] = OutputOf(id, n)
    <3>1. id # work.id /\ results[id].status = "ok"
      BY <1>3, <2>1 DEF LeavesOthers
    <3>2. SameHolds(id)
      BY <3>1 DEF LeavesOthers
    <3> QED BY <2>1, <3>1, <3>2 DEF SameHolds, DInv, ReturnsComputed
  <2> QED BY <2>1 DEF ReturnsComputed, OutputOf
<1>5. ASSUME NEW g \in guards, g.id # work.id PROVE Guarded(g)'
  <2>1. Guarded(g) /\ g.stream \in Streams /\ g.id \in Ids
    BY DEF DInv, ResultsTyped
  <2>2. SameHolds(g.id)
    BY <1>5, <2>1 DEF LeavesOthers
  <2>3. Infering(g.stream, g.id) => Infering(g.stream, g.id)'
    <3>1. ASSUME NEW w \in ToSet(queue[g.stream]), w.op = "infer", w.id = g.id
          PROVE  Infering(g.stream, g.id)'
      <4>1. w \in ToSet(queue'[g.stream])
        BY <1>1, <1>5, <2>1, <3>1
      <4> QED BY <3>1, <4>1 DEF Infering
    <3> QED BY <3>1 DEF Infering
  <2>4. ~broken' => Infering(g.stream, g.id)' \/ HoldsOutputs(g.id)'
    BY <1>1, <2>1, <2>2, <2>3, HoldsSame DEF Guarded
  <2>5. DOMAIN results'[g.id].holds \subseteq Named("output")'
    BY <2>1, <2>2 DEF SameHolds, Guarded, Named, Tensors
  <2>6. ASSUME NEW w \in ToSet(queue'[g.stream]), w.id = g.id
        PROVE  /\ w.op = "infer"
               /\ \A n \in DOMAIN Tensors : w.address[n].of = "caller" /\ w.address[n].name = n
    <3>1. w \in ToSet(queue[g.stream])
      BY <1>1, <2>1, <2>6
    <3> QED BY <2>1, <2>6, <3>1 DEF Guarded
  <2> QED BY <2>4, <2>5, <2>6 DEF Guarded, Tensors
<1> QED BY <1>1, <1>2, <1>4, <1>5

(* An inference writes only the result of its own call.                     *)
LEMMA InfersLeaves ==
    ASSUME IInv, BInv, DInv, NEW s \in Streams, NEW work \in ToSet(queue[s]), work.op = "infer",
           Infers(work)
    PROVE  LeavesOthers(work)
<1>1. DOMAIN memory' = DOMAIN memory
  BY DEF Infers
<1>2. results' = [id \in Ids |-> [results[id] EXCEPT !.holds =
            [n \in DOMAIN @ |-> IF n \in Named("output") /\ work.address[n].of = "caller"
                                                         /\ work.address[n].id = id
                                THEN Computed(work, n) ELSE @[n]]]]
  BY DEF Infers
<1>3. \A id \in Ids : DOMAIN results[id] = {"status", "holds"}
  BY DEF DInv, ResultsTyped
<1>4. DOMAIN results' = Ids
  BY <1>2
<1>5. ASSUME NEW id \in Ids
      PROVE  /\ DOMAIN results'[id] = {"status", "holds"}
             /\ results'[id].status = results[id].status
             /\ results'[id].holds =
                    [n \in DOMAIN results[id].holds |->
                        IF n \in Named("output") /\ work.address[n].of = "caller"
                                                 /\ work.address[n].id = id
                        THEN Computed(work, n) ELSE results[id].holds[n]]
  <2>1. PICK holds : holds = [n \in DOMAIN results[id].holds |->
                        IF n \in Named("output") /\ work.address[n].of = "caller"
                                                 /\ work.address[n].id = id
                        THEN Computed(work, n) ELSE results[id].holds[n]]
    OBVIOUS
  <2>2. results'[id] = [results[id] EXCEPT !.holds = holds]
    BY <1>2, <2>1
  <2>3. DOMAIN results[id] = {"status", "holds"}
    BY <1>3
  <2> QED BY <2>1, <2>2, <2>3
<1>6. DOMAIN Tensors = DOMAIN Engine /\ Named("output") \subseteq DOMAIN Tensors
  BY DEF Tensors, Named
<1>7. \A n \in DOMAIN Tensors : work.address[n].of = "caller" => work.address[n].id = work.id
  <2>1. \E C, T : Uses(work, C, T)
    BY DEF IInv, WorkPlaced, OfCall, OfGuard
  <2> QED BY <2>1 DEF Uses
<1>8. ASSUME NEW id \in Ids, id # work.id PROVE SameHolds(id)
  <2>1. ASSUME NEW n \in DOMAIN results[id].holds
        PROVE  results'[id].holds[n] = results[id].holds[n]
    <3>1. ~(/\ n \in Named("output") /\ work.address[n].of = "caller"
            /\ work.address[n].id = id)
      BY <1>6, <1>7, <1>8
    <3>2. results'[id].holds[n] =
              IF /\ n \in Named("output") /\ work.address[n].of = "caller"
                 /\ work.address[n].id = id
              THEN Computed(work, n) ELSE results[id].holds[n]
      BY <1>5
    <3> QED BY <3>1, <3>2
  <2>2. DOMAIN results'[id].holds = DOMAIN results[id].holds
    BY <1>5
  <2> QED BY <1>5, <2>1, <2>2 DEF SameHolds
<1>9. \A id \in Ids : DOMAIN results'[id].holds = DOMAIN results[id].holds
  BY <1>5
<1>10. \A id \in Ids : /\ DOMAIN results'[id] = {"status", "holds"}
                        /\ results'[id].status = results[id].status
  BY <1>5
<1> QED BY <1>1, <1>4, <1>8, <1>9, <1>10 DEF LeavesOthers

(* So does a copy of an output.                                             *)
LEMMA CopyLeaves ==
    ASSUME IInv, BInv, DInv, NEW work, work.id \in Ids, NEW x,
           results' = [results EXCEPT ![work.id].holds[work.name] = x], UNCHANGED memory
    PROVE  /\ LeavesOthers(work)
           /\ \A n \in DOMAIN results[work.id].holds :
                  results'[work.id].holds[n] = IF n = work.name THEN x ELSE results[work.id].holds[n]
<1>1. DOMAIN results = Ids /\ \A id \in Ids : DOMAIN results[id] = {"status", "holds"}
  BY DEF DInv, ResultsTyped
<1>2. PICK holds : holds = [results[work.id].holds EXCEPT ![work.name] = x]
  OBVIOUS
<1>3. PICK result : result = [results[work.id] EXCEPT !.holds = holds]
  OBVIOUS
<1>4. results' = [results EXCEPT ![work.id] = result]
  BY <1>2, <1>3
<1>5. /\ DOMAIN result = {"status", "holds"} /\ result.status = results[work.id].status
      /\ result.holds = holds
  BY <1>1, <1>3
<1>6. /\ DOMAIN holds = DOMAIN results[work.id].holds
      /\ \A n \in DOMAIN results[work.id].holds :
             holds[n] = IF n = work.name THEN x ELSE results[work.id].holds[n]
  BY <1>2
<1>7. /\ DOMAIN results' = Ids /\ results'[work.id] = result
      /\ \A id \in Ids : id # work.id => results'[id] = results[id]
  BY <1>1, <1>4
<1>8. \A id \in Ids : id # work.id => SameHolds(id)
  BY <1>7 DEF SameHolds
<1>9. ASSUME NEW id \in Ids
      PROVE  /\ DOMAIN results'[id] = {"status", "holds"}
             /\ results'[id].status = results[id].status
             /\ DOMAIN results'[id].holds = DOMAIN results[id].holds
  <2>1. CASE id = work.id
    BY <1>5, <1>6, <1>7, <2>1
  <2>2. CASE id # work.id
    BY <1>1, <1>7, <2>2
  <2> QED BY <2>1, <2>2
<1>10. LeavesOthers(work)
  BY <1>7, <1>8, <1>9 DEF LeavesOthers
<1> QED BY <1>5, <1>6, <1>7, <1>10

(* Work that is not of the call leaves what is known of the call.           *)
LEMMA OthersWork ==
    ASSUME IInv, BInv, DInv, Busy, NEW s \in Streams, NEW work, Taken(s, work),
           LeavesOthers(work), work.id # call.id, Remembers
    PROVE  Loaded' /\ Computing' /\ CopiedBack' /\ Concluded'
<1>1. /\ UNCHANGED <<call, guards, size, broken>>
      /\ \A t \in Streams :
           /\ ToSet(queue'[t]) \subseteq ToSet(queue[t])
           /\ \A w \in ToSet(queue[t]) : w \in ToSet(queue'[t]) \/ w = work
  BY DEF Taken
<1>2. call.stream \in Streams /\ call.id \in Ids
  BY DEF BInv, CallAsked
<1>3. SameHolds(call.id)
  BY <1>2 DEF LeavesOthers
<1>4. \A w \in ToSet(queue[call.stream]) : w.id = call.id => w \in ToSet(queue'[call.stream])
  BY <1>1, <1>2
<1>5. Loaded'
  <2> SUFFICES ASSUME ~broken, NEW i \in DOMAIN call.bound, call.bound[i].of = "buffer"
               PROVE  CopyingIn(i)' \/ Read(call.bound[i])' = InputOf(call.id, call.inputs[i].name)
    BY <1>1 DEF Loaded, InputOf
  <2>1. CopyingIn(i) \/ Read(call.bound[i]) = InputOf(call.id, call.inputs[i].name)
    BY DEF DInv, Loaded
  <2>2. CopyingIn(i) => CopyingIn(i)'
    BY <1>1, <1>4 DEF CopyingIn, Temporary
  <2>3. PICK a : a = call.bound[i]
    OBVIOUS
  <2>4. Read(a)' = Read(a)
    BY <2>3, ReadKept, BoundBuffers
  <2> QED BY <1>1, <2>1, <2>2, <2>3, <2>4
<1>6. Computing'
  <2> SUFFICES ASSUME Launched
               PROVE  /\ Len(call.targets) = Len(call.outputs)
                      /\ ~broken =>
                            \/ Infering(call.stream, call.id)'
                            \/ IF CopiesOut(call.kind)
                               THEN \A i \in DOMAIN call.targets :
                                        Read(call.targets[i])' = OutputOf(call.id, call.outputs[i].name)
                               ELSE HoldsOutputs(call.id)'
    BY <1>1 DEF Computing, Launched, OutputOf
  <2>1. Computing
    BY DEF DInv
  <2>2. Infering(call.stream, call.id) => Infering(call.stream, call.id)'
    BY <1>1, <1>4 DEF Infering
  <2>3. ASSUME ~broken, ~Infering(call.stream, call.id), CopiesOut(call.kind),
               NEW i \in DOMAIN call.targets
        PROVE  Read(call.targets[i])' = OutputOf(call.id, call.outputs[i].name)
    <3>1. Read(call.targets[i]) = OutputOf(call.id, call.outputs[i].name)
      BY <2>1, <2>3 DEF Computing
    <3>2. PICK a : a = call.targets[i]
      OBVIOUS
    <3>3. Read(a)' = Read(a)
      BY <3>2, ReadKept, BoundBuffers
    <3> QED BY <1>1, <3>1, <3>2, <3>3
  <2>4. ASSUME ~broken, ~Infering(call.stream, call.id), ~CopiesOut(call.kind)
        PROVE  HoldsOutputs(call.id)'
    <3>1. HoldsOutputs(call.id)
      BY <2>1, <2>4 DEF Computing
    <3>2. PICK id : id = call.id
      OBVIOUS
    <3>3. HoldsOutputs(id)'
      BY <1>3, <3>1, <3>2, HoldsSame
    <3> QED BY <1>1, <3>2, <3>3
  <2> QED BY <2>1, <2>2, <2>3, <2>4 DEF Computing
<1>7. CopiedBack'
  <2>1. ASSUME call.step \in {"copy_out", "synchronize"}, CopiesOut(call.kind), ~broken,
               NEW i \in 1 .. call.copied
        PROVE  CopyingOut(i)' \/ results'[call.id].holds[call.outputs[i].name]
                                     = OutputOf(call.id, call.outputs[i].name)
    <3>1. CopyingOut(i) \/ results[call.id].holds[call.outputs[i].name]
                               = OutputOf(call.id, call.outputs[i].name)
      BY <2>1 DEF DInv, CopiedBack
    <3>2. CopyingOut(i) => CopyingOut(i)'
      BY <1>1, <1>4 DEF CopyingOut
    <3>3. call.outputs[i].name \in DOMAIN results[call.id].holds
      <4>1. DOMAIN results[call.id].holds = {call.outputs[j].name : j \in DOMAIN call.outputs}
        BY DEF DInv, ResultsTyped
      <4>2. i \in DOMAIN call.outputs
        <5>1. /\ IsSeq(call.outputs) /\ call.copied \in Nat
              /\ call.step = "copy_out" => call.copied <= Len(call.outputs)
              /\ call.step = "synchronize" => call.copied = Len(call.outputs)
          BY <2>1 DEF BInv, CallAsked, IInv, CallTyped, DInv, CopiedBack
        <5>2. Len(call.outputs) \in Nat /\ DOMAIN call.outputs = 1 .. Len(call.outputs)
          BY <5>1 DEF IsSeq
        <5>3. call.copied <= Len(call.outputs)
          BY <2>1, <5>1, <5>2
        <5> QED BY <5>1, <5>2, <5>3
      <4> QED BY <4>1, <4>2
    <3> QED BY <1>3, <3>1, <3>2, <3>3 DEF SameHolds
  <2>2. CopiedBack
    BY DEF DInv
  <2> QED BY <1>1, <2>1, <2>2 DEF CopiedBack, OutputOf, Starting, Early, Busy
<1>8. Concluded'
  <2> SUFFICES ASSUME call.step = "return", call.ok = TRUE, call.kind # "enqueue"
               PROVE  HoldsOutputs(call.id)' /\ NoWorkOf(call.id)'
    BY <1>1 DEF Concluded
  <2>1. HoldsOutputs(call.id) /\ NoWorkOf(call.id)
    BY DEF DInv, Concluded
  <2>2. PICK id : id = call.id
    OBVIOUS
  <2>3. HoldsOutputs(id)'
    BY <1>3, <2>1, <2>2, HoldsSame
  <2> QED BY <1>1, <2>1, <2>2, <2>3 DEF NoWorkOf
<1> QED BY <1>5, <1>6, <1>7, <1>8

(* What an inference writes for its own call.                               *)
LEMMA InfersHolds ==
    ASSUME IInv, BInv, DInv, NEW work, Infers(work), work.id \in Ids
    PROVE  \A n \in DOMAIN results[work.id].holds :
               results'[work.id].holds[n] =
                   IF /\ n \in Named("output") /\ work.address[n].of = "caller"
                      /\ work.address[n].id = work.id
                   THEN Computed(work, n) ELSE results[work.id].holds[n]
<1>1. PICK id : id = work.id
  OBVIOUS
<1>2. results' = [i \in Ids |-> [results[i] EXCEPT !.holds =
            [n \in DOMAIN @ |-> IF n \in Named("output") /\ work.address[n].of = "caller"
                                                         /\ work.address[n].id = i
                                THEN Computed(work, n) ELSE @[n]]]]
  BY DEF Infers
<1>3. PICK holds : holds = [n \in DOMAIN results[id].holds |->
                        IF n \in Named("output") /\ work.address[n].of = "caller"
                                                 /\ work.address[n].id = id
                        THEN Computed(work, n) ELSE results[id].holds[n]]
  OBVIOUS
<1>4. results'[id] = [results[id] EXCEPT !.holds = holds]
  BY <1>1, <1>2, <1>3
<1>5. DOMAIN results[id] = {"status", "holds"}
  BY <1>1 DEF DInv, ResultsTyped
<1>6. results'[id].holds = holds
  BY <1>4, <1>5
<1> QED BY <1>1, <1>3, <1>6

(* An inference writes the buffers whose address some output has.           *)
LEMMA InfersWrites ==
    ASSUME NEW work, Infers(work), NEW b \in DOMAIN memory
    PROVE  /\ (\A m \in Named("output") : work.address[m] # Temporary(b)) => memory'[b] = memory[b]
           /\ \A n \in Named("output") :
                 /\ work.address[n] = Temporary(b)
                 /\ \A m \in Named("output") : work.address[m] = Temporary(b) => m = n
                 => memory'[b] = Computed(work, n)
<1> DEFINE N == {m \in Named("output") : b \in {c \in DOMAIN memory : work.address[m] = Temporary(c)}}
<1>1. memory'[b] = IF N = {} THEN memory[b] ELSE Computed(work, CHOOSE m \in N : TRUE)
  BY DEF Infers
<1>2. \A m : m \in N <=> m \in Named("output") /\ work.address[m] = Temporary(b)
  OBVIOUS
<1> HIDE DEF N
<1>3. ASSUME \A m \in Named("output") : work.address[m] # Temporary(b)
      PROVE  memory'[b] = memory[b]
  BY <1>1, <1>2, <1>3
<1>4. ASSUME NEW n \in Named("output"), work.address[n] = Temporary(b),
             \A m \in Named("output") : work.address[m] = Temporary(b) => m = n
      PROVE  memory'[b] = Computed(work, n)
  <2>1. n \in N /\ \A m \in N : m = n
    BY <1>2, <1>4
  <2>2. (CHOOSE m \in N : TRUE) = n
    BY <2>1
  <2> QED BY <1>1, <2>1, <2>2
<1> QED BY <1>3, <1>4

(* The inference of a call whose guard is held.                             *)
LEMMA GuardInfers ==
    ASSUME IInv, BInv, DInv, NEW s \in Streams, NEW work, Taken(s, work), Infers(work),
           work.op = "infer", NEW g \in guards, work.id = g.id
    PROVE  DInv'
<1>1. /\ UNCHANGED <<call, guards, size, broken>> /\ work \in ToSet(queue[s])
  BY DEF Taken
<1>2. LeavesOthers(work)
  BY <1>1, InfersLeaves
<1>3. /\ ResultsTyped' /\ Ordered' /\ ReturnsComputed'
      /\ \A h \in guards : h.id # work.id => Guarded(h)'
  BY <1>2, OthersData
<1>4. s = g.stream /\ \A n \in DOMAIN Tensors : /\ work.address[n].of = "caller"
                                                /\ work.address[n].id = g.id
  BY <1>1, GuardsWork
<1>5. Guarded(g) /\ g.id \in Ids /\ \A h \in guards : h.id = g.id => h = g
  BY DEF DInv, ResultsTyped, IInv, Placed
<1>6. \A n \in DOMAIN Tensors : work.address[n].name = n
  BY <1>1, <1>4, <1>5 DEF Guarded
<1>7. /\ Named("output") \subseteq DOMAIN Tensors /\ Named("input") \subseteq DOMAIN Tensors
  BY DEF Named
<1>8. \A name : Computed(work, name) = OutputOf(g.id, name)
  <2>1. ASSUME NEW n \in Named("input") PROVE Read(work.address[n]) = InputOf(work.id, n)
    <3>1. /\ work.address[n].of = "caller" /\ work.address[n].id = work.id
          /\ work.address[n].name = n
      BY <1>4, <1>6, <1>7
    <3> QED BY <3>1 DEF Read
  <2> QED BY <2>1 DEF Computed
<1>9. HoldsOutputs(g.id)'
  <2>1. ASSUME NEW n \in DOMAIN results[g.id].holds
        PROVE  results'[g.id].holds[n] = OutputOf(g.id, n)
    <3>1. n \in Named("output") /\ work.address[n].of = "caller" /\ work.address[n].id = work.id
      BY <1>4, <1>5, <1>7 DEF Guarded
    <3>2. work.id \in Ids
      BY <1>5
    <3>3. results'[work.id].holds[n] = Computed(work, n)
      BY <3>1, <3>2, InfersHolds
    <3> QED BY <1>8, <3>3
  <2>2. DOMAIN results'[g.id].holds = DOMAIN results[g.id].holds
    BY <1>2, <1>5 DEF LeavesOthers
  <2> QED BY <2>1, <2>2 DEF HoldsOutputs, OutputOf
<1>10. Guarded(g)'
  <2>1. DOMAIN results'[g.id].holds \subseteq Named("output")'
    BY <1>2, <1>5 DEF LeavesOthers, Guarded, Named, Tensors
  <2>2. ASSUME NEW w \in ToSet(queue'[g.stream]), w.id = g.id
        PROVE  /\ w.op = "infer"
               /\ \A n \in DOMAIN Tensors : w.address[n].of = "caller" /\ w.address[n].name = n
    <3>1. w \in ToSet(queue[g.stream])
      BY <1>4, <2>2 DEF Taken
    <3> QED BY <1>5, <2>2, <3>1 DEF Guarded
  <2> QED BY <1>9, <2>1, <2>2 DEF Guarded, Tensors
<1>11. (\A h \in guards : Guarded(h))'
  <2>1. \A h \in guards : Guarded(h)'
    BY <1>3, <1>5, <1>10
  <2> QED BY <1>1, <2>1
<1>12. ASSUME Busy PROVE Loaded' /\ Computing' /\ CopiedBack' /\ Concluded'
  <2>1. Remembers
    <3>1. ASSUME NEW b \in DOMAIN memory PROVE memory'[b] = memory[b]
      <4>1. \A m \in Named("output") : work.address[m] # Temporary(b)
        BY <1>4, <1>7 DEF Temporary
      <4> QED BY <4>1, InfersWrites
    <3>2. call.temps \subseteq DOMAIN memory /\ DOMAIN memory' = DOMAIN memory
      BY <1>2, <1>12 DEF LeavesOthers, IInv, CallTyped, DInv, ResultsTyped
    <3> QED BY <3>1, <3>2 DEF Remembers
  <2>2. work.id # call.id
    BY <1>12 DEF IInv, Placed
  <2> QED BY <1>2, <1>12, <2>1, <2>2, OthersWork
<1>13. ~Busy => DInv'
  BY <1>1, <1>3, <1>11, IdleData DEF Busy
<1> QED BY <1>3, <1>11, <1>12, <1>13 DEF DInv

-----------------------------------------------------------------------------
(* The work of the call.                                                    *)

(* The address of an input is a buffer of the call, or the caller's memory. *)
LEMMA BoundIs ==
    ASSUME BInv, Busy, NEW i \in DOMAIN call.bound
    PROVE  /\ call.inputs[i].name \in Named("input")
           /\ call.bound[i].of = "buffer" => \E m \in call.temps : call.bound[i] = Temporary(m)
           /\ call.bound[i].of # "buffer" => call.bound[i] = CallerMemory(call.id, call.inputs[i])
<1>1. /\ Sized(call.inputs[i], "input")
      /\ PlacedAt(call.bound[i], call.inputs[i], call.inputs[i].at = "staged")
  BY DEF BInv, CallBound
<1>2. \A m : Temporary(m).of = "buffer"
  BY DEF Temporary
<1>3. CallerMemory(call.id, call.inputs[i]).of = "caller"
  BY DEF CallerMemory
<1> QED BY <1>1, <1>2, <1>3 DEF PlacedAt, Sized, Fits, Named

(* So is that of an output.                                                 *)
LEMMA TargetIs ==
    ASSUME BInv, Busy, NEW i \in DOMAIN call.targets
    PROVE  /\ call.outputs[i].name \in Named("output")
           /\ CopiesOut(call.kind) => \E m \in call.temps : call.targets[i] = Temporary(m)
           /\ ~CopiesOut(call.kind) => call.targets[i] = CallerMemory(call.id, call.outputs[i])
<1>1. /\ Sized(call.outputs[i], "output")
      /\ PlacedAt(call.targets[i], call.outputs[i], CopiesOut(call.kind))
  BY DEF BInv, CallBound
<1> QED BY <1>1 DEF PlacedAt, Sized, Fits, Named

(* An address of an inference is of the call's input or output of its name. *)
LEMMA InputAddress ==
    ASSUME BInv, Busy, NEW n \in Named("input"), NEW a, a # NullAddress, AddressOf(n, a)
    PROVE  \E i \in DOMAIN call.bound : call.inputs[i].name = n /\ a = call.bound[i]
<1>1. n \notin Named("output")
  BY DEF Named
<1> QED BY <1>1, TargetIs DEF AddressOf

(* Likewise for outputs.                                                    *)
LEMMA OutputAddress ==
    ASSUME BInv, Busy, NEW n \in Named("output"), NEW a, a # NullAddress, AddressOf(n, a)
    PROVE  \E i \in DOMAIN call.targets : call.outputs[i].name = n /\ a = call.targets[i]
<1>1. n \notin Named("input")
  BY DEF Named
<1> QED BY <1>1, BoundIs DEF AddressOf

(* When work of the call is done, what remains to show is about the call.   *)
LEMMA CallsData ==
    ASSUME IInv, BInv, DInv, Busy, NEW s \in Streams, NEW work, Taken(s, work),
           LeavesOthers(work), work.id = call.id, Loaded', Computing', CopiedBack'
    PROVE  DInv'
<1>1. /\ UNCHANGED <<call, guards>> /\ work \in ToSet(queue[s])
  BY DEF Taken
<1>2. /\ ResultsTyped' /\ Ordered' /\ ReturnsComputed'
      /\ \A h \in guards : h.id # work.id => Guarded(h)'
  BY OthersData
<1>3. (\A h \in guards : Guarded(h))'
  <2>1. \A h \in guards : Guarded(h)'
    BY <1>2 DEF IInv, Placed
  <2> QED BY <1>1, <2>1
<1>4. Concluded'
  <2>1. ~NoWorkOf(call.id)
    BY <1>1 DEF NoWorkOf
  <2>2. ~(call.step = "return" /\ call.ok = TRUE /\ call.kind # "enqueue")
    BY <2>1 DEF DInv, Concluded
  <2> QED BY <1>1, <2>2 DEF Concluded
<1> QED BY <1>2, <1>3, <1>4 DEF DInv

(* An input is copied to its buffer, and to no other.                       *)
LEMMA InputCopied ==
    ASSUME IInv, BInv, DInv, Busy, NEW s \in Streams, NEW work, Taken(s, work),
           work.id = call.id, work.op = "copy_in",
           memory' = [memory EXCEPT ![work.buffer] = InputOf(work.id, work.name)],
           UNCHANGED results
    PROVE  DInv'
<1>1. /\ UNCHANGED <<call, guards, size, broken>> /\ work \in ToSet(queue[s])
      /\ \A t \in Streams :
           /\ ToSet(queue'[t]) \subseteq ToSet(queue[t])
           /\ \A w \in ToSet(queue[t]) : w \in ToSet(queue'[t]) \/ w = work
  BY DEF Taken
<1>2. s = call.stream /\ WorkOf(work)
  BY <1>1, CallsWork
<1>3. PICK k \in DOMAIN call.bound : /\ call.inputs[k].name = work.name
                                     /\ call.bound[k] = Temporary(work.buffer)
  BY <1>2 DEF WorkOf
<1>4. \A m, l : Temporary(m) = Temporary(l) => m = l
  <2>1. \A m : Temporary(m).buffer = m
    BY DEF Temporary
  <2> QED BY <2>1
<1>5. \A m : Temporary(m).of = "buffer" /\ Temporary(m).buffer = m
  BY DEF Temporary
<1>6. call.temps \subseteq DOMAIN memory /\ DOMAIN memory' = DOMAIN memory
  BY DEF IInv, CallTyped, DInv, ResultsTyped
<1>7. /\ \A m \in call.temps : m # work.buffer => memory'[m] = memory[m]
      /\ work.buffer \in DOMAIN memory => memory'[work.buffer] = InputOf(work.id, work.name)
  BY <1>6
<1>8. work.buffer \in call.temps
  BY <1>3, <1>5, BoundBuffers
<1>9. ASSUME NEW a, NEW m \in call.temps, a = Temporary(m), m # work.buffer
      PROVE  Read(a)' = Read(a)
  BY <1>5, <1>6, <1>7, <1>9 DEF Read
<1>10. LeavesOthers(work)
  BY <1>6 DEF LeavesOthers, SameHolds, DInv, ResultsTyped
<1>11. Loaded'
  <2> SUFFICES ASSUME ~broken, NEW i \in DOMAIN call.bound, call.bound[i].of = "buffer"
               PROVE  CopyingIn(i)' \/ Read(call.bound[i])' = InputOf(call.id, call.inputs[i].name)
    BY <1>1 DEF Loaded, InputOf
  <2>1. PICK a : a = call.bound[i]
    OBVIOUS
  <2>2. CASE i = k
    <3>1. a = Temporary(work.buffer)
      BY <1>3, <2>1, <2>2
    <3>2. Read(a)' = InputOf(work.id, work.name)
      BY <1>5, <1>6, <1>7, <1>8, <3>1 DEF Read
    <3> QED BY <1>1, <1>3, <2>1, <2>2, <3>2
  <2>3. CASE i # k
    <3>1. PICK m \in call.temps : a = Temporary(m)
      BY <2>1, BoundIs
    <3>2. m # work.buffer
      BY <1>3, <2>1, <2>3, <3>1 DEF BInv, Apart
    <3>3. Read(a)' = Read(a)
      BY <1>9, <3>1, <3>2
    <3>4. CopyingIn(i) => CopyingIn(i)'
      <4>1. ASSUME NEW w \in ToSet(queue[call.stream]), w.op = "copy_in", w.id = call.id,
                   call.bound[i] = Temporary(w.buffer)
            PROVE  CopyingIn(i)'
        <5>1. w # work
          BY <1>4, <2>1, <3>1, <3>2, <4>1
        <5>2. w \in ToSet(queue'[call.stream])
          BY <1>1, <1>2, <4>1, <5>1
        <5> QED BY <1>1, <4>1, <5>2 DEF CopyingIn, Temporary
      <4> QED BY <4>1 DEF CopyingIn
    <3>5. CopyingIn(i) \/ Read(call.bound[i]) = InputOf(call.id, call.inputs[i].name)
      BY DEF DInv, Loaded
    <3> QED BY <1>1, <2>1, <3>3, <3>4, <3>5
  <2> QED BY <2>2, <2>3
<1>12. Computing'
  <2> SUFFICES ASSUME Launched
               PROVE  /\ Len(call.targets) = Len(call.outputs)
                      /\ ~broken =>
                            \/ Infering(call.stream, call.id)'
                            \/ IF CopiesOut(call.kind)
                               THEN \A i \in DOMAIN call.targets :
                                        Read(call.targets[i])' = OutputOf(call.id, call.outputs[i].name)
                               ELSE HoldsOutputs(call.id)'
    BY <1>1 DEF Computing, Launched, OutputOf
  <2>1. Computing
    BY DEF DInv
  <2>2. Infering(call.stream, call.id) => Infering(call.stream, call.id)'
    <3>1. ASSUME NEW w \in ToSet(queue[call.stream]), w.op = "infer", w.id = call.id
          PROVE  w \in ToSet(queue'[call.stream])
      BY <1>1, <1>2, <3>1
    <3> QED BY <1>1, <3>1 DEF Infering
  <2>3. ASSUME ~broken, ~Infering(call.stream, call.id), CopiesOut(call.kind),
               NEW i \in DOMAIN call.targets
        PROVE  Read(call.targets[i])' = OutputOf(call.id, call.outputs[i].name)
    <3>1. Read(call.targets[i]) = OutputOf(call.id, call.outputs[i].name)
      BY <2>1, <2>3 DEF Computing
    <3>2. PICK a : a = call.targets[i]
      OBVIOUS
    <3>3. PICK m \in call.temps : a = Temporary(m)
      BY <2>3, <3>2, TargetIs
    <3>4. m # work.buffer
      <4>1. call.bound[k].of = "buffer"
        BY <1>3, <1>5
      <4>2. call.bound[k] # call.targets[i]
        BY <2>3, <4>1 DEF BInv, Apart
      <4> QED BY <1>3, <3>2, <3>3, <4>2
    <3>5. Read(a)' = Read(a)
      BY <1>9, <3>3, <3>4
    <3> QED BY <1>1, <3>1, <3>2, <3>5
  <2>4. HoldsOutputs(call.id) => HoldsOutputs(call.id)'
    BY <1>1 DEF HoldsOutputs, OutputOf
  <2> QED BY <2>1, <2>2, <2>3, <2>4 DEF Computing
<1>13. CopiedBack'
  <2>1. ASSUME NEW i PROVE CopyingOut(i) => CopyingOut(i)'
    <3>1. ASSUME NEW w \in ToSet(queue[call.stream]), w.op = "copy_out", w.id = call.id
          PROVE  w \in ToSet(queue'[call.stream])
      BY <1>1, <1>2, <3>1
    <3> QED BY <1>1, <3>1 DEF CopyingOut
  <2>2. CopiedBack
    BY DEF DInv
  <2>3. ASSUME call.step \in {"copy_out", "synchronize"}, CopiesOut(call.kind), ~broken,
               NEW i \in 1 .. call.copied
        PROVE  CopyingOut(i)' \/ results[call.id].holds[call.outputs[i].name]
                                     = OutputOf(call.id, call.outputs[i].name)
    <3>1. CopyingOut(i) \/ results[call.id].holds[call.outputs[i].name]
                               = OutputOf(call.id, call.outputs[i].name)
      BY <2>2, <2>3 DEF CopiedBack
    <3> QED BY <2>1, <3>1
  <2> QED BY <1>1, <2>2, <2>3 DEF CopiedBack, OutputOf, Starting, Early, Busy
<1> QED BY <1>10, <1>11, <1>12, <1>13, CallsData

(* An output of the call is copied to the caller's memory.                  *)
LEMMA OutputCopied ==
    ASSUME IInv, BInv, DInv, Busy, NEW s \in Streams, NEW work, Taken(s, work),
           work.id = call.id, work.op = "copy_out",
           results' = [results EXCEPT ![work.id].holds[work.name] = Read(Temporary(work.buffer))],
           UNCHANGED memory
    PROVE  DInv'
<1>1. /\ UNCHANGED <<call, guards, size, broken>> /\ work \in ToSet(queue[s])
      /\ \A t \in Streams :
           /\ ToSet(queue'[t]) \subseteq ToSet(queue[t])
           /\ \A w \in ToSet(queue[t]) : w \in ToSet(queue'[t]) \/ w = work
      /\ \A w \in ToSet(queue[s]) : w.id = work.id => Rank(work.op) <= Rank(w.op)
  BY DEF Taken
<1>2. s = call.stream /\ WorkOf(work)
  BY <1>1, CallsWork
<1>3. PICK k \in DOMAIN call.targets : /\ k <= call.copied
                                       /\ call.outputs[k].name = work.name
                                       /\ call.targets[k] = Temporary(work.buffer)
  BY <1>2 DEF WorkOf
<1>4. call.step \notin Starting
  BY <1>2 DEF WorkOf
<1>5. CopiesOut(call.kind)
  <2>1. Temporary(work.buffer).of # CallerMemory(call.id, call.outputs[k]).of
    BY DEF Temporary, CallerMemory
  <2> QED BY <1>3, <2>1, TargetIs
<1>6. work.id \in Ids
  BY DEF BInv, CallAsked
<1>7. PICK x : x = Read(Temporary(work.buffer))
  OBVIOUS
<1>8. /\ LeavesOthers(work)
      /\ \A n \in DOMAIN results[work.id].holds :
             results'[work.id].holds[n] = IF n = work.name THEN x ELSE results[work.id].holds[n]
  <2>1. results' = [results EXCEPT ![work.id].holds[work.name] = x]
    BY <1>7
  <2> QED BY <1>6, <2>1, CopyLeaves
<1>9. Remembers
  BY DEF Remembers, IInv, CallTyped, DInv, ResultsTyped
<1>10. ~ Infering(call.stream, call.id)
  <2>1. ASSUME NEW w \in ToSet(queue[s]), w.op = "infer", w.id = work.id
        PROVE  FALSE
    <3>1. Rank(work.op) <= Rank(w.op)
      BY <1>1, <2>1
    <3>2. Rank(work.op) = 2 /\ Rank(w.op) = 1
      BY <2>1 DEF Rank
    <3> QED BY <3>1, <3>2
  <2> QED BY <1>2, <2>1 DEF Infering
<1>11. Loaded'
  <2> SUFFICES ASSUME ~broken, NEW i \in DOMAIN call.bound, call.bound[i].of = "buffer"
               PROVE  CopyingIn(i)' \/ Read(call.bound[i])' = InputOf(call.id, call.inputs[i].name)
    BY <1>1 DEF Loaded, InputOf
  <2>1. CopyingIn(i) \/ Read(call.bound[i]) = InputOf(call.id, call.inputs[i].name)
    BY DEF DInv, Loaded
  <2>2. CopyingIn(i) => CopyingIn(i)'
    <3>1. ASSUME NEW w \in ToSet(queue[call.stream]), w.op = "copy_in"
          PROVE  w \in ToSet(queue'[call.stream])
      BY <1>1, <1>2, <3>1
    <3> QED BY <1>1, <3>1 DEF CopyingIn, Temporary
  <2>3. PICK a : a = call.bound[i]
    OBVIOUS
  <2>4. Read(a)' = Read(a)
    BY <1>9, <2>3, ReadKept, BoundBuffers
  <2> QED BY <1>1, <2>1, <2>2, <2>3, <2>4
<1>12. ASSUME Launched, ~broken, NEW i \in DOMAIN call.targets
       PROVE  Read(call.targets[i]) = OutputOf(call.id, call.outputs[i].name)
  BY <1>5, <1>10, <1>12 DEF DInv, Computing
<1>13. Computing'
  <2> SUFFICES ASSUME Launched
               PROVE  /\ Len(call.targets) = Len(call.outputs)
                      /\ ~broken =>
                            \A i \in DOMAIN call.targets :
                                Read(call.targets[i])' = OutputOf(call.id, call.outputs[i].name)
    BY <1>1, <1>5 DEF Computing, Launched, OutputOf
  <2>1. Len(call.targets) = Len(call.outputs)
    BY DEF DInv, Computing
  <2>2. ASSUME ~broken, NEW i \in DOMAIN call.targets
        PROVE  Read(call.targets[i])' = OutputOf(call.id, call.outputs[i].name)
    <3>1. Read(call.targets[i]) = OutputOf(call.id, call.outputs[i].name)
      BY <1>12, <2>2
    <3>2. PICK a : a = call.targets[i]
      OBVIOUS
    <3>3. Read(a)' = Read(a)
      BY <1>9, <3>2, ReadKept, BoundBuffers
    <3> QED BY <1>1, <3>1, <3>2, <3>3
  <2> QED BY <2>1, <2>2
<1>14. CopiedBack'
  <2>1. ASSUME call.step \in {"copy_out", "synchronize"}, ~broken, NEW i \in 1 .. call.copied
        PROVE  CopyingOut(i)' \/ results'[call.id].holds[call.outputs[i].name]
                                     = OutputOf(call.id, call.outputs[i].name)
    <3>1. CopyingOut(i) \/ results[call.id].holds[call.outputs[i].name]
                               = OutputOf(call.id, call.outputs[i].name)
      BY <1>5, <2>1 DEF DInv, CopiedBack
    <3>2. call.outputs[i].name \in DOMAIN results[call.id].holds
      <4>1. DOMAIN results[call.id].holds = {call.outputs[j].name : j \in DOMAIN call.outputs}
        BY DEF DInv, ResultsTyped
      <4>2. i \in DOMAIN call.outputs
        <5>1. /\ IsSeq(call.outputs) /\ call.copied \in Nat
              /\ call.step = "copy_out" => call.copied <= Len(call.outputs)
              /\ call.step = "synchronize" => call.copied = Len(call.outputs)
          BY <1>5, <2>1 DEF BInv, CallAsked, IInv, CallTyped, DInv, CopiedBack
        <5>2. Len(call.outputs) \in Nat /\ DOMAIN call.outputs = 1 .. Len(call.outputs)
          BY <5>1 DEF IsSeq
        <5>3. call.copied <= Len(call.outputs)
          BY <2>1, <5>1, <5>2
        <5> QED BY <5>1, <5>2, <5>3
      <4> QED BY <4>1, <4>2
    <3>3. CASE call.outputs[i].name = work.name
      <4>1. x = OutputOf(call.id, work.name)
        <5>1. Read(call.targets[k]) = OutputOf(call.id, call.outputs[k].name)
          BY <1>12, <2>1 DEF Launched
        <5> QED BY <1>3, <1>7, <5>1
      <4> QED BY <1>8, <3>2, <3>3, <4>1
    <3>4. CASE call.outputs[i].name # work.name
      <4>1. results'[call.id].holds[call.outputs[i].name] = results[call.id].holds[call.outputs[i].name]
        BY <1>8, <3>2, <3>4
      <4>2. CopyingOut(i) => CopyingOut(i)'
        <5>1. ASSUME NEW w \in ToSet(queue[call.stream]), w.name = call.outputs[i].name
              PROVE  w \in ToSet(queue'[call.stream])
          BY <1>1, <1>2, <3>4, <5>1
        <5> QED BY <1>1, <5>1 DEF CopyingOut
      <4> QED BY <3>1, <4>1, <4>2
    <3> QED BY <3>3, <3>4
  <2>2. CopiedBack
    BY DEF DInv
  <2> QED BY <1>1, <2>1, <2>2 DEF CopiedBack, OutputOf, Starting, Early, Busy
<1> QED BY <1>8, <1>11, <1>13, <1>14, CallsData

(* An inference of the call reads the inputs, which were all copied.        *)
LEMMA InputsRead ==
    ASSUME IInv, BInv, DInv, Busy, NEW s \in Streams, NEW work, Taken(s, work),
           work.id = call.id, work.op = "infer", ~broken
    PROVE  \A name : Computed(work, name) = OutputOf(call.id, name)
<1>1. /\ work \in ToSet(queue[s])
      /\ \A w \in ToSet(queue[s]) : w.id = work.id => Rank(work.op) <= Rank(w.op)
  BY DEF Taken
<1>2. s = call.stream /\ WorkOf(work)
  BY <1>1, CallsWork
<1>3. \A n \in DOMAIN Tensors : work.address[n] # NullAddress /\ AddressOf(n, work.address[n])
  BY <1>2 DEF WorkOf
<1>4. ASSUME NEW i PROVE ~CopyingIn(i)
  <2>1. ASSUME NEW w \in ToSet(queue[s]), w.op = "copy_in", w.id = work.id
        PROVE  FALSE
    <3>1. Rank(work.op) <= Rank(w.op)
      BY <1>1, <2>1
    <3>2. Rank(work.op) = 1 /\ Rank(w.op) = 0
      BY <2>1 DEF Rank
    <3> QED BY <3>1, <3>2
  <2> QED BY <1>2, <2>1 DEF CopyingIn
<1>5. ASSUME NEW n \in Named("input") PROVE Read(work.address[n]) = InputOf(work.id, n)
  <2>1. n \in DOMAIN Tensors
    BY DEF Named
  <2>2. PICK a : a = work.address[n]
    OBVIOUS
  <2>3. a # NullAddress /\ AddressOf(n, a)
    BY <1>3, <2>1, <2>2
  <2>4. PICK i \in DOMAIN call.bound : call.inputs[i].name = n /\ a = call.bound[i]
    BY <2>3, InputAddress
  <2>5. CASE a.of = "buffer"
    <3>1. Read(call.bound[i]) = InputOf(call.id, call.inputs[i].name)
      BY <1>4, <2>4, <2>5 DEF DInv, Loaded
    <3> QED BY <2>2, <2>4, <3>1
  <2>6. CASE a.of # "buffer"
    <3>1. a = CallerMemory(call.id, call.inputs[i])
      BY <2>4, <2>6, BoundIs
    <3>2. a.id = call.id /\ a.name = n
      BY <2>4, <3>1 DEF CallerMemory
    <3> QED BY <2>2, <2>6, <3>2 DEF Read
  <2> QED BY <2>5, <2>6
<1> QED BY <1>5 DEF Computed

(* It leaves the inputs' buffers, and writes each output.                   *)
LEMMA OutputsWritten ==
    ASSUME OutputsOnce, IInv, BInv, DInv, Busy, NEW s \in Streams, NEW work, Taken(s, work),
           work.id = call.id, work.op = "infer", Infers(work), ~broken
    PROVE  /\ \A i \in DOMAIN call.bound :
                  call.bound[i].of = "buffer" => Read(call.bound[i])' = Read(call.bound[i])
           /\ CopiesOut(call.kind) =>
                  /\ SameHolds(call.id)
                  /\ \A i \in DOMAIN call.targets :
                         Read(call.targets[i])' = OutputOf(call.id, call.outputs[i].name)
           /\ ~CopiesOut(call.kind) => HoldsOutputs(call.id)'
<1>1. /\ UNCHANGED <<call, guards, size, broken>> /\ work \in ToSet(queue[s])
  BY DEF Taken
<1>2. s = call.stream /\ WorkOf(work)
  BY <1>1, CallsWork
<1>3. /\ \A n \in DOMAIN Tensors : work.address[n] # NullAddress /\ AddressOf(n, work.address[n])
      /\ Len(call.targets) = Len(call.outputs)
  BY <1>2 DEF WorkOf
<1>4. LeavesOthers(work)
  BY <1>1, InfersLeaves
<1>5. \A name : Computed(work, name) = OutputOf(call.id, name)
  BY InputsRead
<1>6. call.temps \subseteq DOMAIN memory /\ DOMAIN memory' = DOMAIN memory
  BY <1>4 DEF LeavesOthers, IInv, CallTyped, DInv, ResultsTyped
<1>7. call.id \in Ids
  BY DEF BInv, CallAsked
<1>8. \A m : Temporary(m).of = "buffer" /\ Temporary(m).buffer = m
  BY DEF Temporary
<1>9. ASSUME NEW n \in Named("output")
      PROVE  \E i \in DOMAIN call.targets :
                 call.outputs[i].name = n /\ work.address[n] = call.targets[i]
  <2>1. n \in DOMAIN Tensors
    BY DEF Named
  <2>2. PICK a : a = work.address[n]
    OBVIOUS
  <2>3. a # NullAddress /\ AddressOf(n, a)
    BY <1>3, <2>1, <2>2
  <2> QED BY <2>2, <2>3, OutputAddress
<1>10. ASSUME NEW i \in DOMAIN call.targets
       PROVE  /\ call.outputs[i].name \in Named("output")
              /\ work.address[call.outputs[i].name] = call.targets[i]
  <2>1. call.outputs[i].name \in Named("output")
    BY TargetIs
  <2>2. PICK j \in DOMAIN call.targets : /\ call.outputs[j].name = call.outputs[i].name
                                         /\ work.address[call.outputs[i].name] = call.targets[j]
    BY <1>9, <2>1
  <2>3. i \in DOMAIN call.outputs /\ j \in DOMAIN call.outputs
    BY <1>3 DEF IInv, CallTyped, BInv, CallAsked, IsSeq
  <2>4. i = j
    BY <2>2, <2>3 DEF BInv, CallAsked, Distinct
  <2> QED BY <2>1, <2>2, <2>4
<1>11. ASSUME NEW i \in DOMAIN call.bound, call.bound[i].of = "buffer"
       PROVE  Read(call.bound[i])' = Read(call.bound[i])
  <2>1. PICK m \in call.temps : call.bound[i] = Temporary(m)
    BY <1>11, BoundIs
  <2>2. ASSUME NEW n \in Named("output") PROVE work.address[n] # Temporary(m)
    <3>1. PICK j \in DOMAIN call.targets : work.address[n] = call.targets[j]
      BY <1>9
    <3>2. call.bound[i] # call.targets[j]
      BY <1>11 DEF BInv, Apart
    <3> QED BY <2>1, <3>1, <3>2
  <2>3. memory'[m] = memory[m]
    BY <1>6, <2>2, InfersWrites
  <2>4. PICK a : a = call.bound[i]
    OBVIOUS
  <2>5. Read(a)' = Read(a)
    BY <1>6, <1>8, <2>1, <2>3, <2>4 DEF Read
  <2> QED BY <1>1, <2>4, <2>5
<1>12. ASSUME CopiesOut(call.kind), NEW i \in DOMAIN call.targets
       PROVE  Read(call.targets[i])' = OutputOf(call.id, call.outputs[i].name)
  <2>1. PICK m \in call.temps : call.targets[i] = Temporary(m)
    BY <1>12, TargetIs
  <2>2. PICK name : name = call.outputs[i].name
    OBVIOUS
  <2>3. name \in Named("output") /\ work.address[name] = Temporary(m)
    BY <1>10, <2>1, <2>2
  <2>4. ASSUME NEW n \in Named("output"), work.address[n] = Temporary(m)
        PROVE  n = name
    <3>1. PICK j \in DOMAIN call.targets : /\ call.outputs[j].name = n
                                           /\ work.address[n] = call.targets[j]
      BY <1>9
    <3>2. call.targets[i].of = "buffer" /\ call.targets[i] = call.targets[j]
      BY <1>8, <2>1, <2>4, <3>1
    <3>3. i = j
      BY <3>2 DEF BInv, Apart
    <3> QED BY <2>2, <3>1, <3>3
  <2>5. memory'[m] = Computed(work, name)
    BY <1>6, <2>3, <2>4, InfersWrites
  <2>6. PICK a : a = call.targets[i]
    OBVIOUS
  <2>7. Read(a)' = OutputOf(call.id, name)
    BY <1>5, <1>6, <1>8, <2>1, <2>5, <2>6 DEF Read
  <2> QED BY <1>1, <2>2, <2>6, <2>7
<1>13. ASSUME CopiesOut(call.kind) PROVE SameHolds(call.id)
  <2>1. ASSUME NEW n \in DOMAIN results[call.id].holds
        PROVE  results'[call.id].holds[n] = results[call.id].holds[n]
    <3>1. n \in Named("output") => work.address[n].of # "caller"
      <4>1. ASSUME n \in Named("output") PROVE work.address[n].of # "caller"
        <5>1. PICK j \in DOMAIN call.targets : work.address[n] = call.targets[j]
          BY <1>9, <4>1
        <5>2. call.targets[j].of = "buffer"
          BY <1>8, <1>13, TargetIs
        <5> QED BY <5>1, <5>2
      <4> QED BY <4>1
    <3> QED BY <1>7, <3>1, InfersHolds
  <2> QED BY <1>4, <1>7, <2>1 DEF LeavesOthers, SameHolds
<1>14. ASSUME ~CopiesOut(call.kind) PROVE HoldsOutputs(call.id)'
  <2>1. DOMAIN results'[call.id].holds = {call.outputs[j].name : j \in DOMAIN call.outputs}
    BY <1>4, <1>7 DEF LeavesOthers, DInv, ResultsTyped
  <2>2. DOMAIN results[call.id].holds = DOMAIN results'[call.id].holds
    BY <1>4, <1>7 DEF LeavesOthers
  <2>3. ASSUME NEW n \in DOMAIN results'[call.id].holds
        PROVE  results'[call.id].holds[n] = OutputOf(call.id, n)
    <3>1. PICK i \in DOMAIN call.outputs : call.outputs[i].name = n
      BY <2>1
    <3>2. i \in DOMAIN call.targets
      BY <1>3 DEF IInv, CallTyped, BInv, CallAsked, IsSeq
    <3>3. n \in Named("output") /\ work.address[n] = call.targets[i]
      BY <1>10, <3>1, <3>2
    <3>4. call.targets[i].of = "caller" /\ call.targets[i].id = call.id
      <4>1. call.targets[i] = CallerMemory(call.id, call.outputs[i])
        BY <1>14, <3>2, TargetIs
      <4> QED BY <4>1 DEF CallerMemory
    <3>5. n \in DOMAIN results[work.id].holds
      BY <2>2, <2>3
    <3>6. results'[work.id].holds[n] = Computed(work, n)
      BY <1>7, <3>3, <3>4, <3>5, InfersHolds
    <3> QED BY <1>5, <3>6
  <2>4. PICK id : id = call.id
    OBVIOUS
  <2>5. HoldsOutputs(id)'
    BY <2>3, <2>4 DEF HoldsOutputs, OutputOf
  <2> QED BY <1>1, <2>4, <2>5
<1> QED BY <1>11, <1>12, <1>13, <1>14

(* The inference of the call.                                               *)
LEMMA CallInfers ==
    ASSUME OutputsOnce, IInv, BInv, DInv, Busy, NEW s \in Streams, NEW work, Taken(s, work),
           work.id = call.id, work.op = "infer", Infers(work)
    PROVE  DInv'
<1>1. /\ UNCHANGED <<call, guards, size, broken>> /\ work \in ToSet(queue[s])
      /\ \A t \in Streams :
           /\ ToSet(queue'[t]) \subseteq ToSet(queue[t])
           /\ \A w \in ToSet(queue[t]) : w \in ToSet(queue'[t]) \/ w = work
  BY DEF Taken
<1>2. s = call.stream /\ WorkOf(work)
  BY <1>1, CallsWork
<1>3. /\ Len(call.targets) = Len(call.outputs) /\ call.step \notin Starting
  BY <1>2 DEF WorkOf
<1>4. LeavesOthers(work)
  BY <1>1, InfersLeaves
<1>5. ASSUME NEW w \in ToSet(queue[call.stream]), w.op # "infer"
      PROVE  w \in ToSet(queue'[call.stream])
  BY <1>1, <1>2, <1>5
<1>6. Loaded'
  <2> SUFFICES ASSUME ~broken, NEW i \in DOMAIN call.bound, call.bound[i].of = "buffer"
               PROVE  CopyingIn(i)' \/ Read(call.bound[i])' = InputOf(call.id, call.inputs[i].name)
    BY <1>1 DEF Loaded, InputOf
  <2>1. CopyingIn(i) \/ Read(call.bound[i]) = InputOf(call.id, call.inputs[i].name)
    BY DEF DInv, Loaded
  <2>2. CopyingIn(i) => CopyingIn(i)'
    BY <1>1, <1>5 DEF CopyingIn, Temporary
  <2>3. Read(call.bound[i])' = Read(call.bound[i])
    BY OutputsWritten
  <2> QED BY <2>1, <2>2, <2>3
<1>7. Computing'
  <2>1. ~broken /\ CopiesOut(call.kind) =>
            \A i \in DOMAIN call.targets :
                Read(call.targets[i])' = OutputOf(call.id, call.outputs[i].name)
    BY OutputsWritten
  <2>2. ~broken /\ ~CopiesOut(call.kind) => HoldsOutputs(call.id)'
    BY OutputsWritten
  <2> QED BY <1>1, <1>3, <2>1, <2>2 DEF Computing, Launched, OutputOf
<1>8. CopiedBack'
  <2>1. ASSUME call.step \in {"copy_out", "synchronize"}, CopiesOut(call.kind), ~broken,
               NEW i \in 1 .. call.copied
        PROVE  CopyingOut(i)' \/ results'[call.id].holds[call.outputs[i].name]
                                     = OutputOf(call.id, call.outputs[i].name)
    <3>1. CopyingOut(i) \/ results[call.id].holds[call.outputs[i].name]
                               = OutputOf(call.id, call.outputs[i].name)
      BY <2>1 DEF DInv, CopiedBack
    <3>2. CopyingOut(i) => CopyingOut(i)'
      BY <1>1, <1>5 DEF CopyingOut
    <3>3. call.outputs[i].name \in DOMAIN results[call.id].holds
      <4>1. DOMAIN results[call.id].holds = {call.outputs[j].name : j \in DOMAIN call.outputs}
        BY DEF DInv, ResultsTyped
      <4>2. i \in DOMAIN call.outputs
        <5>1. /\ IsSeq(call.outputs) /\ call.copied \in Nat
              /\ call.step = "copy_out" => call.copied <= Len(call.outputs)
              /\ call.step = "synchronize" => call.copied = Len(call.outputs)
          BY <2>1 DEF BInv, CallAsked, IInv, CallTyped, DInv, CopiedBack
        <5>2. Len(call.outputs) \in Nat /\ DOMAIN call.outputs = 1 .. Len(call.outputs)
          BY <5>1 DEF IsSeq
        <5>3. call.copied <= Len(call.outputs)
          BY <2>1, <5>1, <5>2
        <5> QED BY <5>1, <5>2, <5>3
      <4> QED BY <4>1, <4>2
    <3>4. SameHolds(call.id)
      BY <2>1, OutputsWritten
    <3> QED BY <3>1, <3>2, <3>3, <3>4 DEF SameHolds
  <2>2. CopiedBack
    BY DEF DInv
  <2> QED BY <1>1, <2>1, <2>2 DEF CopiedBack, OutputOf, Starting, Early, Busy
<1> QED BY <1>4, <1>6, <1>7, <1>8, CallsData

(* The device does a work: of the call, or the inference of a guard.        *)
LEMMA WorkData ==
    ASSUME OutputsOnce, IInv, BInv, DInv, NEW s \in Streams, Work(s)
    PROVE  DInv'
<1>1. PICK work : work = Head(queue[s])
  OBVIOUS
<1>2. Taken(s, work)
  BY <1>1, WorkTaken DEF DInv
<1>3. (Busy /\ work.id = call.id) \/ \E g \in guards : work.id = g.id
  BY <1>2, WorkIsOf DEF Taken
<1>4. ASSUME NEW g \in guards, work.id = g.id PROVE work.op = "infer"
  <2>1. work \in ToSet(queue[s])
    BY <1>2 DEF Taken
  <2> QED BY <1>4, <2>1, GuardsWork
<1>5. CASE /\ work.op = "copy_in"
           /\ memory' = [memory EXCEPT ![work.buffer] = InputOf(work.id, work.name)]
           /\ UNCHANGED results
  <2>1. Busy /\ work.id = call.id
    BY <1>5, <1>3, <1>4
  <2> QED BY <1>2, <1>5, <2>1, InputCopied
<1>6. CASE /\ work.op = "copy_out" /\ UNCHANGED memory
           /\ results' = [results EXCEPT ![work.id].holds[work.name] = Read(Temporary(work.buffer))]
  <2>1. Busy /\ work.id = call.id
    BY <1>6, <1>3, <1>4
  <2> QED BY <1>2, <1>6, <2>1, OutputCopied
<1>7. CASE work.op = "infer" /\ Infers(work)
  <2>1. CASE Busy /\ work.id = call.id
    BY <1>2, <1>7, <2>1, CallInfers
  <2>2. CASE \E g \in guards : work.id = g.id
    BY <1>2, <1>7, <2>2, GuardInfers
  <2> QED BY <1>3, <2>1, <2>2
<1>8. work.op \in {"copy_in", "infer", "copy_out"}
  <2>1. CASE Busy /\ work.id = call.id
    <3>1. WorkOf(work)
      BY <1>2, <2>1, CallsWork DEF Taken
    <3> QED BY <3>1 DEF WorkOf
  <2>2. CASE \E g \in guards : work.id = g.id
    BY <1>4, <2>2
  <2> QED BY <1>3, <2>1, <2>2
<1>9. CASE work.op = "copy_in"
  BY <1>1, <1>5, <1>9 DEF Work
<1>10. CASE work.op = "infer"
  BY <1>1, <1>7, <1>10 DEF Work
<1>11. CASE work.op = "copy_out"
  BY <1>1, <1>6, <1>11 DEF Work
<1> QED BY <1>8, <1>9, <1>10, <1>11

(* Initially there is no result.                                            *)
LEMMA InitData == ASSUME Init PROVE DInv
<1>1. ~Busy
  BY DEF Init, Busy
<1>2. ResultsTyped
  BY <1>1 DEF Init, ResultsTyped
<1>3. Ordered
  BY DEF Init, Ordered
<1>4. ReturnsComputed
  BY DEF Init, ReturnsComputed
<1>5. \A g \in guards : Guarded(g)
  BY DEF Init
<1> QED BY <1>1, <1>2, <1>3, <1>4, <1>5 DEF DInv, Loaded, Computing, CopiedBack, Concluded

(***************************************************************************)
(* What the data of a call is at each step: its inputs are copied to the   *)
(* buffers that were bound for them, or will be before the inference; then *)
(* its outputs are computed and copied back, whatever the order in which   *)
(* the device does the work of other streams.  No call names an output     *)
(* twice: the device writes the memory that was given last, and the call   *)
(* returns success with what happened to be in the other.                  *)
(***************************************************************************)
THEOREM DataInvariant ==
    ASSUME OutputsOnce
    PROVE  Spec => [](IInv /\ BInv /\ DInv)
<1>1. Init => DInv
  BY InitData
<1>2. IInv /\ BInv /\ DInv /\ [Next]_vars => DInv'
  <2> SUFFICES ASSUME IInv, BInv, DInv, [Next]_vars PROVE DInv'
    OBVIOUS
  <2>1. CASE Begin
    BY <2>1, BeginData
  <2>2. CASE GetContext \/ InferContext
    BY <2>2, AcquireData
  <2>3. CASE InferShapes
    BY <2>3, InferShapesData
  <2>4. CASE SetShapes
    BY <2>4, SetShapesData
  <2>5. CASE StageInput
    BY <2>5, StageInputData
  <2>6. CASE BindInputs \/ BindOutputs
    BY <2>6, BindData
  <2>7. CASE PrepareOutput
    BY <2>7, PrepareOutputData
  <2>8. CASE Enqueue
    BY <2>8, EnqueueData
  <2>9. CASE CopyOut
    BY <2>9, CopyOutData
  <2>10. CASE Synchronize
    BY <2>10, SynchronizeData
  <2>11. CASE Return
    BY <2>11, ReturnData
  <2>12. CASE EndGuard
    BY <2>12, EndGuardData
  <2>13. CASE DropSession \/ OpenSession \/ UNCHANGED vars
    BY <2>13, SameData
  <2>14. CASE \E s \in Streams : Work(s)
    BY <2>14, WorkData
  <2> QED BY <2>1, <2>2, <2>3, <2>4, <2>5, <2>6, <2>7, <2>8, <2>9, <2>10, <2>11, <2>12,
             <2>13, <2>14 DEF Next
<1> QED BY <1>1, <1>2, BindingsInvariant, PTL DEF Spec

(***************************************************************************)
(* Where no call names an output twice, each output holds after success    *)
(* what the engine computes from the bytes of the inputs of that very      *)
(* call, however contexts and device memory were used before, and however  *)
(* the device's work interleaves with later calls.                         *)
(***************************************************************************)
THEOREM OutputsComputed ==
    ASSUME OutputsOnce
    PROVE  Spec => []ReturnsComputed
<1>1. DInv => ReturnsComputed
  BY DEF DInv
<1> QED BY <1>1, DataInvariant, PTL
=============================================================================
