---------------------------- MODULE StagedRunProofs ----------------------------
(***************************************************************************)
(* Proofs about StagedRun: what the device is still to do stays possible,  *)
(* and the engine outlives it, for any engine, requests, streams, buffers  *)
(* and contexts, and whatever fails.                                       *)
(***************************************************************************)
EXTENDS StagedRun, FiniteSetTheorems, WellFoundedInduction, TLAPS

-----------------------------------------------------------------------------
(* The inductive invariant.                                                 *)

IsSeq(q) == q \in Seq(ToSet(q))

Busy == call # NoCall

Early == {"infer", "context", "infer_shapes", "shapes"}
Starting == Early \cup {"inputs", "outputs", "enqueue"}
WithContext == {"infer_shapes", "shapes", "inputs", "outputs", "enqueue", "copy_out",
                "synchronize"}

CallFields == {"step", "id", "kind", "stream", "inputs", "outputs", "context", "temps",
               "bound", "targets", "copied", "ok"}

(* A call has a context from the step that takes one, buffers only later;   *)
(* an error it returns may come before it.                                  *)
CallTyped ==
    Busy => /\ DOMAIN call = CallFields
            /\ call.step \in Starting \cup WithContext \cup {"return"}
            /\ call.step # "return" => call.ok = TRUE
            /\ call.step \in {"infer", "context"} => call.context = {}
            /\ call.step \in WithContext => call.context # {}
            /\ call.ok = TRUE /\ call.step = "return" => call.context # {}
            /\ call.context = {} \/ \E c \in exists : call.context = {c}
            /\ call.temps \subseteq DOMAIN size
            /\ call.step \in Early => call.temps = {}
            /\ IsSeq(call.bound) /\ IsSeq(call.targets) /\ call.copied \in Nat
            /\ call.step \in {"enqueue", "copy_out"} =>
                   Len(call.targets) = Len(call.outputs)
            /\ call.step = "copy_out" => CopiesOut(call.kind)

NoRepeats(q) == \A i, j \in DOMAIN q : q[i] = q[j] => i = j

(* Every context is in one place.                                           *)
Placed ==
    /\ exists \subseteq Contexts
    /\ IsSeq(pool) /\ ToSet(pool) \subseteq exists /\ NoRepeats(pool)
    /\ \A g \in guards : g.context \in exists \ ToSet(pool)
    /\ \A g, h \in guards : g.id = h.id \/ g.context = h.context => g = h
    /\ Busy => /\ session = TRUE
               /\ call.context \cap ToSet(pool) = {}
               /\ \A g \in guards : g.id # call.id /\ g.context \notin call.context

(* The handles of the engine are counted.                                   *)
Counted ==
    /\ IsFiniteSet(exists) /\ session \in BOOLEAN
    /\ refs = Cardinality(exists) + (IF session = TRUE THEN 1 ELSE 0)

(* An address that a call with these buffers may bind.                      *)
Own(a, id, temps) ==
    \/ a = NullAddress
    \/ a.of = "buffer" /\ a.buffer \in temps
    \/ a.of = "caller" /\ a.id = id

OwnAll(f, id, temps) == \A i \in DOMAIN f : Own(f[i], id, temps)

Addressed ==
    /\ DOMAIN address = Contexts
    /\ \A c \in Contexts : DOMAIN Tensors \subseteq DOMAIN address[c]
    /\ Busy =>
         /\ \A c \in call.context : OwnAll(address[c], call.id, call.temps)
         /\ OwnAll(call.bound, call.id, call.temps)
         /\ OwnAll(call.targets, call.id, call.temps)
         /\ CopiesOut(call.kind) =>
                \A i \in DOMAIN call.targets : /\ call.targets[i].of = "buffer"
                                               /\ call.targets[i].buffer \in call.temps

(* The contexts and the buffers that work uses are among these.             *)
Uses(work, contexts, buffers) ==
    IF work.op = "infer"
    THEN /\ work.context \in contexts
         /\ \A n \in DOMAIN Tensors :
              LET a == work.address[n] IN
                IF a.of = "buffer" THEN a.buffer \in buffers
                ELSE a.of = "caller" /\ a.id = work.id
    ELSE work.buffer \in buffers

OfCall(s, work) ==
    /\ Busy /\ work.id = call.id /\ s = call.stream
    /\ Uses(work, call.context, call.temps)

OfGuard(s, work) ==
    \E g \in guards : work.id = g.id /\ s = g.stream /\ Uses(work, {g.context}, {})

(* Work belongs to the call, or to a guard, on its stream.                  *)
WorkPlaced ==
    /\ DOMAIN queue = Streams
    /\ \A s \in Streams : IsSeq(queue[s])
    /\ \A s \in Streams : \A work \in ToSet(queue[s]) : OfCall(s, work) \/ OfGuard(s, work)

(* A call without buffers has nothing queued before it enqueues, nor when   *)
(* it returns without a guard.                                              *)
MayHaveWork ==
    \/ call.step \in {"copy_out", "synchronize"}
    \/ call.step = "return" /\ call.ok = TRUE /\ call.kind = "enqueue"

NoWorkOf(id) == \A s \in Streams : \A work \in ToSet(queue[s]) : work.id # id

Quiet == Busy /\ call.temps = {} /\ ~MayHaveWork => NoWorkOf(call.id)

IInv == CallTyped /\ Placed /\ Counted /\ Addressed /\ WorkPlaced /\ Quiet

-----------------------------------------------------------------------------
(* Sequences.                                                               *)

LEMMA Appended ==
    ASSUME NEW q, IsSeq(q), NEW x
    PROVE  /\ IsSeq(Append(q, x)) /\ Len(q) \in Nat /\ DOMAIN q = 1 .. Len(q)
           /\ DOMAIN Append(q, x) = 1 .. Len(q) + 1
           /\ \A i \in DOMAIN q : Append(q, x)[i] = q[i]
           /\ Append(q, x)[Len(q) + 1] = x
           /\ ToSet(Append(q, x)) = ToSet(q) \cup {x}
<1> DEFINE S == ToSet(q) \cup {x}
           a == Append(q, x)
<1>1. q \in Seq(S) /\ x \in S
  BY DEF IsSeq
<1> HIDE DEF S
<1>2. /\ a \in Seq(S) /\ Len(q) \in Nat /\ DOMAIN q = 1 .. Len(q)
      /\ DOMAIN a = 1 .. Len(q) + 1 /\ Len(a) = Len(q) + 1
      /\ \A i \in DOMAIN q : a[i] = q[i]
      /\ a[Len(q) + 1] = x
  BY <1>1
<1> HIDE DEF a
<1>3. ToSet(a) = ToSet(q) \cup {x}
  <2>1. \A i \in DOMAIN a : i \in DOMAIN q \/ i = Len(q) + 1
    BY <1>2
  <2>2. DOMAIN q \subseteq DOMAIN a /\ Len(q) + 1 \in DOMAIN a
    BY <1>2
  <2> QED BY <1>2, <2>1, <2>2 DEF ToSet
<1>4. IsSeq(a)
  BY <1>2, <1>3 DEF IsSeq, S
<1> QED BY <1>2, <1>3, <1>4 DEF a

LEMMA NothingIn == \A q : q = <<>> => IsSeq(q) /\ ToSet(q) = {}
<1>1. \A q : q = <<>> => ToSet(q) = {}
  BY DEF ToSet
<1>2. \A q : q = <<>> => IsSeq(q)
  BY DEF IsSeq
<1>3. QED
  BY <1>1, <1>2

LEMMA Tailed ==
    ASSUME NEW q, IsSeq(q), q # <<>>
    PROVE  IsSeq(Tail(q)) /\ ToSet(Tail(q)) \subseteq ToSet(q)
<1> DEFINE S == ToSet(q)
           t == Tail(q)
<1>1. q \in Seq(S)
  BY DEF IsSeq
<1> HIDE DEF S
<1>2. /\ t \in Seq(S) /\ Len(q) \in Nat /\ DOMAIN q = 1 .. Len(q)
      /\ DOMAIN t = 1 .. Len(q) - 1 /\ Len(t) = Len(q) - 1
      /\ \A i \in DOMAIN t : t[i] = q[i + 1]
  BY <1>1
<1> HIDE DEF t
<1>3. \A i \in DOMAIN t : i + 1 \in DOMAIN q
  BY <1>2
<1>4. ToSet(t) \subseteq ToSet(q)
  BY <1>2, <1>3 DEF ToSet
<1>5. t \in Seq(ToSet(t))
  <2>1. \A i \in 1 .. Len(t) : t[i] \in ToSet(t)
    BY <1>2 DEF ToSet
  <2> QED BY <1>2, <2>1
<1> QED BY <1>4, <1>5 DEF IsSeq, t

(* The pool without its last context.                                       *)
LEMMA Popped ==
    ASSUME NEW q, IsSeq(q), NoRepeats(q), q # <<>>
    PROVE  /\ IsSeq(Front(q)) /\ NoRepeats(Front(q))
           /\ Last(q) \in ToSet(q)
           /\ ToSet(Front(q)) \subseteq ToSet(q) \ {Last(q)}
<1> DEFINE S == ToSet(q)
           f == Front(q)
<1>1. q \in Seq(S)
  BY DEF IsSeq
<1> HIDE DEF S
<1>2. Len(q) \in Nat \ {0} /\ DOMAIN q = 1 .. Len(q)
  BY <1>1
<1>3. /\ f \in Seq(S) /\ DOMAIN f = 1 .. Len(q) - 1 /\ Len(f) = Len(q) - 1
      /\ \A i \in DOMAIN f : f[i] = q[i]
  BY <1>1, <1>2 DEF Front
<1> HIDE DEF f
<1>4. Len(q) \in DOMAIN q /\ \A i \in DOMAIN f : i \in DOMAIN q /\ i # Len(q)
  BY <1>2, <1>3
<1>5. Last(q) \in ToSet(q)
  BY <1>4 DEF Last, ToSet
<1>6. ToSet(f) \subseteq ToSet(q) \ {Last(q)}
  BY <1>3, <1>4 DEF Last, ToSet, NoRepeats
<1>7. NoRepeats(f)
  BY <1>3, <1>4 DEF NoRepeats
<1>8. f \in Seq(ToSet(f))
  <2>1. \A i \in 1 .. Len(f) : f[i] \in ToSet(f)
    BY <1>3 DEF ToSet
  <2> QED BY <1>3, <2>1
<1> QED BY <1>5, <1>6, <1>7, <1>8 DEF IsSeq, f

(* A context is put back that is not in the pool.                           *)
LEMMA Pushed ==
    ASSUME NEW q, IsSeq(q), NoRepeats(q), NEW c, c \notin ToSet(q)
    PROVE  NoRepeats(Append(q, c))
<1> DEFINE a == Append(q, c)
<1>1. /\ Len(q) \in Nat /\ DOMAIN q = 1 .. Len(q) /\ DOMAIN a = 1 .. Len(q) + 1
      /\ \A i \in DOMAIN q : a[i] = q[i]
      /\ a[Len(q) + 1] = c
  BY Appended
<1> HIDE DEF a
<1>2. \A i \in DOMAIN a : i \in DOMAIN q \/ i = Len(q) + 1
  BY <1>1
<1>3. \A i \in DOMAIN q : a[i] # c
  BY <1>1 DEF ToSet
<1> QED BY <1>1, <1>2, <1>3 DEF NoRepeats, a

(* What SetToSeq makes of the context of a call, or of none.                *)
LEMMA SingletonSeq ==
    /\ SetToSeq({}) = <<>>
    /\ \A c : SetToSeq({c}) = <<c>>
<1>1. SetToSeq({}) = <<>>
  <2>1. Cardinality({}) = 0 /\ 1 .. 0 = {}
    BY FS_EmptySet
  <2>2. <<>> \in [1 .. Cardinality({}) -> {}] /\ IsInjective(<<>>)
    BY <2>1 DEF IsInjective
  <2>3. \A f \in [1 .. Cardinality({}) -> {}] : f = <<>>
    BY <2>1
  <2> QED BY <2>2, <2>3 DEF SetToSeq
<1>2. ASSUME NEW c PROVE SetToSeq({c}) = <<c>>
  <2>1. Cardinality({c}) = 1 /\ 1 .. 1 = {1}
    <3>1. Cardinality({c}) = 1
      BY FS_Singleton
    <3> QED BY <3>1
  <2>2. <<c>> \in [1 .. Cardinality({c}) -> {c}] /\ IsInjective(<<c>>)
    BY <2>1 DEF IsInjective
  <2>3. \A f \in [1 .. Cardinality({c}) -> {c}] : f = <<c>>
    BY <2>1
  <2> QED BY <2>2, <2>3 DEF SetToSeq
<1> QED BY <1>1, <1>2

LEMMA Joined ==
    ASSUME NEW q, IsSeq(q)
    PROVE  q \o <<>> = q /\ \A c : q \o <<c>> = Append(q, c)
<1>1. q \in Seq(ToSet(q))
  BY DEF IsSeq
<1>2. q \o <<>> = q
  BY <1>1
<1>3. ASSUME NEW c PROVE q \o <<c>> = Append(q, c)
  <2>1. q \in Seq(ToSet(q) \cup {c}) /\ c \in ToSet(q) \cup {c}
    BY <1>1
  <2> QED BY <2>1
<1> QED BY <1>2, <1>3

-----------------------------------------------------------------------------
(* A step of the call from which only the step and the result differ.       *)

SameCall ==
    /\ call'.id = call.id /\ call'.kind = call.kind /\ call'.stream = call.stream
    /\ call'.inputs = call.inputs /\ call'.outputs = call.outputs
    /\ call'.context = call.context

Moved(next, ok) ==
    /\ Busy' /\ DOMAIN call' = CallFields
    /\ call'.step = next /\ call'.ok = ok
    /\ SameCall /\ call'.copied = call.copied
    /\ call'.temps = call.temps /\ call'.bound = call.bound /\ call'.targets = call.targets

LEMMA Went ==
    ASSUME Busy, CallTyped, NEW next, Goto(next), next # "idle"
    PROVE  Moved(next, call.ok)
BY DEF Busy, CallTyped, CallFields, Goto, Moved, SameCall, NoCall

LEMMA FailMoves ==
    ASSUME Busy, CallTyped, Fail
    PROVE  Moved("return", FALSE)
BY DEF Busy, CallTyped, CallFields, Fail, Moved, SameCall, NoCall

(* A call fails at any step, or goes on to one that its state is ready for. *)
MayMove(next, ok) ==
    \/ next = "return" /\ ok = FALSE
    \/ /\ ok = TRUE /\ next \in WithContext \cup {"return"} /\ call.context # {}
       /\ next \in Early => call.temps = {}
       /\ next \in {"enqueue", "copy_out"} => Len(call.targets) = Len(call.outputs)
       /\ next = "copy_out" => CopiesOut(call.kind)

LEMMA MovedTyped ==
    ASSUME Busy, CallTyped, NEW next, NEW ok, Moved(next, ok), MayMove(next, ok),
           UNCHANGED <<exists, size>>
    PROVE  CallTyped'
BY DEF Busy, CallTyped, Moved, SameCall, MayMove, Starting, WithContext, Early

LEMMA PlaceKept ==
    ASSUME Placed, Busy, Busy', call'.id = call.id, call'.context = call.context,
           UNCHANGED <<session, exists, pool, guards>>
    PROVE  Placed'
BY DEF Placed, Busy

LEMMA CountKept ==
    ASSUME Counted, UNCHANGED <<session, exists, refs>>
    PROVE  Counted'
BY DEF Counted

LEMMA AddressKept ==
    ASSUME Addressed, Busy, NEW next, NEW ok, Moved(next, ok), UNCHANGED address
    PROVE  Addressed'
BY DEF Addressed, Moved, SameCall, OwnAll, Own

LEMMA UsesMore ==
    ASSUME NEW work, NEW C, NEW D, NEW S, NEW T, Uses(work, C, S), C \subseteq D, S \subseteq T
    PROVE  Uses(work, D, T)
BY DEF Uses

(* Work that is done, or belongs to a call that holds more, stays placed.   *)
LEMMA WorkKept ==
    ASSUME WorkPlaced, DOMAIN queue' = Streams,
           \A s \in Streams : IsSeq(queue'[s]) /\ ToSet(queue'[s]) \subseteq ToSet(queue[s]),
           UNCHANGED guards,
           Busy => /\ Busy' /\ call'.id = call.id /\ call'.stream = call.stream
                   /\ call.context \subseteq call'.context /\ call.temps \subseteq call'.temps
    PROVE  WorkPlaced'
<1>1. ASSUME NEW s \in Streams, NEW work \in ToSet(queue'[s])
      PROVE  OfCall(s, work)' \/ OfGuard(s, work)'
  <2>1. OfCall(s, work) \/ OfGuard(s, work)
    BY DEF WorkPlaced
  <2>2. CASE OfCall(s, work)
    <3>1. Busy /\ work.id = call.id /\ s = call.stream
      BY <2>2 DEF OfCall
    <3>2. Uses(work, call'.context, call'.temps)
      BY <2>2, <3>1, UsesMore DEF OfCall
    <3>3. Uses(work, call.context, call.temps)'
      BY <3>2 DEF Uses
    <3> QED BY <3>1, <3>3 DEF OfCall
  <2>3. CASE OfGuard(s, work)
    BY <2>3 DEF OfGuard, Uses
  <2> QED BY <2>1, <2>2, <2>3
<1> QED BY <1>1 DEF WorkPlaced

LEMMA WorkSame ==
    ASSUME WorkPlaced, UNCHANGED <<queue, guards>>,
           Busy => /\ Busy' /\ call'.id = call.id /\ call'.stream = call.stream
                   /\ call.context \subseteq call'.context /\ call.temps \subseteq call'.temps
    PROVE  WorkPlaced'
<1>1. /\ DOMAIN queue' = Streams
      /\ \A s \in Streams : IsSeq(queue'[s]) /\ ToSet(queue'[s]) \subseteq ToSet(queue[s])
  BY DEF WorkPlaced
<1> QED BY <1>1, WorkKept

LEMMA QuietKept ==
    ASSUME Quiet, Busy, call'.id = call.id, call.temps \subseteq call'.temps, UNCHANGED queue,
           ~MayHaveWork \/ MayHaveWork'
    PROVE  Quiet'
BY DEF Quiet, NoWorkOf

(* A step that changes nothing but where the call is.                       *)
LEMMA MoveKeeps ==
    ASSUME IInv, Busy, NEW next, NEW ok, Moved(next, ok), MayMove(next, ok),
           UNCHANGED <<session, exists, pool, refs, guards, size, queue>>,
           Addressed', Quiet'
    PROVE  IInv'
<1>1. Busy' /\ call'.id = call.id /\ call'.context = call.context /\ call'.stream = call.stream
      /\ call.temps = call'.temps
  BY DEF Moved, SameCall
<1>2. CallTyped'
  BY MovedTyped DEF IInv
<1>3. Placed'
  BY <1>1, PlaceKept DEF IInv
<1>4. Counted'
  BY CountKept DEF IInv
<1>5. WorkPlaced'
  BY <1>1, WorkSame DEF IInv
<1> QED BY <1>2, <1>3, <1>4, <1>5 DEF IInv

(* An early return before the call has work.                                *)
LEMMA FailKeeps ==
    ASSUME IInv, Busy, Fail, ~MayHaveWork \/ call.temps # {},
           UNCHANGED <<session, exists, pool, refs, guards, size, queue>>,
           Addressed'
    PROVE  IInv'
<1>1. Moved("return", FALSE)
  BY FailMoves DEF IInv
<1>2. MayMove("return", FALSE)
  BY DEF MayMove
<1>3. Quiet'
  <2>1. call'.id = call.id /\ call'.temps = call.temps
    BY <1>1 DEF Moved, SameCall
  <2>2. CASE ~MayHaveWork
    BY <2>1, <2>2, QuietKept DEF IInv
  <2>3. CASE call.temps # {}
    BY <2>1, <2>3 DEF Quiet
  <2> QED BY <2>2, <2>3
<1> QED BY <1>1, <1>2, <1>3, MoveKeeps

-----------------------------------------------------------------------------
(* The steps before the launch.                                             *)

LEMMA BusyAt == ASSUME NEW step, At(step), step # "idle" PROVE Busy
BY DEF At, Busy, NoCall

(* The call has one context from the step that takes it.                    *)
LEMMA HeldIs ==
    ASSUME IInv, Busy, call.step \in WithContext
    PROVE  /\ call.context = {Held} /\ Held \in exists \cap Contexts
           /\ Held \notin ToSet(pool)
<1>1. PICK c \in exists : call.context = {c}
  BY DEF IInv, CallTyped
<1>2. Held = c
  BY <1>1 DEF Held
<1> QED BY <1>1, <1>2 DEF IInv, Placed

LEMMA BeginKeeps == ASSUME IInv, Begin PROVE IInv'
<1>1. ~Busy
  BY DEF Begin, Busy
<1>2. PICK id \in Ids, r \in Requests, s \in Streams :
         /\ \A g \in guards : g.id # id
         /\ call' = [step |-> IF r.kind = "allocating" THEN "infer" ELSE "context",
                     id |-> id, kind |-> r.kind, stream |-> s, inputs |-> r.inputs,
                     outputs |-> r.outputs, context |-> {}, temps |-> {},
                     bound |-> <<>>, targets |-> <<>>, copied |-> 0, ok |-> TRUE]
  BY DEF Begin
<1>3. /\ Busy' /\ DOMAIN call' = CallFields /\ call'.step \in {"infer", "context"}
      /\ call'.id = id /\ call'.context = {} /\ call'.temps = {} /\ call'.copied = 0
      /\ call'.bound = <<>> /\ call'.targets = <<>> /\ call'.ok = TRUE
  BY <1>2 DEF Busy, NoCall, CallFields
<1>4. UNCHANGED <<session, exists, pool, refs, guards, size, queue, address>> /\ session
  BY DEF Begin, resources, bound, device
<1>5. /\ IsSeq(call'.bound) /\ IsSeq(call'.targets)
      /\ (DOMAIN call'.bound = {}) /\ (DOMAIN call'.targets = {})
  BY <1>3, NothingIn
<1>6. CallTyped'
  BY <1>3, <1>4, <1>5 DEF CallTyped, Starting, WithContext, Early, IsSeq
<1>7. Placed'
  <2>1. \A g \in guards' : g.id # call'.id /\ g.context \notin call'.context
    BY <1>2, <1>3, <1>4
  <2> QED BY <1>1, <1>3, <1>4, <2>1 DEF IInv, Placed, Counted
<1>8. Counted'
  BY <1>4, CountKept DEF IInv
<1>9. Addressed'
  BY <1>3, <1>4, <1>5 DEF IInv, Addressed, OwnAll
<1>10. WorkPlaced'
  BY <1>1, <1>4, WorkSame DEF IInv
<1>11. Quiet'
  <2>1. ASSUME NEW u \in Streams, NEW work \in ToSet(queue[u]) PROVE work.id # id
    <3>1. OfGuard(u, work)
      BY <1>1 DEF IInv, WorkPlaced, OfCall
    <3>2. PICK g \in guards : work.id = g.id
      BY <3>1 DEF OfGuard
    <3> QED BY <1>2, <3>2
  <2> QED BY <1>3, <1>4, <2>1 DEF Quiet, NoWorkOf
<1> QED BY <1>6, <1>7, <1>8, <1>9, <1>10, <1>11 DEF IInv

LEMMA SetShapesKeeps == ASSUME IInv, SetShapes PROVE IInv'
<1>1. Busy /\ call.step = "shapes"
  BY BusyAt DEF SetShapes, At
<1>2. UNCHANGED <<session, exists, pool, refs, guards, size, queue, address>>
  BY DEF SetShapes, resources, device
<1>3. ~MayHaveWork
  BY <1>1 DEF MayHaveWork
<1>4. CASE Goto("inputs")
  <2>1. Moved("inputs", call.ok)
    BY <1>1, <1>4, Went DEF IInv
  <2>2. MayMove("inputs", call.ok)
    BY <1>1 DEF IInv, CallTyped, MayMove, WithContext, Early
  <2>3. Addressed'
    BY <1>1, <1>2, <2>1, AddressKept DEF IInv
  <2>4. Quiet'
    BY <1>1, <1>2, <1>3, <2>1, QuietKept DEF IInv, Moved, SameCall
  <2> QED BY <1>1, <1>2, <2>1, <2>2, <2>3, <2>4, MoveKeeps
<1>5. CASE Fail
  <2>1. Moved("return", FALSE)
    BY <1>1, <1>5, FailMoves DEF IInv
  <2>2. Addressed'
    BY <1>1, <1>2, <2>1, AddressKept DEF IInv
  <2> QED BY <1>1, <1>2, <1>3, <1>5, <2>2, FailKeeps
<1> QED BY <1>4, <1>5 DEF SetShapes

(* A context of the call gets other addresses that the call may bind.       *)
LEMMA HeldAddressed ==
    ASSUME IInv, Busy, call.step \in WithContext, NEW f,
           address' = [address EXCEPT ![Held] = f],
           DOMAIN Tensors \subseteq DOMAIN f, OwnAll(f, call.id, call.temps),
           NEW next, NEW ok, Moved(next, ok)
    PROVE  Addressed'
<1>1. call.context = {Held} /\ Held \in Contexts
  BY HeldIs
<1>2. /\ DOMAIN address' = Contexts /\ address'[Held] = f
      /\ \A c \in Contexts : DOMAIN Tensors \subseteq DOMAIN address'[c]
  BY <1>1 DEF IInv, Addressed
<1>3. OwnAll(address'[Held], call.id, call.temps)
  BY <1>2
<1>4. /\ call'.context = {Held} /\ call'.id = call.id /\ call'.temps = call.temps
      /\ call'.bound = call.bound /\ call'.targets = call.targets /\ call'.kind = call.kind
  BY <1>1 DEF Moved, SameCall
<1>5. \A c \in call'.context : OwnAll(address'[c], call'.id, call'.temps)
  BY <1>3, <1>4
<1>6. /\ OwnAll(call'.bound, call'.id, call'.temps)
      /\ OwnAll(call'.targets, call'.id, call'.temps)
      /\ CopiesOut(call'.kind) =>
             \A i \in DOMAIN call'.targets : /\ call'.targets[i].of = "buffer"
                                            /\ call'.targets[i].buffer \in call'.temps
  BY <1>4 DEF IInv, Addressed
<1>7. \A c \in Contexts : (DOMAIN Tensors)' \subseteq DOMAIN address'[c]
  BY <1>2 DEF Tensors
<1> HIDE DEF Moved
<1> QED BY <1>2, <1>5, <1>6, <1>7 DEF Addressed, OwnAll, Own, NullAddress, CopiesOut

(* The order of the numbers is well-founded.                                *)
LEMMA LessWellFounded ==
    \E R : IsWellFoundedOn(R, Nat) /\ \A i, j \in Nat : <<i, j>> \in R <=> i < j
<1>1. IsWellFoundedOn(OpToRel(<, Nat), Nat)
  BY NatLessThanWellFounded
<1>2. \A i, j \in Nat : <<i, j>> \in OpToRel(<, Nat) <=> i < j
  BY DEF OpToRel
<1> QED BY <1>1, <1>2

(* A set of numbers that is not empty has an element with none before it.   *)
LEMMA MinimalElement ==
    ASSUME NEW R, IsWellFoundedOn(R, Nat), NEW S \in SUBSET Nat, S # {}
    PROVE  \E x \in S : \A y \in S : ~ (<<y, x>> \in R)
<1>1. S \subseteq Nat
  OBVIOUS
<1> QED BY <1>1, WFMin

(* It has a least element: what induction comes to here, where no theorem   *)
(* with an operator for a parameter can be used.                            *)
LEMMA LeastElement ==
    ASSUME NEW S \in SUBSET Nat, S # {}
    PROVE  \E x \in S : \A y \in S : x <= y
<1>1. PICK R : IsWellFoundedOn(R, Nat) /\ \A i, j \in Nat : <<i, j>> \in R <=> i < j
  BY LessWellFounded
<1>2. PICK x \in S : \A y \in S : ~ (<<y, x>> \in R)
  <2>1. IsWellFoundedOn(R, Nat)
    BY <1>1
  <2> QED BY <2>1, MinimalElement
<1>3. ASSUME NEW y \in S PROVE x <= y
  <2>1. x \in Nat /\ y \in Nat
    OBVIOUS
  <2>2. ~ (y < x)
    BY <1>1, <1>2, <2>1
  <2> QED BY <2>1, <2>2
<1> QED BY <1>3

(* Of the first bindings the last one of a tensor, if there is one, is the  *)
(* one after which none is of it.                                           *)
LEMMA LastIs ==
    ASSUME NEW bindings, NEW k \in Nat, NEW n, \E i \in 1 .. k : bindings[i].name = n
    PROVE  /\ LastOf(bindings, k, n) \in 1 .. k
           /\ bindings[LastOf(bindings, k, n)].name = n
           /\ \A i \in 1 .. k : bindings[i].name = n => i <= LastOf(bindings, k, n)
<1> DEFINE S == {i \in 1 .. k : bindings[i].name = n}
           T == {k - x : x \in S}
<1>1. S # {} /\ S \subseteq 1 .. k /\ LastOf(bindings, k, n) = Max(S)
  BY DEF LastOf
<1>2. \A i \in 1 .. k : bindings[i].name = n <=> i \in S
  OBVIOUS
<1>3. \A x \in S : k - x \in T
  OBVIOUS
<1>4. \A y \in T : \E x \in S : y = k - x
  OBVIOUS
<1> HIDE DEF S, T
<1>5. T # {} /\ T \in SUBSET Nat
  <2>1. \A x \in S : k - x \in Nat
    BY <1>1
  <2> QED BY <1>1, <1>3, <1>4, <2>1
<1>6. PICK least \in T : \A y \in T : least <= y
  BY <1>5, LeastElement
<1>7. PICK m \in S : least = k - m
  BY <1>4
<1>8. \A x \in S : m >= x
  <2>1. ASSUME NEW x \in S PROVE m >= x
    <3>1. k - m <= k - x
      BY <1>3, <1>6, <1>7
    <3>2. x \in Int /\ m \in Int
      BY <1>1
    <3> QED BY <3>1, <3>2
  <2> QED BY <2>1
<1>9. Max(S) \in S /\ \A x \in S : Max(S) >= x
  BY <1>8 DEF Max
<1>10. \A x \in S : x <= Max(S)
  BY <1>1, <1>9
<1> QED BY <1>1, <1>2, <1>9, <1>10

(* The first bindings of a call are bound, of which each may be.            *)
LEMMA BindingOwn ==
    ASSUME IInv, Busy, call.step \in WithContext,
           NEW bindings, NEW targets, IsSeq(targets), OwnAll(targets, call.id, call.temps),
           NEW k \in 0 .. Len(targets)
    PROVE  /\ DOMAIN Tensors \subseteq DOMAIN Binding(bindings, targets, k)
           /\ OwnAll(Binding(bindings, targets, k), call.id, call.temps)
<1> DEFINE f == Binding(bindings, targets, k)
<1>1. DOMAIN f = DOMAIN Tensors
  BY DEF Binding
<1>2. \A i \in 1 .. k : i \in DOMAIN targets
  <2>1. targets \in Seq(ToSet(targets))
    BY DEF IsSeq
  <2> QED BY <2>1
<1>3. Held \in call.context /\ Held \in Contexts
  BY HeldIs
<1>4. ASSUME NEW n \in DOMAIN Tensors PROVE Own(f[n], call.id, call.temps)
  <2>1. CASE \E i \in 1 .. k : bindings[i].name = n
    <3> DEFINE j == LastOf(bindings, k, n)
    <3>1. j \in 1 .. k
      <4>1. k \in Nat
        BY DEF IsSeq
      <4> QED BY <2>1, <4>1, LastIs
    <3>2. f[n] = targets[j]
      BY <2>1 DEF Binding
    <3> HIDE DEF f, j
    <3> QED BY <1>2, <3>1, <3>2 DEF OwnAll
  <2>2. CASE ~\E i \in 1 .. k : bindings[i].name = n
    <3>1. f[n] = address[Held][n]
      BY <2>2 DEF Binding
    <3>2. n \in DOMAIN address[Held] /\ OwnAll(address[Held], call.id, call.temps)
      BY <1>3 DEF IInv, Addressed
    <3> HIDE DEF f
    <3> QED BY <3>1, <3>2 DEF OwnAll
  <2> QED BY <2>1, <2>2
<1> HIDE DEF f
<1>5. DOMAIN Tensors \subseteq DOMAIN f /\ OwnAll(f, call.id, call.temps)
  BY <1>1, <1>4 DEF OwnAll
<1> QED BY <1>5 DEF f

LEMMA BindKeeps ==
    ASSUME IInv, Busy, call.step \in {"inputs", "outputs"},
           NEW bindings, NEW targets, IsSeq(targets), Len(targets) = Len(bindings),
           OwnAll(targets, call.id, call.temps),
           NEW next \in {"outputs", "enqueue"},
           next = "enqueue" => Len(call.targets) = Len(call.outputs),
           BindAll(bindings, targets, next),
           UNCHANGED <<session, exists, pool, refs, guards, size, queue>>
    PROVE  IInv'
<1>1. PICK k \in 0 .. Len(bindings) :
         /\ address' = [address EXCEPT ![Held] = Binding(bindings, targets, k)]
         /\ Goto(next) \/ Fail
  BY DEF BindAll
<1>2. /\ DOMAIN Tensors \subseteq DOMAIN Binding(bindings, targets, k)
      /\ OwnAll(Binding(bindings, targets, k), call.id, call.temps)
  BY <1>1, BindingOwn DEF WithContext
<1>3. ~MayHaveWork
  BY DEF MayHaveWork
<1>4. ASSUME NEW next1, NEW ok1, Moved(next1, ok1) PROVE Addressed'
  BY <1>1, <1>2, <1>4, HeldAddressed DEF WithContext
<1>5. CASE Goto(next)
  <2>1. Moved(next, call.ok)
    BY <1>5, Went DEF IInv
  <2>2. MayMove(next, call.ok)
    BY DEF IInv, CallTyped, MayMove, WithContext, Early
  <2>3. Quiet'
    BY <1>3, <2>1, QuietKept DEF IInv, Moved, SameCall
  <2> QED BY <1>4, <2>1, <2>2, <2>3, MoveKeeps
<1>6. CASE Fail
  <2>1. Addressed'
    BY <1>4, <1>6, FailMoves DEF IInv
  <2> QED BY <1>3, <1>6, <2>1, FailKeeps
<1> QED BY <1>1, <1>5, <1>6

LEMMA BindInputsKeeps == ASSUME IInv, BindInputs PROVE IInv'
<1>1. Busy /\ call.step = "inputs"
  BY BusyAt DEF BindInputs, At
<1>2. UNCHANGED <<session, exists, pool, refs, guards, size, queue>>
  BY DEF BindInputs, resources, device
<1>3. /\ IsSeq(call.bound) /\ Len(call.bound) = Len(call.inputs)
      /\ OwnAll(call.bound, call.id, call.temps)
  BY <1>1 DEF BindInputs, IInv, CallTyped, Addressed
<1>4. BindAll(call.inputs, call.bound, "outputs")
  BY DEF BindInputs
<1> QED BY <1>1, <1>2, <1>3, <1>4, BindKeeps

LEMMA BindOutputsKeeps == ASSUME IInv, BindOutputs PROVE IInv'
<1>1. Busy /\ call.step = "outputs"
  BY BusyAt DEF BindOutputs, At
<1>2. UNCHANGED <<session, exists, pool, refs, guards, size, queue>>
  BY DEF BindOutputs, resources, device
<1>3. /\ IsSeq(call.targets) /\ Len(call.targets) = Len(call.outputs)
      /\ OwnAll(call.targets, call.id, call.temps)
  BY <1>1 DEF BindOutputs, IInv, CallTyped, Addressed
<1>4. BindAll(call.outputs, call.targets, "enqueue")
  BY DEF BindOutputs
<1> QED BY <1>1, <1>2, <1>3, <1>4, BindKeeps

(* The call takes the context of the pool or a new one.                     *)
Took(next, c) ==
    /\ Busy' /\ DOMAIN call' = CallFields
    /\ call'.step = next /\ call'.ok = call.ok /\ call'.context = {c}
    /\ call'.id = call.id /\ call'.kind = call.kind /\ call'.stream = call.stream
    /\ call'.inputs = call.inputs /\ call'.outputs = call.outputs
    /\ call'.copied = call.copied /\ call'.temps = call.temps
    /\ call'.bound = call.bound /\ call'.targets = call.targets

LEMMA TookIs ==
    ASSUME Busy, CallTyped, NEW next \in {"shapes", "infer_shapes"}, NEW c,
           call' = [call EXCEPT !.step = next, !.context = {c}]
    PROVE  Took(next, c)
BY DEF Busy, CallTyped, CallFields, Took, NoCall

LEMMA TakeKeeps ==
    ASSUME IInv, Busy, call.step \in {"infer", "context"},
           NEW next \in {"shapes", "infer_shapes"}, NEW c \in Contexts, Took(next, c),
           c \in exists', exists' \subseteq exists \cup {c}, exists \subseteq exists',
           c \notin ToSet(pool'), \A g \in guards : g.context # c,
           IsSeq(pool'), ToSet(pool') \subseteq ToSet(pool), NoRepeats(pool'),
           NEW f, address' = [address EXCEPT ![c] = f], DOMAIN Tensors \subseteq DOMAIN f,
           \A n \in DOMAIN f : f[n] = NullAddress,
           UNCHANGED <<session, guards, size, queue>>, Counted'
    PROVE  IInv'
<1>1. /\ call.context = {} /\ call.temps = {} /\ ~MayHaveWork
  BY DEF IInv, CallTyped, Early, MayHaveWork
<1>2. CallTyped'
  BY <1>1 DEF IInv, CallTyped, Took, Starting, WithContext, Early
<1>3. Placed'
  <2>1. exists' \subseteq Contexts /\ ToSet(pool') \subseteq exists'
    BY DEF IInv, Placed
  <2>2. \A g \in guards' : g.context \in exists' \ ToSet(pool')
    BY DEF IInv, Placed
  <2>3. Busy' => /\ session' = TRUE
                 /\ call'.context \cap ToSet(pool') = {}
                 /\ \A g \in guards' : g.id # call'.id /\ g.context \notin call'.context
    BY DEF IInv, Placed, Took
  <2> QED BY <2>1, <2>2, <2>3 DEF IInv, Placed
<1>4. Addressed'
  <2>1. /\ DOMAIN address' = Contexts /\ address'[c] = f
        /\ \A d \in Contexts : (DOMAIN Tensors)' \subseteq DOMAIN address'[d]
    BY DEF IInv, Addressed, Tensors
  <2>2. \A d \in call'.context : OwnAll(address'[d], call'.id, call'.temps)
    BY <2>1 DEF Took, OwnAll, Own
  <2>3. /\ OwnAll(call'.bound, call'.id, call'.temps)
        /\ OwnAll(call'.targets, call'.id, call'.temps)
        /\ CopiesOut(call'.kind) =>
               \A i \in DOMAIN call'.targets : /\ call'.targets[i].of = "buffer"
                                              /\ call'.targets[i].buffer \in call'.temps
    BY DEF IInv, Addressed, Took
  <2> QED BY <2>1, <2>2, <2>3 DEF Addressed, OwnAll, Own, NullAddress, CopiesOut
<1>5. WorkPlaced'
  BY <1>1, WorkSame DEF IInv, Took
<1>6. Quiet'
  BY <1>1, QuietKept DEF IInv, Took
<1> QED BY <1>2, <1>3, <1>4, <1>5, <1>6 DEF IInv

LEMMA ReuseKeeps ==
    ASSUME IInv, Busy, call.step \in {"infer", "context"},
           NEW next \in {"shapes", "infer_shapes"}, Reuse(next),
           UNCHANGED <<guards, size, queue>>
    PROVE  IInv'
<1> DEFINE c == Last(pool)
<1>1. /\ IsSeq(Front(pool)) /\ NoRepeats(Front(pool)) /\ c \in ToSet(pool)
      /\ ToSet(Front(pool)) \subseteq ToSet(pool) \ {c}
  BY Popped DEF Reuse, IInv, Placed
<1>2. /\ pool' = Front(pool) /\ address' = [address EXCEPT ![c] = Cleared(c)]
      /\ call' = [call EXCEPT !.step = next, !.context = {c}]
      /\ UNCHANGED <<session, refs, exists>>
  BY DEF Reuse
<1> HIDE DEF c
<1>3. Took(next, c)
  BY <1>2, TookIs DEF IInv
<1>4. c \in exists /\ c \in Contexts /\ \A g \in guards : g.context # c
  BY <1>1 DEF IInv, Placed
<1>5. /\ DOMAIN Tensors \subseteq DOMAIN Cleared(c)
      /\ \A n \in DOMAIN Cleared(c) : Cleared(c)[n] = NullAddress
  BY <1>4 DEF Cleared, IInv, Addressed
<1>6. Counted'
  BY <1>2, CountKept DEF IInv
<1>7. /\ c \in exists' /\ exists' \subseteq exists \cup {c} /\ exists \subseteq exists'
      /\ c \notin ToSet(pool') /\ IsSeq(pool') /\ ToSet(pool') \subseteq ToSet(pool)
      /\ NoRepeats(pool')
  BY <1>1, <1>2, <1>4
<1>8. UNCHANGED <<session, guards, size, queue>>
  BY <1>2
<1> QED BY <1>2, <1>3, <1>4, <1>5, <1>6, <1>7, <1>8, TakeKeeps

LEMMA CreateKeeps ==
    ASSUME IInv, Busy, call.step \in {"infer", "context"},
           NEW next \in {"shapes", "infer_shapes"}, Create(next),
           UNCHANGED <<guards, size, queue>>
    PROVE  IInv'
<1>1. PICK c \in Contexts \ exists :
         /\ exists' = exists \cup {c}
         /\ address' = [address EXCEPT ![c] = Unbound]
         /\ call' = [call EXCEPT !.step = next, !.context = {c}]
  BY DEF Create
<1>2. refs' = refs + 1 /\ UNCHANGED <<session, pool, guards, size, queue>>
  BY DEF Create, EngineClone
<1>3. Took(next, c)
  BY <1>1, TookIs DEF IInv
<1>4. \A g \in guards : g.context # c
  BY <1>1 DEF IInv, Placed
<1>5. DOMAIN Tensors \subseteq DOMAIN Unbound /\ \A n \in DOMAIN Unbound : Unbound[n] = NullAddress
  BY DEF Unbound
<1>6. Counted'
  <2>1. /\ IsFiniteSet(exists) /\ Cardinality(exists) \in Nat
        /\ refs = Cardinality(exists) + (IF session = TRUE THEN 1 ELSE 0)
    BY FS_CardinalityType DEF IInv, Counted
  <2>2. IsFiniteSet(exists') /\ Cardinality(exists') = Cardinality(exists) + 1
    BY <1>1, <2>1, FS_AddElement
  <2> QED BY <1>2, <2>1, <2>2 DEF IInv, Counted
<1>7. /\ c \in exists' /\ exists' \subseteq exists \cup {c} /\ exists \subseteq exists'
      /\ c \notin ToSet(pool') /\ IsSeq(pool') /\ ToSet(pool') \subseteq ToSet(pool)
      /\ NoRepeats(pool')
  BY <1>1, <1>2 DEF IInv, Placed
<1> QED BY <1>1, <1>2, <1>3, <1>4, <1>5, <1>6, <1>7, TakeKeeps

(* A context that the call cannot use is destroyed.                         *)
LEMMA ReuseFailsKeeps ==
    ASSUME IInv, Busy, call.step \in {"infer", "context"}, ReuseFails,
           UNCHANGED <<guards, size, queue>>
    PROVE  IInv'
<1> DEFINE c == Last(pool)
<1>1. /\ IsSeq(Front(pool)) /\ NoRepeats(Front(pool)) /\ c \in ToSet(pool)
      /\ ToSet(Front(pool)) \subseteq ToSet(pool) \ {c}
  BY Popped DEF ReuseFails, IInv, Placed
<1>2. /\ pool' = Front(pool) /\ exists' = exists \ {c} /\ refs' = refs - 1
      /\ Fail /\ UNCHANGED <<session, address>>
  BY DEF ReuseFails, EngineRelease, bound
<1> HIDE DEF c
<1>3. Moved("return", FALSE)
  BY <1>2, FailMoves DEF IInv
<1>4. call.context = {} /\ call.temps = {} /\ ~MayHaveWork
  BY DEF IInv, CallTyped, Early, MayHaveWork
<1>5. CallTyped'
  BY <1>3, <1>4 DEF IInv, CallTyped, Moved, SameCall, WithContext, Early
<1>6. Placed'
  BY <1>1, <1>2, <1>3, <1>4 DEF IInv, Placed, Moved, SameCall
<1>7. Counted'
  <2>1. /\ IsFiniteSet(exists) /\ Cardinality(exists) \in Nat /\ c \in exists
        /\ refs = Cardinality(exists) + (IF session = TRUE THEN 1 ELSE 0)
    BY <1>1, FS_CardinalityType DEF IInv, Counted, Placed
  <2>2. IsFiniteSet(exists') /\ Cardinality(exists') = Cardinality(exists) - 1
    BY <1>2, <2>1, FS_RemoveElement
  <2> QED BY <1>2, <2>1, <2>2 DEF IInv, Counted
<1>8. Addressed'
  BY <1>2, <1>3, AddressKept DEF IInv
<1>9. WorkPlaced'
  BY <1>3, WorkSame DEF IInv, Moved, SameCall
<1>10. Quiet'
  BY <1>3, <1>4, QuietKept DEF IInv, Moved, SameCall
<1> QED BY <1>5, <1>6, <1>7, <1>8, <1>9, <1>10 DEF IInv

LEMMA AcquireKeeps ==
    ASSUME IInv, Busy, call.step \in {"infer", "context"},
           NEW next \in {"shapes", "infer_shapes"}, Acquire(next)
    PROVE  IInv'
<1>1. UNCHANGED <<guards, size, queue>>
  BY DEF Acquire, device
<1>2. CASE Reuse(next)
  BY <1>1, <1>2, ReuseKeeps
<1>3. CASE ReuseFails
  BY <1>1, <1>3, ReuseFailsKeeps
<1>4. CASE Create(next)
  BY <1>1, <1>4, CreateKeeps
<1>5. CASE CreateFails
  <2>1. /\ Fail /\ UNCHANGED <<session, exists, pool, refs, address>>
    BY <1>5 DEF CreateFails, resources, bound
  <2>2. Addressed'
    BY <2>1, FailMoves, AddressKept DEF IInv
  <2>3. ~MayHaveWork
    BY DEF MayHaveWork
  <2> QED BY <1>1, <2>1, <2>2, <2>3, FailKeeps
<1> QED BY <1>2, <1>3, <1>4, <1>5 DEF Acquire

(* The context of infer_shapes goes back to the pool.                       *)
GaveBack ==
    /\ Busy' /\ DOMAIN call' = CallFields
    /\ \/ call'.step = "context" /\ call'.ok = call.ok
       \/ call'.step = "return" /\ call'.ok = FALSE
    /\ call'.context = {} /\ call'.id = call.id /\ call'.kind = call.kind
    /\ call'.copied = call.copied /\ call'.temps = call.temps
    /\ call'.bound = call.bound /\ call'.targets = call.targets
    /\ call'.stream = call.stream

LEMMA InferShapesGives == ASSUME IInv, InferShapes PROVE GaveBack
<1>1. Busy /\ DOMAIN call = CallFields
  BY BusyAt DEF InferShapes, IInv, CallTyped
<1>2. CASE OutputsInferred
  <2>1. \E outputs : call' = [call EXCEPT !.step = "context", !.context = {}, !.outputs = outputs]
    BY <1>2 DEF OutputsInferred
  <2>2. PICK outputs :
           call' = [call EXCEPT !.step = "context", !.context = {}, !.outputs = outputs]
    BY <2>1
  <2> QED BY <1>1, <2>2 DEF GaveBack, Busy, NoCall, CallFields
<1>3. CASE call' = [call EXCEPT !.step = "return", !.ok = FALSE, !.context = {}]
  BY <1>1, <1>3 DEF GaveBack, Busy, NoCall, CallFields
<1> QED BY <1>2, <1>3 DEF InferShapes

LEMMA InferShapesKeeps == ASSUME IInv, InferShapes PROVE IInv'
<1>1. Busy /\ call.step = "infer_shapes" /\ ~MayHaveWork /\ call.temps = {}
  BY BusyAt DEF InferShapes, At, MayHaveWork, IInv, CallTyped, Early
<1>2. /\ pool' = Append(pool, Held)
      /\ UNCHANGED <<session, exists, refs, address, guards, size, queue>>
  BY DEF InferShapes, device
<1>3. GaveBack
  BY InferShapesGives
<1>4. call.context = {Held} /\ Held \in exists /\ Held \notin ToSet(pool)
  BY <1>1, HeldIs DEF WithContext
<1>5. /\ IsSeq(pool') /\ NoRepeats(pool') /\ ToSet(pool') = ToSet(pool) \cup {Held}
  BY <1>2, <1>4, Appended, Pushed DEF IInv, Placed
<1>6. CallTyped'
  BY <1>1, <1>2, <1>3 DEF IInv, CallTyped, GaveBack, Starting, WithContext, Early
<1>7. Placed'
  <2>1. \A g \in guards' : g.context \in exists' \ ToSet(pool')
    BY <1>1, <1>2, <1>4, <1>5 DEF IInv, Placed
  <2>2. Busy' => /\ session' = TRUE /\ call'.context \cap ToSet(pool') = {}
                 /\ \A g \in guards' : g.id # call'.id /\ g.context \notin call'.context
    BY <1>1, <1>2, <1>3 DEF IInv, Placed, GaveBack
  <2> QED BY <1>2, <1>4, <1>5, <2>1, <2>2 DEF IInv, Placed
<1>8. Counted'
  BY <1>2, CountKept DEF IInv
<1>9. Addressed'
  BY <1>1, <1>2, <1>3 DEF IInv, Addressed, GaveBack, OwnAll, Own
<1>10. WorkPlaced'
  <2>1. ASSUME NEW s \in Streams, NEW work \in ToSet(queue[s]) PROVE OfGuard(s, work)
    BY <1>1 DEF IInv, WorkPlaced, OfCall, Quiet, NoWorkOf
  <2>2. ASSUME NEW s \in Streams, NEW work \in ToSet(queue'[s]) PROVE OfGuard(s, work)'
    BY <1>2, <2>1 DEF OfGuard, Uses
  <2> QED BY <1>2, <2>2 DEF IInv, WorkPlaced
<1>11. Quiet'
  BY <1>1, <1>2, <1>3, QuietKept DEF IInv, GaveBack
<1> QED BY <1>6, <1>7, <1>8, <1>9, <1>10, <1>11 DEF IInv

-----------------------------------------------------------------------------
(* Inputs and outputs.                                                      *)

(* Work of the call is queued that uses what the call holds.                *)
LEMMA WorkAdded ==
    ASSUME WorkPlaced, Busy, Busy', NEW work, Enqueues(call.stream, work),
           work.id = call.id, Uses(work, call'.context, call'.temps),
           call'.id = call.id, call'.stream = call.stream,
           call.context \subseteq call'.context, call.temps \subseteq call'.temps,
           UNCHANGED guards
    PROVE  WorkPlaced'
<1>1. queue' = [queue EXCEPT ![call.stream] = Append(@, work)] /\ DOMAIN queue = Streams
  BY DEF Enqueues, WorkPlaced
<1>2. ASSUME NEW s \in Streams
      PROVE  /\ IsSeq(queue'[s])
             /\ \A w \in ToSet(queue'[s]) : w \in ToSet(queue[s]) \/ (s = call.stream /\ w = work)
  <2>1. IsSeq(queue[s])
    BY DEF WorkPlaced
  <2>2. /\ IsSeq(Append(queue[s], work))
        /\ ToSet(Append(queue[s], work)) = ToSet(queue[s]) \cup {work}
    BY <2>1, Appended
  <2>3. CASE s = call.stream
    BY <1>1, <2>2, <2>3
  <2>4. CASE s # call.stream
    BY <1>1, <2>1, <2>4
  <2> QED BY <2>3, <2>4
<1>3. ASSUME NEW s \in Streams, NEW w \in ToSet(queue'[s]) PROVE OfCall(s, w)' \/ OfGuard(s, w)'
  <2>1. CASE w \in ToSet(queue[s])
    <3>1. OfCall(s, w) \/ OfGuard(s, w)
      BY <2>1 DEF WorkPlaced
    <3>2. CASE OfCall(s, w)
      <4>1. Uses(w, call'.context, call'.temps)
        BY <3>2, UsesMore DEF OfCall
      <4> QED BY <3>2, <4>1 DEF OfCall, Uses
    <3>3. CASE OfGuard(s, w)
      BY <3>3 DEF OfGuard, Uses
    <3> QED BY <3>1, <3>2, <3>3
  <2>2. CASE s = call.stream /\ w = work
    BY <2>2 DEF OfCall, Uses
  <2> QED BY <1>2, <2>1, <2>2
<1>4. DOMAIN queue' = Streams
  BY <1>1
<1> QED BY <1>2, <1>3, <1>4 DEF WorkPlaced

(* The call has more buffers, and addresses of inputs or outputs.           *)
Grown(temps, inputs, outputs) ==
    /\ Busy' /\ DOMAIN call' = CallFields
    /\ call'.step = call.step /\ call'.ok = call.ok
    /\ SameCall /\ call'.copied = call.copied
    /\ call'.temps = call.temps \cup temps
    /\ call'.bound = inputs /\ call'.targets = outputs

LEMMA OwnMore ==
    ASSUME NEW f, NEW id, NEW S, NEW T, S \subseteq T, OwnAll(f, id, S)
    PROVE  OwnAll(f, id, T)
BY DEF OwnAll, Own

LEMMA OwnAppended ==
    ASSUME NEW q, IsSeq(q), NEW a, NEW id, NEW T, OwnAll(q, id, T), Own(a, id, T)
    PROVE  OwnAll(Append(q, a), id, T)
<1>1. /\ Len(q) \in Nat /\ DOMAIN q = 1 .. Len(q) /\ DOMAIN Append(q, a) = 1 .. Len(q) + 1
      /\ \A i \in DOMAIN q : Append(q, a)[i] = q[i]
      /\ Append(q, a)[Len(q) + 1] = a
  BY Appended
<1>2. ASSUME NEW i \in DOMAIN Append(q, a) PROVE Own(Append(q, a)[i], id, T)
  <2>1. i \in DOMAIN q \/ i = Len(q) + 1
    BY <1>1
  <2> QED BY <1>1, <2>1 DEF OwnAll
<1> QED BY <1>2 DEF OwnAll

LEMMA GrownKeeps ==
    ASSUME IInv, Busy, call.step \in {"inputs", "outputs"},
           NEW temps, NEW inputs, NEW outputs, Grown(temps, inputs, outputs),
           IsSeq(inputs), IsSeq(outputs),
           OwnAll(inputs, call.id, call.temps \cup temps),
           OwnAll(outputs, call.id, call.temps \cup temps),
           CopiesOut(call.kind) =>
               \A i \in DOMAIN outputs : /\ outputs[i].of = "buffer"
                                        /\ outputs[i].buffer \in call.temps \cup temps,
           DOMAIN address' = Contexts,
           \A c \in Contexts : DOMAIN Tensors \subseteq DOMAIN address'[c],
           OwnAll(address'[Held], call.id, call.temps \cup temps),
           temps \subseteq DOMAIN size', DOMAIN size \subseteq DOMAIN size',
           UNCHANGED <<session, exists, pool, refs, guards>>,
           WorkPlaced', temps # {} \/ UNCHANGED queue
    PROVE  IInv'
<1>1. call.context = {Held} /\ Held \in Contexts
  BY HeldIs DEF WithContext
<1>2. CallTyped'
  BY DEF IInv, CallTyped, Grown, SameCall, Starting, WithContext, Early
<1>3. Placed'
  BY PlaceKept DEF IInv, Grown, SameCall
<1>4. Counted'
  BY CountKept DEF IInv
<1>5. Addressed'
  <2>1. \A c \in Contexts : (DOMAIN Tensors)' \subseteq DOMAIN address'[c]
    BY DEF Tensors
  <2>2. \A c \in call'.context : OwnAll(address'[c], call'.id, call'.temps)
    BY <1>1 DEF Grown, SameCall
  <2>3. /\ OwnAll(call'.bound, call'.id, call'.temps)
        /\ OwnAll(call'.targets, call'.id, call'.temps)
        /\ CopiesOut(call'.kind) =>
               \A i \in DOMAIN call'.targets : /\ call'.targets[i].of = "buffer"
                                              /\ call'.targets[i].buffer \in call'.temps
    BY DEF Grown, SameCall
  <2> QED BY <2>1, <2>2, <2>3 DEF Addressed, OwnAll, Own, NullAddress, CopiesOut
<1>6. Quiet'
  <2>1. CASE temps # {}
    BY <2>1 DEF Quiet, Grown
  <2>2. CASE UNCHANGED queue
    <3>1. ~MayHaveWork
      BY DEF MayHaveWork
    <3> QED BY <2>2, <3>1, QuietKept DEF IInv, Grown, SameCall
  <2> QED BY <2>1, <2>2
<1> QED BY <1>2, <1>3, <1>4, <1>5, <1>6 DEF IInv

LEMMA StageInputKeeps == ASSUME IInv, StageInput PROVE IInv'
<1> DEFINE input == call.inputs[Len(call.bound) + 1]
<1>1. Busy /\ call.step = "inputs" /\ DOMAIN call = CallFields
  BY BusyAt DEF StageInput, At, IInv, CallTyped
<1>2. UNCHANGED <<session, exists, pool, refs, guards, address>>
  BY DEF StageInput, resources, bound
<1>3. \/ \E b \in Buffers \ DOMAIN size :
           /\ Allocates(b, input.bytes)
           /\ Enqueues(call.stream, [op |-> "copy_in", id |-> call.id,
                                     name |-> input.name, buffer |-> b])
           /\ call' = [call EXCEPT !.bound = Append(@, Temporary(b)), !.temps = @ \cup {b}]
      \/ /\ call' = [call EXCEPT !.bound = Append(@, CallerMemory(call.id, input)),
                                 !.temps = @ \cup {}]
         /\ UNCHANGED device
      \/ Fail /\ UNCHANGED device
  BY DEF StageInput
<1> HIDE DEF input
<1>4. /\ IsSeq(call.bound) /\ IsSeq(call.targets)
      /\ OwnAll(call.bound, call.id, call.temps) /\ OwnAll(call.targets, call.id, call.temps)
      /\ CopiesOut(call.kind) =>
             \A i \in DOMAIN call.targets : /\ call.targets[i].of = "buffer"
                                           /\ call.targets[i].buffer \in call.temps
  BY <1>1 DEF IInv, CallTyped, Addressed
<1>5. /\ DOMAIN address' = Contexts
      /\ \A c \in Contexts : DOMAIN Tensors \subseteq DOMAIN address'[c]
      /\ OwnAll(address'[Held], call.id, call.temps)
  BY <1>1, <1>2, HeldIs DEF IInv, Addressed, WithContext
<1>6. ASSUME NEW b \in Buffers \ DOMAIN size, Allocates(b, input.bytes),
             Enqueues(call.stream, [op |-> "copy_in", id |-> call.id,
                                    name |-> input.name, buffer |-> b]),
             call' = [call EXCEPT !.bound = Append(@, Temporary(b)), !.temps = @ \cup {b}]
      PROVE  IInv'
  <2> DEFINE a == Temporary(b)
             T == call.temps \cup {b}
             work == [op |-> "copy_in", id |-> call.id, name |-> input.name, buffer |-> b]
  <2>1. Grown({b}, Append(call.bound, a), call.targets)
    BY <1>1, <1>6 DEF Grown, SameCall, Busy, NoCall, CallFields
  <2>2. DOMAIN size' = DOMAIN size \cup {b}
    BY <1>6 DEF Allocates, With
  <2>3. Own(a, call.id, T)
    BY DEF Own, Temporary
  <2>4. work.id = call.id /\ Uses(work, call'.context, call'.temps)
    BY <2>1 DEF Uses, Grown
  <2>5. Enqueues(call.stream, work)
    BY <1>6
  <2> HIDE DEF a, T, work
  <2>6. /\ OwnAll(call.bound, call.id, T) /\ OwnAll(call.targets, call.id, T)
        /\ OwnAll(address'[Held], call.id, T)
    BY <1>4, <1>5, OwnMore DEF T
  <2>7. OwnAll(Append(call.bound, a), call.id, T) /\ IsSeq(Append(call.bound, a))
    BY <1>4, <2>3, <2>6, OwnAppended, Appended
  <2>8. WorkPlaced'
    BY <1>1, <1>2, <2>1, <2>4, <2>5, WorkAdded DEF Grown, SameCall, IInv
  <2> QED BY <1>1, <1>2, <1>4, <1>5, <2>1, <2>2, <2>6, <2>7, <2>8, GrownKeeps DEF T
<1>7. ASSUME call' = [call EXCEPT !.bound = Append(@, CallerMemory(call.id, input)),
                                  !.temps = @ \cup {}],
             UNCHANGED device
      PROVE  IInv'
  <2> DEFINE a == CallerMemory(call.id, input)
  <2>1. Grown({}, Append(call.bound, a), call.targets)
    BY <1>1, <1>7 DEF Grown, SameCall, Busy, NoCall, CallFields
  <2>2. Own(a, call.id, call.temps)
    BY DEF Own, CallerMemory
  <2> HIDE DEF a
  <2>3. OwnAll(Append(call.bound, a), call.id, call.temps) /\ IsSeq(Append(call.bound, a))
    BY <1>4, <2>2, OwnAppended, Appended
  <2>4. UNCHANGED <<size, queue>> /\ call.temps \cup {} = call.temps
    BY <1>7 DEF device
  <2>5. WorkPlaced'
    BY <1>1, <1>2, <2>1, <2>4, WorkSame DEF Grown, SameCall, IInv
  <2> QED BY <1>1, <1>2, <1>4, <1>5, <2>1, <2>3, <2>4, <2>5, GrownKeeps
<1>8. CASE Fail /\ UNCHANGED device
  <2>1. Moved("return", FALSE)
    BY <1>1, <1>8, FailMoves DEF IInv
  <2>2. Addressed'
    BY <1>1, <1>2, <2>1, AddressKept DEF IInv
  <2>3. ~MayHaveWork
    BY <1>1 DEF MayHaveWork
  <2> QED BY <1>1, <1>2, <1>8, <2>2, <2>3, FailKeeps DEF device
<1> QED BY <1>3, <1>6, <1>7, <1>8

LEMMA PrepareOutputKeeps == ASSUME IInv, PrepareOutput PROVE IInv'
<1> DEFINE output == call.outputs[Len(call.targets) + 1]
<1>1. Busy /\ call.step = "outputs" /\ DOMAIN call = CallFields
  BY BusyAt DEF PrepareOutput, At, IInv, CallTyped
<1>2. UNCHANGED <<session, exists, pool, refs, guards>>
  BY DEF PrepareOutput, resources
<1>3. \/ \E b \in Buffers \ DOMAIN size :
           /\ Allocates(b, output.bytes)
           /\ call' = [call EXCEPT !.targets = Append(@, Temporary(b)), !.temps = @ \cup {b}]
           /\ UNCHANGED <<queue, address>>
      \/ /\ ~CopiesOut(call.kind)
         /\ call' = [call EXCEPT !.targets = Append(@, CallerMemory(call.id, output)),
                                 !.temps = @ \cup {}]
         /\ address' = [address EXCEPT ![Held][output.name] = CallerMemory(call.id, output)]
         /\ UNCHANGED device
      \/ Fail /\ UNCHANGED <<device, address>>
  BY DEF PrepareOutput
<1> HIDE DEF output
<1>4. /\ IsSeq(call.bound) /\ IsSeq(call.targets)
      /\ OwnAll(call.bound, call.id, call.temps) /\ OwnAll(call.targets, call.id, call.temps)
      /\ CopiesOut(call.kind) =>
             \A i \in DOMAIN call.targets : /\ call.targets[i].of = "buffer"
                                           /\ call.targets[i].buffer \in call.temps
  BY <1>1 DEF IInv, CallTyped, Addressed
<1>5. /\ DOMAIN address = Contexts
      /\ \A c \in Contexts : DOMAIN Tensors \subseteq DOMAIN address[c]
      /\ OwnAll(address[Held], call.id, call.temps) /\ Held \in Contexts
  BY <1>1, HeldIs DEF IInv, Addressed, WithContext
<1>6. ASSUME NEW b \in Buffers \ DOMAIN size, Allocates(b, output.bytes),
             call' = [call EXCEPT !.targets = Append(@, Temporary(b)), !.temps = @ \cup {b}],
             UNCHANGED <<queue, address>>
      PROVE  IInv'
  <2> DEFINE a == Temporary(b)
             T == call.temps \cup {b}
             targets == Append(call.targets, a)
  <2>1. Grown({b}, call.bound, targets)
    BY <1>1, <1>6 DEF Grown, SameCall, Busy, NoCall, CallFields
  <2>2. DOMAIN size' = DOMAIN size \cup {b}
    BY <1>6 DEF Allocates, With
  <2>3. Own(a, call.id, T) /\ a.of = "buffer" /\ a.buffer \in T
    BY DEF Own, Temporary
  <2>4. /\ IsSeq(targets) /\ DOMAIN call.targets = 1 .. Len(call.targets)
        /\ Len(call.targets) \in Nat /\ DOMAIN targets = 1 .. Len(call.targets) + 1
        /\ \A i \in DOMAIN call.targets : targets[i] = call.targets[i]
        /\ targets[Len(call.targets) + 1] = a
    BY <1>4, Appended
  <2> HIDE DEF a, T
  <2>5. /\ OwnAll(call.bound, call.id, T) /\ OwnAll(call.targets, call.id, T)
        /\ OwnAll(address'[Held], call.id, T)
    BY <1>4, <1>5, <1>6, OwnMore DEF T
  <2>6. OwnAll(targets, call.id, T)
    BY <1>4, <2>3, <2>5, OwnAppended
  <2> HIDE DEF targets
  <2>7. CopiesOut(call.kind) =>
            \A i \in DOMAIN targets : targets[i].of = "buffer" /\ targets[i].buffer \in T
    <3>1. \A i \in DOMAIN targets : i \in DOMAIN call.targets \/ i = Len(call.targets) + 1
      BY <2>4
    <3> QED BY <1>4, <2>3, <2>4, <3>1 DEF T
  <2>8. WorkPlaced'
    BY <1>1, <1>2, <1>6, <2>1, WorkSame DEF Grown, SameCall, IInv
  <2>9. /\ DOMAIN address' = Contexts
        /\ \A c \in Contexts : DOMAIN Tensors \subseteq DOMAIN address'[c]
    BY <1>5, <1>6
  <2> QED BY <1>1, <1>2, <1>4, <2>1, <2>2, <2>4, <2>5, <2>6, <2>7, <2>8, <2>9, GrownKeeps DEF T
<1>7. ASSUME ~CopiesOut(call.kind),
             call' = [call EXCEPT !.targets = Append(@, CallerMemory(call.id, output)),
                                  !.temps = @ \cup {}],
             address' = [address EXCEPT ![Held][output.name] = CallerMemory(call.id, output)],
             UNCHANGED device
      PROVE  IInv'
  <2> DEFINE a == CallerMemory(call.id, output)
             targets == Append(call.targets, a)
  <2>1. Grown({}, call.bound, targets)
    BY <1>1, <1>7 DEF Grown, SameCall, Busy, NoCall, CallFields
  <2>2. Own(a, call.id, call.temps)
    BY DEF Own, CallerMemory
  <2>3. address' = [address EXCEPT ![Held] = [@ EXCEPT ![output.name] = a]]
    BY <1>7
  <2> HIDE DEF a
  <2>4. OwnAll(targets, call.id, call.temps) /\ IsSeq(targets)
    BY <1>4, <2>2, OwnAppended, Appended
  <2> HIDE DEF targets
  <2>5. /\ DOMAIN address' = Contexts
        /\ \A c \in Contexts : DOMAIN address'[c] = DOMAIN address[c]
        /\ \A n \in DOMAIN address'[Held] : address'[Held][n] \in {a, address[Held][n]}
    BY <1>5, <2>3
  <2>6. OwnAll(address'[Held], call.id, call.temps)
    BY <1>5, <2>2, <2>5 DEF OwnAll
  <2>7. UNCHANGED <<size, queue>> /\ call.temps \cup {} = call.temps
    BY <1>7 DEF device
  <2>8. WorkPlaced'
    BY <1>1, <1>2, <2>1, <2>7, WorkSame DEF Grown, SameCall, IInv
  <2>9. \A c \in Contexts : DOMAIN Tensors \subseteq DOMAIN address'[c]
    BY <1>5, <2>5
  <2>10. /\ OwnAll(call.bound, call.id, call.temps \cup {})
         /\ OwnAll(targets, call.id, call.temps \cup {})
         /\ OwnAll(address'[Held], call.id, call.temps \cup {})
    BY <1>4, <2>4, <2>6, <2>7
  <2>11. {} \subseteq DOMAIN size' /\ DOMAIN size \subseteq DOMAIN size' /\ UNCHANGED queue
    BY <2>7
  <2>12. CopiesOut(call.kind) =>
             \A i \in DOMAIN targets : /\ targets[i].of = "buffer"
                                      /\ targets[i].buffer \in call.temps \cup {}
    BY <1>7
  <2>13. IsSeq(call.bound) /\ IsSeq(targets) /\ DOMAIN address' = Contexts
    BY <1>4, <2>4, <2>5
  <2>14. call.step \in {"inputs", "outputs"}
    BY <1>1
  <2> QED BY <1>1, <1>2, <2>1, <2>8, <2>9, <2>10, <2>11, <2>12, <2>13, <2>14, GrownKeeps
<1>8. CASE Fail /\ UNCHANGED <<device, address>>
  <2>1. Moved("return", FALSE)
    BY <1>1, <1>8, FailMoves DEF IInv
  <2>2. Addressed'
    BY <1>1, <1>8, <2>1, AddressKept DEF IInv
  <2>3. ~MayHaveWork
    BY <1>1 DEF MayHaveWork
  <2> QED BY <1>1, <1>2, <1>8, <2>2, <2>3, FailKeeps DEF device
<1> QED BY <1>3, <1>6, <1>7, <1>8

-----------------------------------------------------------------------------
(* The launch, the copies and the wait.                                     *)

LEMMA EnqueueKeeps == ASSUME IInv, Enqueue PROVE IInv'
<1> DEFINE work == [op |-> "infer", id |-> call.id, context |-> Held,
                    address |-> address[Held], dims |-> ContextDims(Held)]
<1>1. Busy /\ call.step = "enqueue"
  BY BusyAt DEF Enqueue, At
<1>2. UNCHANGED <<session, exists, pool, refs, address, guards, size>>
  BY DEF Enqueue, resources, bound
<1>3. \/ Ready /\ Enqueues(call.stream, work) /\ Goto(AfterEnqueue)
      \/ Fail /\ UNCHANGED queue
  BY DEF Enqueue
<1>4. call.context = {Held} /\ Held \in exists \cap Contexts
  BY <1>1, HeldIs DEF WithContext
<1>5. CASE Ready /\ Enqueues(call.stream, work) /\ Goto(AfterEnqueue)
  <2>1. AfterEnqueue \in {"copy_out", "return", "synchronize"}
        /\ (AfterEnqueue = "copy_out" => CopiesOut(call.kind))
        /\ (AfterEnqueue = "return" => call.kind = "enqueue")
    BY DEF AfterEnqueue
  <2>2. Moved(AfterEnqueue, TRUE)
    <3>1. call.ok = TRUE
      BY <1>1 DEF IInv, CallTyped
    <3>2. Moved(AfterEnqueue, call.ok)
      BY <1>1, <1>5, <2>1, Went DEF IInv
    <3> QED BY <3>1, <3>2
  <2>3. MayMove(AfterEnqueue, TRUE)
    BY <1>1, <1>4, <2>1 DEF MayMove, IInv, CallTyped, WithContext, Early
  <2>4. CallTyped'
    BY <1>1, <1>2, <2>2, <2>3, MovedTyped DEF IInv
  <2>5. Placed'
    BY <1>1, <1>2, <2>2, PlaceKept DEF IInv, Moved, SameCall
  <2>6. Counted'
    BY <1>2, CountKept DEF IInv
  <2>7. Addressed'
    BY <1>1, <1>2, <2>2, AddressKept DEF IInv
  <2>8. WorkPlaced'
    <3>1. \A n \in DOMAIN Tensors : n \in DOMAIN address[Held] /\ address[Held][n] # NullAddress
      BY <1>4, <1>5 DEF Ready, IInv, Addressed
    <3>2. OwnAll(address[Held], call.id, call.temps)
      BY <1>1, <1>4 DEF IInv, Addressed
    <3>3. \A n \in DOMAIN Tensors :
              IF address[Held][n].of = "buffer" THEN address[Held][n].buffer \in call.temps
              ELSE address[Held][n].of = "caller" /\ address[Held][n].id = call.id
      BY <3>1, <3>2 DEF OwnAll, Own
    <3>4. Uses(work, call.context, call.temps)
      BY <1>4, <3>3 DEF Uses
    <3>5. work.id = call.id /\ Enqueues(call.stream, work)
      BY <1>5
    <3>6. /\ Busy' /\ call'.id = call.id /\ call'.stream = call.stream
          /\ call'.context = call.context /\ call'.temps = call.temps
      BY <2>2 DEF Moved, SameCall
    <3> HIDE DEF work
    <3> QED BY <1>1, <1>2, <3>4, <3>5, <3>6, WorkAdded DEF IInv
  <2>9. Quiet'
    <3>1. CASE AfterEnqueue \in {"copy_out", "synchronize"}
      BY <2>2, <3>1 DEF Quiet, MayHaveWork, Moved
    <3>2. CASE AfterEnqueue = "return"
      BY <2>1, <2>2, <3>2 DEF Quiet, MayHaveWork, Moved, SameCall
    <3> QED BY <2>1, <3>1, <3>2
  <2> QED BY <2>4, <2>5, <2>6, <2>7, <2>8, <2>9 DEF IInv
<1>6. CASE Fail /\ UNCHANGED queue
  <2>1. Addressed'
    BY <1>1, <1>2, <1>6, FailMoves, AddressKept DEF IInv
  <2>2. ~MayHaveWork
    BY <1>1 DEF MayHaveWork
  <2> QED BY <1>1, <1>2, <1>6, <2>1, <2>2, FailKeeps
<1> QED BY <1>3, <1>5, <1>6

LEMMA CopyOutKeeps == ASSUME IInv, CopyOut PROVE IInv'
<1> DEFINE i == call.copied + 1
           work == [op |-> "copy_out", id |-> call.id, name |-> call.outputs[i].name,
                    buffer |-> call.targets[i].buffer]
<1>1. Busy /\ call.step = "copy_out" /\ DOMAIN call = CallFields
  BY BusyAt DEF CopyOut, At, IInv, CallTyped
<1>2. UNCHANGED <<session, exists, pool, refs, address, guards, size>>
  BY DEF CopyOut, resources, bound
<1>3. \/ /\ call.copied < Len(call.outputs) /\ Enqueues(call.stream, work)
         /\ call' = [call EXCEPT !.copied = @ + 1]
      \/ call.copied < Len(call.outputs) /\ Fail /\ UNCHANGED queue
      \/ Goto("synchronize") /\ UNCHANGED queue
  BY DEF CopyOut
<1>4. /\ CopiesOut(call.kind) /\ call.copied \in Nat /\ IsSeq(call.targets)
      /\ Len(call.targets) = Len(call.outputs) /\ call.context # {}
  BY <1>1 DEF IInv, CallTyped, WithContext
<1>5. \A k \in DOMAIN call.targets : /\ call.targets[k].of = "buffer"
                                    /\ call.targets[k].buffer \in call.temps
  BY <1>1, <1>4 DEF IInv, Addressed
<1>6. call.copied < Len(call.outputs) => i \in DOMAIN call.targets
  <2>1. Len(call.targets) \in Nat /\ DOMAIN call.targets = 1 .. Len(call.targets)
    BY <1>4, Appended
  <2> QED BY <1>4, <2>1
<1>7. CASE /\ call.copied < Len(call.outputs) /\ Enqueues(call.stream, work)
           /\ call' = [call EXCEPT !.copied = @ + 1]
  <2>1. /\ Busy' /\ DOMAIN call' = CallFields /\ call'.step = "copy_out" /\ call'.ok = call.ok
        /\ SameCall /\ call'.copied = call.copied + 1 /\ call'.temps = call.temps
        /\ call'.bound = call.bound /\ call'.targets = call.targets
    BY <1>1, <1>7 DEF SameCall, Busy, NoCall, CallFields
  <2>2. CallTyped'
    BY <1>1, <1>2, <1>4, <2>1 DEF IInv, CallTyped, SameCall, Starting, WithContext, Early
  <2>3. Placed'
    BY <1>1, <1>2, <2>1, PlaceKept DEF IInv, SameCall
  <2>4. Counted'
    BY <1>2, CountKept DEF IInv
  <2>5. Addressed'
    BY <1>1, <1>2, <2>1 DEF IInv, Addressed, SameCall, OwnAll, Own
  <2>6. WorkPlaced'
    <3>1. work.id = call.id /\ Uses(work, call.context, call.temps)
      BY <1>5, <1>6, <1>7 DEF Uses
    <3>2. Enqueues(call.stream, work)
      BY <1>7
    <3> HIDE DEF work
    <3>3. Uses(work, call'.context, call'.temps)
      BY <2>1, <3>1 DEF SameCall
    <3> QED BY <1>1, <1>2, <2>1, <3>1, <3>2, <3>3, WorkAdded DEF IInv, SameCall
  <2>7. Quiet'
    BY <2>1 DEF Quiet, MayHaveWork
  <2> QED BY <2>2, <2>3, <2>4, <2>5, <2>6, <2>7 DEF IInv
<1>8. CASE call.copied < Len(call.outputs) /\ Fail /\ UNCHANGED queue
  <2>1. Addressed'
    BY <1>1, <1>2, <1>8, FailMoves, AddressKept DEF IInv
  <2>2. call.temps # {}
    BY <1>5, <1>6, <1>8
  <2> QED BY <1>1, <1>2, <1>8, <2>1, <2>2, FailKeeps
<1>9. CASE Goto("synchronize") /\ UNCHANGED queue
  <2>1. Moved("synchronize", TRUE)
    <3>1. call.ok = TRUE
      BY <1>1 DEF IInv, CallTyped
    <3>2. Moved("synchronize", call.ok)
      BY <1>1, <1>9, Went DEF IInv
    <3> QED BY <3>1, <3>2
  <2>2. MayMove("synchronize", TRUE)
    BY <1>4 DEF MayMove, WithContext, Early
  <2>3. Addressed'
    BY <1>1, <1>2, <2>1, AddressKept DEF IInv
  <2>4. Quiet'
    BY <2>1 DEF Quiet, MayHaveWork, Moved
  <2> QED BY <1>1, <1>2, <1>9, <2>1, <2>2, <2>3, <2>4, MoveKeeps
<1> QED BY <1>3, <1>7, <1>8, <1>9

LEMMA SynchronizeKeeps == ASSUME IInv, Synchronize PROVE IInv'
<1>1. Busy /\ call.step = "synchronize" /\ call.context # {} /\ call.ok = TRUE
  BY BusyAt DEF Synchronize, At, IInv, CallTyped, WithContext
<1>2. UNCHANGED <<session, exists, pool, refs, address, guards, size>>
  BY DEF Synchronize, resources, bound
<1>3. CASE Synchronized(call.stream) /\ Goto("return") /\ UNCHANGED <<queue, broken>>
  <2>1. Moved("return", TRUE)
    BY <1>1, <1>3, Went DEF IInv
  <2>2. MayMove("return", TRUE)
    BY <1>1 DEF MayMove, WithContext, Early
  <2>3. Addressed'
    BY <1>1, <1>2, <2>1, AddressKept DEF IInv
  <2>4. NoWorkOf(call.id)
    <3>1. ASSUME NEW s \in Streams, NEW work \in ToSet(queue[s]) PROVE work.id # call.id
      <4>1. s # call.stream
        BY <1>3, NothingIn DEF Synchronized
      <4>2. OfGuard(s, work)
        BY <4>1 DEF IInv, WorkPlaced, OfCall
      <4> QED BY <1>1, <4>2 DEF OfGuard, IInv, Placed
    <3> QED BY <3>1 DEF NoWorkOf
  <2>5. Quiet'
    BY <1>3, <2>1, <2>4 DEF Quiet, NoWorkOf, Moved, SameCall
  <2> QED BY <1>1, <1>2, <1>3, <2>1, <2>2, <2>3, <2>5, MoveKeeps
<1>4. CASE Abandoned /\ Fail
  <2>1. Moved("return", FALSE)
    BY <1>1, <1>4, FailMoves DEF IInv
  <2>2. CallTyped'
    <3>1. MayMove("return", FALSE)
      BY DEF MayMove
    <3> QED BY <1>1, <1>2, <2>1, <3>1, MovedTyped DEF IInv
  <2>3. Placed'
    BY <1>1, <1>2, <2>1, PlaceKept DEF IInv, Moved, SameCall
  <2>4. Counted'
    BY <1>2, CountKept DEF IInv
  <2>5. Addressed'
    BY <1>1, <1>2, <2>1, AddressKept DEF IInv
  <2>6. DOMAIN queue' = Streams /\ \A s \in Streams : IsSeq(queue'[s]) /\ ToSet(queue'[s]) = {}
    BY <1>4, NothingIn DEF Abandoned
  <2>7. WorkPlaced'
    BY <2>6 DEF WorkPlaced
  <2>8. Quiet'
    BY <2>6 DEF Quiet, NoWorkOf
  <2> QED BY <2>2, <2>3, <2>4, <2>5, <2>7, <2>8 DEF IInv
<1> QED BY <1>3, <1>4 DEF Synchronize

-----------------------------------------------------------------------------
(* The device, the guards and the Session.                                  *)

LEMMA WorkStepKeeps == ASSUME IInv, NEW s \in Streams, Work(s) PROVE IInv'
<1>1. /\ UNCHANGED <<session, refs, exists, pool, address, call, guards, size>>
      /\ queue' = [queue EXCEPT ![s] = Tail(@)] /\ queue[s] # <<>>
  BY DEF Work, resources, bound
<1>2. CallTyped'
  BY <1>1 DEF IInv, CallTyped, Busy
<1>3. Placed'
  BY <1>1 DEF IInv, Placed, Busy
<1>4. Counted'
  BY <1>1, CountKept DEF IInv
<1>5. Addressed'
  BY <1>1 DEF IInv, Addressed, Busy, OwnAll, Own
<1>6. /\ DOMAIN queue' = Streams
      /\ \A t \in Streams : IsSeq(queue'[t]) /\ ToSet(queue'[t]) \subseteq ToSet(queue[t])
  <2>1. DOMAIN queue = Streams /\ \A t \in Streams : IsSeq(queue[t])
    BY DEF IInv, WorkPlaced
  <2>2. IsSeq(Tail(queue[s])) /\ ToSet(Tail(queue[s])) \subseteq ToSet(queue[s])
    BY <1>1, <2>1, Tailed
  <2> QED BY <1>1, <2>1, <2>2
<1>7. WorkPlaced'
  <2>1. Busy => Busy'
    BY <1>1 DEF Busy
  <2> QED BY <1>1, <1>6, <2>1, WorkKept DEF IInv
<1>8. Quiet'
  BY <1>1, <1>6 DEF IInv, Quiet, NoWorkOf, Busy, MayHaveWork
<1> QED BY <1>2, <1>3, <1>4, <1>5, <1>7, <1>8 DEF IInv

(* Nothing is queued for a guard's inference, or it is given up.            *)
LEMMA EndGuardKeeps == ASSUME IInv, EndGuard PROVE IInv'
<1>1. PICK g \in guards :
         /\ \/ Synchronized(g.stream) /\ UNCHANGED queue
            \/ Abandoned
         /\ guards' = guards \ {g}
         /\ Destroy({g.context})
  BY DEF EndGuard
<1>2. /\ ~Busy /\ UNCHANGED <<session, pool, address, call, size>>
  BY DEF EndGuard, bound, Busy
<1>3. exists' = exists \ {g.context} /\ refs' = refs - 1
  BY <1>1 DEF Destroy, EngineRelease
<1>4. ~Busy'
  BY <1>2 DEF Busy
<1>5. g.context \in exists \ ToSet(pool) /\ \A h \in guards' : h.context # g.context
  BY <1>1 DEF IInv, Placed
<1>6. CallTyped'
  BY <1>4 DEF CallTyped
<1>7. Placed'
  <2>1. \A h \in guards' : h.context \in exists' \ ToSet(pool')
    BY <1>1, <1>2, <1>3, <1>5 DEF IInv, Placed
  <2>2. ToSet(pool') \subseteq exists' /\ IsSeq(pool') /\ NoRepeats(pool')
    BY <1>2, <1>3, <1>5 DEF IInv, Placed
  <2> QED BY <1>1, <1>3, <1>4, <2>1, <2>2 DEF IInv, Placed
<1>8. Counted'
  <2>1. /\ IsFiniteSet(exists) /\ Cardinality(exists) \in Nat
        /\ refs = Cardinality(exists) + (IF session = TRUE THEN 1 ELSE 0)
    BY FS_CardinalityType DEF IInv, Counted
  <2>2. IsFiniteSet(exists') /\ Cardinality(exists') = Cardinality(exists) - 1
    BY <1>3, <1>5, <2>1, FS_RemoveElement
  <2> QED BY <1>2, <1>3, <2>1, <2>2 DEF IInv, Counted
<1>9. Addressed'
  BY <1>2, <1>4 DEF IInv, Addressed
<1>10. WorkPlaced'
  <2>1. CASE Synchronized(g.stream) /\ UNCHANGED queue
    <3>1. ASSUME NEW s \in Streams, NEW work \in ToSet(queue[s]) PROVE OfGuard(s, work)'
      <4>1. PICK h \in guards : work.id = h.id /\ s = h.stream /\ Uses(work, {h.context}, {})
        BY <1>2 DEF IInv, WorkPlaced, OfCall, OfGuard
      <4>2. h # g
        BY <2>1, <4>1, NothingIn DEF Synchronized
      <4> QED BY <1>1, <4>1, <4>2 DEF OfGuard, Uses
    <3> QED BY <2>1, <3>1 DEF IInv, WorkPlaced
  <2>2. CASE Abandoned
    BY <2>2, NothingIn DEF Abandoned, WorkPlaced
  <2> QED BY <1>1, <2>1, <2>2
<1>11. Quiet'
  BY <1>4 DEF Quiet
<1> QED BY <1>6, <1>7, <1>8, <1>9, <1>10, <1>11 DEF IInv

(* No context is left when the engine is gone.                              *)
LEMMA OpenSessionKeeps == ASSUME IInv, OpenSession PROVE IInv'
<1>1. /\ ~session /\ refs = 0 /\ session' = TRUE /\ refs' = 1
      /\ UNCHANGED <<exists, pool, address, call, guards, size, queue>>
  BY DEF OpenSession, bound, device
<1>2. session # TRUE /\ ~Busy /\ ~Busy'
  BY <1>1 DEF IInv, Placed, Counted, Busy
<1>3. IsFiniteSet(exists) /\ Cardinality(exists) = 0
  <2>1. IsFiniteSet(exists) /\ refs = Cardinality(exists) + (IF session = TRUE THEN 1 ELSE 0)
    BY DEF IInv, Counted
  <2>2. Cardinality(exists) \in Nat
    BY <2>1, FS_CardinalityType
  <2> QED BY <1>1, <1>2, <2>1, <2>2
<1>4. Counted'
  BY <1>1, <1>3 DEF Counted
<1>5. Placed'
  BY <1>1, <1>2 DEF IInv, Placed
<1>6. Addressed'
  BY <1>1, <1>2 DEF IInv, Addressed
<1>7. WorkPlaced'
  BY <1>1, <1>2, WorkSame DEF IInv
<1>8. CallTyped' /\ Quiet'
  BY <1>2 DEF CallTyped, Quiet
<1> QED BY <1>4, <1>5, <1>6, <1>7, <1>8 DEF IInv

(* The pool's contexts are as many as its length.                           *)
LEMMA PoolSize ==
    ASSUME NEW q, IsSeq(q), NoRepeats(q)
    PROVE  IsFiniteSet(ToSet(q)) /\ Cardinality(ToSet(q)) = Len(q)
<1> DEFINE S == ToSet(q)
<1>1. q \in Seq(S) /\ Len(q) \in Nat /\ DOMAIN q = 1 .. Len(q)
  BY DEF IsSeq
<1>2. q \in Bijection(1 .. Len(q), S)
  <2>1. q \in [1 .. Len(q) -> S]
    BY <1>1
  <2>2. \A a, b \in 1 .. Len(q) : q[a] = q[b] => a = b
    BY <1>1 DEF NoRepeats
  <2>3. \A x \in S : \E a \in 1 .. Len(q) : q[a] = x
    BY <1>1 DEF ToSet
  <2> HIDE DEF S
  <2> QED BY <2>1, <2>2, <2>3 DEF Bijection, Injection, Surjection, IsInjective
<1>3. IsFiniteSet(1 .. Len(q)) /\ Cardinality(1 .. Len(q)) = Len(q)
  BY <1>1, FS_Interval
<1>4. ExistsBijection(1 .. Len(q), S)
  BY <1>2 DEF ExistsBijection
<1> HIDE DEF S
<1> QED BY <1>3, <1>4, FS_Bijection DEF S

LEMMA Removed ==
    ASSUME NEW S, NEW T, IsFiniteSet(S), T \subseteq S
    PROVE  IsFiniteSet(S \ T) /\ Cardinality(S \ T) = Cardinality(S) - Cardinality(T)
<1>1. S \cap T = T
  OBVIOUS
<1> QED BY <1>1, FS_Difference

LEMMA DropSessionKeeps == ASSUME IInv, DropSession PROVE IInv'
<1>1. /\ session' = FALSE /\ pool' = <<>> /\ exists' = exists \ ToSet(pool)
      /\ refs' = refs - 1 - Len(pool)
      /\ UNCHANGED <<address, call, guards, size, queue>>
  BY DEF DropSession, bound, device, EngineRelease
<1>2. ~Busy /\ ~Busy' /\ session = TRUE
  BY DEF DropSession, Busy, IInv, Counted
<1>3. IsSeq(pool') /\ ToSet(pool') = {} /\ NoRepeats(pool')
  BY <1>1, NothingIn DEF NoRepeats
<1>4. Placed'
  BY <1>1, <1>2, <1>3 DEF IInv, Placed
<1>5. Counted'
  <2>1. /\ IsFiniteSet(exists) /\ refs = Cardinality(exists) + 1
        /\ IsSeq(pool) /\ NoRepeats(pool) /\ ToSet(pool) \subseteq exists
    BY <1>2 DEF IInv, Counted, Placed
  <2>2. IsFiniteSet(ToSet(pool)) /\ Cardinality(ToSet(pool)) = Len(pool)
    BY <2>1, PoolSize
  <2>4. /\ IsFiniteSet(exists')
        /\ Cardinality(exists') = Cardinality(exists) - Cardinality(ToSet(pool))
    BY <1>1, <2>1, Removed
  <2>5. Cardinality(exists) \in Nat /\ Cardinality(exists') \in Nat /\ Len(pool) \in Nat
    BY <2>1, <2>4, Appended, FS_CardinalityType
  <2>6. refs' = Cardinality(exists')
    BY <1>1, <2>1, <2>2, <2>4, <2>5
  <2>7. session' \in BOOLEAN /\ session' # TRUE
    BY <1>1, Zenon
  <2>8. (IF session' = TRUE THEN 1 ELSE 0) = 0
    BY <2>7, Zenon
  <2>9. refs' = Cardinality(exists') + (IF session' = TRUE THEN 1 ELSE 0)
    <3>1. Cardinality(exists') + 0 = Cardinality(exists')
      BY <2>5
    <3> QED BY <2>6, <2>8, <3>1, Zenon
  <2> QED BY <2>4, <2>7, <2>9, Zenon DEF Counted
<1>6. Addressed'
  BY <1>1, <1>2 DEF IInv, Addressed
<1>7. WorkPlaced'
  BY <1>1, <1>2, WorkSame DEF IInv
<1>8. CallTyped' /\ Quiet'
  BY <1>2 DEF CallTyped, Quiet
<1> QED BY <1>4, <1>5, <1>6, <1>7, <1>8 DEF IInv

-----------------------------------------------------------------------------
(* The return.                                                              *)

InFlight == call.kind = "enqueue" /\ call.ok

(* A call that leaves no guard has no work any more: its buffers, if any,   *)
(* were freed, which waits for the device.                                  *)
LEMMA Returned ==
    ASSUME IInv, Return, ~InFlight
    PROVE  WorkPlaced'
<1>1. Busy /\ call.step = "return" /\ guards' = guards /\ queue' = queue
  BY BusyAt DEF Return, InFlight, At
<1>2. NoWorkOf(call.id)
  <2>1. CASE call.temps # {}
    BY <2>1, NothingIn DEF Return, Freed, NoWorkOf
  <2>2. CASE call.temps = {}
    <3>1. ~MayHaveWork
      BY <1>1 DEF MayHaveWork, InFlight
    <3> QED BY <1>1, <2>2, <3>1 DEF IInv, Quiet
  <2> QED BY <2>1, <2>2
<1>3. ASSUME NEW s \in Streams, NEW work \in ToSet(queue[s]) PROVE OfGuard(s, work)
  BY <1>2 DEF IInv, WorkPlaced, OfCall, NoWorkOf
<1>4. ASSUME NEW s \in Streams, NEW work \in ToSet(queue'[s]) PROVE OfGuard(s, work)'
  BY <1>1, <1>3 DEF OfGuard, Uses
<1> QED BY <1>1, <1>4 DEF IInv, WorkPlaced

(* The context and the work of an inference pass to its guard.              *)
LEMMA GuardTakes ==
    ASSUME IInv, Return, InFlight
    PROVE  Placed' /\ Counted' /\ WorkPlaced'
<1> DEFINE g == [id |-> call.id, stream |-> call.stream, context |-> Held]
<1>1. Busy /\ call.step = "return" /\ call.kind = "enqueue" /\ call.ok = TRUE
  BY BusyAt DEF Return, InFlight, At
<1>2. /\ guards' = guards \cup {g} /\ UNCHANGED <<session, pool, exists, refs, queue>>
      /\ call' = NoCall /\ (call.temps # {} => \A s \in Streams : queue[s] = <<>>)
  <2>1. ~Pooled(call.kind)
    BY <1>1 DEF Pooled
  <2>2. guards' = guards \cup {g} /\ UNCHANGED <<session, queue>> /\ call' = NoCall
    BY DEF Return, InFlight
  <2>3. Destroy({}) /\ UNCHANGED pool
    BY <2>1 DEF Return, InFlight
  <2>4. Freed(call.temps)
    BY DEF Return
  <2> QED BY <2>2, <2>3, <2>4 DEF Destroy, Freed
<1>3. PICK c \in exists : call.context = {c}
  BY <1>1 DEF IInv, CallTyped
<1>4. Held = c
  BY <1>3 DEF Held
<1>5. g.id = call.id /\ g.stream = call.stream /\ g.context = c
  BY <1>4
<1> HIDE DEF g
<1>6. ~Busy'
  BY <1>2 DEF Busy
<1>7. Placed'
  <2>1. c \notin ToSet(pool) /\ \A h \in guards : h.id # g.id /\ h.context # g.context
    BY <1>1, <1>3, <1>5 DEF IInv, Placed
  <2>2. \A h \in guards' : h.context \in exists' \ ToSet(pool')
    BY <1>2, <1>5, <2>1 DEF IInv, Placed
  <2>3. \A h, k \in guards' : h.id = k.id \/ h.context = k.context => h = k
    BY <1>2, <2>1 DEF IInv, Placed
  <2>4. /\ exists' \subseteq Contexts
        /\ IsSeq(pool') /\ ToSet(pool') \subseteq exists' /\ NoRepeats(pool')
    BY <1>2 DEF IInv, Placed
  <2> QED BY <1>6, <2>2, <2>3, <2>4 DEF Placed
<1>8. Counted'
  BY <1>2, CountKept DEF IInv
<1>9. WorkPlaced'
  <2>1. ASSUME NEW s \in Streams, NEW work \in ToSet(queue[s]) PROVE OfGuard(s, work)'
    <3>1. OfCall(s, work) \/ OfGuard(s, work)
      BY DEF IInv, WorkPlaced
    <3>2. CASE OfCall(s, work)
      <4>1. call.temps = {}
        BY <1>2, NothingIn
      <4>2. work.id = g.id /\ s = g.stream /\ Uses(work, {g.context}, {})
        BY <1>3, <1>5, <3>2, <4>1 DEF OfCall
      <4>3. g \in guards'
        BY <1>2
      <4> QED BY <4>2, <4>3 DEF OfGuard, Uses
    <3>3. CASE OfGuard(s, work)
      BY <1>2, <3>3 DEF OfGuard, Uses
    <3> QED BY <3>1, <3>2, <3>3
  <2> QED BY <1>2, <2>1 DEF IInv, WorkPlaced
<1> QED BY <1>7, <1>8, <1>9

LEMMA PoolTakes ==
    ASSUME IInv, Return, ~InFlight, Pooled(call.kind)
    PROVE  Placed' /\ Counted'
<1>1. Busy /\ call.step = "return"
  BY BusyAt DEF Return, At
<1>2. /\ guards' = guards /\ pool' = pool \o SetToSeq(call.context)
      /\ UNCHANGED <<session, exists, refs>> /\ call' = NoCall
  BY DEF Return, InFlight
<1>3. ~Busy'
  BY <1>2 DEF Busy
<1>4. Counted'
  BY <1>2, CountKept DEF IInv
<1>5. /\ IsSeq(pool') /\ NoRepeats(pool') /\ ToSet(pool') = ToSet(pool) \cup call.context
      /\ call.context \subseteq exists
  <2>1. IsSeq(pool) /\ NoRepeats(pool)
    BY DEF IInv, Placed
  <2>2. CASE call.context = {}
    BY <1>2, <2>1, <2>2, SingletonSeq, Joined
  <2>3. ASSUME NEW c \in exists, call.context = {c}
        PROVE  /\ IsSeq(pool') /\ NoRepeats(pool') /\ ToSet(pool') = ToSet(pool) \cup {c}
    <3>1. c \notin ToSet(pool)
      BY <1>1, <2>3 DEF IInv, Placed
    <3>2. pool' = Append(pool, c)
      BY <1>2, <2>1, <2>3, SingletonSeq, Joined
    <3> QED BY <2>1, <3>1, <3>2, Appended, Pushed
  <2>4. call.context = {} \/ \E c \in exists : call.context = {c}
    BY <1>1 DEF IInv, CallTyped
  <2> QED BY <2>2, <2>3, <2>4
<1>6. Placed'
  <2>1. \A g \in guards' : g.context \in exists' \ ToSet(pool')
    BY <1>1, <1>2, <1>5 DEF IInv, Placed
  <2>2. ToSet(pool') \subseteq exists'
    BY <1>2, <1>5 DEF IInv, Placed
  <2> QED BY <1>2, <1>3, <1>5, <2>1, <2>2 DEF IInv, Placed
<1> QED BY <1>4, <1>6

LEMMA ContextEnds ==
    ASSUME IInv, Return, ~InFlight, ~Pooled(call.kind)
    PROVE  Placed' /\ Counted'
<1>1. Busy /\ call.step = "return"
  BY BusyAt DEF Return, At
<1>2. guards' = guards /\ Destroy(call.context) /\ UNCHANGED <<session, pool>> /\ call' = NoCall
  BY DEF Return, InFlight
<1>3. ~Busy'
  BY <1>2 DEF Busy
<1>4. exists' = exists \ call.context
  BY <1>2 DEF Destroy
<1>5. Placed'
  <2>1. \A g \in guards' : g.context \in exists' \ ToSet(pool')
    BY <1>1, <1>2, <1>4 DEF IInv, Placed
  <2>2. ToSet(pool') \subseteq exists'
    BY <1>1, <1>2, <1>4 DEF IInv, Placed
  <2> QED BY <1>2, <1>3, <1>4, <2>1, <2>2 DEF IInv, Placed
<1>6. Counted'
  <2>1. CASE call.context = {}
    <3>1. UNCHANGED <<session, exists, refs>>
      BY <1>2, <1>4, <2>1 DEF Destroy
    <3> QED BY <3>1, CountKept DEF IInv
  <2>2. ASSUME NEW c \in exists, call.context = {c} PROVE Counted'
    <3>1. /\ IsFiniteSet(exists) /\ Cardinality(exists) \in Nat
          /\ refs = Cardinality(exists) + (IF session = TRUE THEN 1 ELSE 0)
      BY FS_CardinalityType DEF IInv, Counted
    <3>2. IsFiniteSet(exists') /\ Cardinality(exists') = Cardinality(exists) - 1
      BY <1>4, <2>2, <3>1, FS_RemoveElement
    <3>3. refs' = refs - 1
      BY <1>2, <2>2 DEF Destroy, EngineRelease
    <3> QED BY <1>2, <3>1, <3>2, <3>3 DEF IInv, Counted
  <2>3. call.context = {} \/ \E c \in exists : call.context = {c}
    BY <1>1 DEF IInv, CallTyped
  <2> QED BY <2>1, <2>2, <2>3
<1> QED BY <1>5, <1>6

LEMMA ReturnKeeps == ASSUME IInv, Return PROVE IInv'
<1>1. Placed' /\ Counted' /\ WorkPlaced'
  BY Returned, GuardTakes, PoolTakes, ContextEnds
<1>2. ~Busy' /\ UNCHANGED address
  BY DEF Return, Busy, bound
<1>3. CallTyped' /\ Quiet'
  BY <1>2 DEF CallTyped, Quiet
<1>4. Addressed'
  BY <1>2 DEF IInv, Addressed
<1> QED BY <1>1, <1>3, <1>4 DEF IInv

-----------------------------------------------------------------------------
(* The invariant, and what it says.                                         *)

LEMMA InitKeeps == ASSUME Init PROVE IInv
<1>1. ~Busy /\ guards = {}
  BY DEF Init, Busy
<1>2. Placed
  BY <1>1, NothingIn DEF Init, Placed, NoRepeats
<1>3. Counted
  BY FS_EmptySet DEF Init, Counted
<1>4. Addressed
  BY <1>1 DEF Init, Addressed, Unbound
<1>5. WorkPlaced
  BY NothingIn DEF Init, WorkPlaced
<1>6. CallTyped /\ Quiet
  BY <1>1 DEF CallTyped, Quiet
<1> QED BY <1>2, <1>3, <1>4, <1>5, <1>6 DEF IInv

LEMMA ContextStepsKeep == ASSUME IInv, GetContext \/ InferContext PROVE IInv'
<1>1. CASE GetContext
  <2>1. Busy /\ call.step = "context" /\ Acquire("shapes")
    BY <1>1, BusyAt DEF GetContext, At
  <2> QED BY <2>1, AcquireKeeps
<1>2. CASE InferContext
  <2>1. Busy /\ call.step = "infer" /\ Acquire("infer_shapes")
    BY <1>2, BusyAt DEF InferContext, At
  <2> QED BY <2>1, AcquireKeeps
<1> QED BY <1>1, <1>2

LEMMA StutterKeeps == ASSUME IInv, UNCHANGED vars PROVE IInv'
<1>1. UNCHANGED <<session, refs, exists, pool, address, call, guards, size, queue>>
  BY DEF vars, resources, bound, device
<1>2. CallTyped' /\ Placed' /\ Counted' /\ Quiet'
  <2>1. CallTyped'
    BY <1>1 DEF IInv, CallTyped, Busy
  <2>2. Placed'
    BY <1>1 DEF IInv, Placed, Busy
  <2>3. Counted'
    BY <1>1, CountKept DEF IInv
  <2>4. Quiet'
    BY <1>1 DEF IInv, Quiet, NoWorkOf, Busy, MayHaveWork
  <2> QED BY <2>1, <2>2, <2>3, <2>4
<1>3. Addressed'
  BY <1>1 DEF IInv, Addressed, Busy, OwnAll, Own
<1>4. WorkPlaced'
  <2>1. Busy => Busy'
    BY <1>1 DEF Busy
  <2> QED BY <1>1, <2>1, WorkSame DEF IInv
<1> QED BY <1>2, <1>3, <1>4 DEF IInv

(***************************************************************************)
(* What the session, a call under way, the guards and the device's work    *)
(* share stays consistent in every step, whatever fails: every context is  *)
(* in one place, the handles of the engine are counted, a context is bound *)
(* to memory of its own call only, and work belongs to who waits for it.   *)
(***************************************************************************)
THEOREM StagedInvariant == Spec => []IInv
<1>1. Init => IInv
  BY InitKeeps
<1>2. IInv /\ [Next]_vars => IInv'
  <2> SUFFICES ASSUME IInv, [Next]_vars PROVE IInv'
    OBVIOUS
  <2>1. CASE Begin
    BY <2>1, BeginKeeps
  <2>2. CASE GetContext \/ InferContext
    BY <2>2, ContextStepsKeep
  <2>3. CASE InferShapes
    BY <2>3, InferShapesKeeps
  <2>4. CASE SetShapes
    BY <2>4, SetShapesKeeps
  <2>5. CASE StageInput
    BY <2>5, StageInputKeeps
  <2>6. CASE BindInputs
    BY <2>6, BindInputsKeeps
  <2>7. CASE PrepareOutput
    BY <2>7, PrepareOutputKeeps
  <2>8. CASE BindOutputs
    BY <2>8, BindOutputsKeeps
  <2>9. CASE Enqueue
    BY <2>9, EnqueueKeeps
  <2>10. CASE CopyOut
    BY <2>10, CopyOutKeeps
  <2>11. CASE Synchronize
    BY <2>11, SynchronizeKeeps
  <2>12. CASE Return
    BY <2>12, ReturnKeeps
  <2>13. CASE EndGuard
    BY <2>13, EndGuardKeeps
  <2>14. CASE DropSession
    BY <2>14, DropSessionKeeps
  <2>15. CASE OpenSession
    BY <2>15, OpenSessionKeeps
  <2>16. CASE \E s \in Streams : Work(s)
    BY <2>16, WorkStepKeeps
  <2>17. CASE UNCHANGED vars
    BY <2>17, StutterKeeps
  <2> QED BY <2>1, <2>2, <2>3, <2>4, <2>5, <2>6, <2>7, <2>8, <2>9, <2>10, <2>11, <2>12,
             <2>13, <2>14, <2>15, <2>16, <2>17 DEF Next
<1> QED BY <1>1, <1>2, PTL DEF Spec

(* Work uses only contexts that exist and buffers that live, if it uses     *)
(* only what a call or a guard holds.                                       *)
LEMMA UsesOwned ==
    ASSUME NEW work, NEW contexts, NEW temps, Uses(work, contexts, temps),
           contexts \subseteq exists, temps \subseteq DOMAIN size
    PROVE  UsesOnly(work, contexts, temps)
BY DEF Uses, UsesOnly

(***************************************************************************)
(* The context, the buffers and the memory of queued work are those of the *)
(* call under way or of a guard, and are there: an early return frees its  *)
(* buffers only when the device is idle, and no context goes back to the   *)
(* pool, or is destroyed, with work in flight.                             *)
(***************************************************************************)
THEOREM QueuedWorkOwned == Spec => []WorkOwned
<1>1. ASSUME IInv PROVE WorkOwned
  <2>1. ASSUME NEW s \in Streams, NEW work \in ToSet(queue[s])
        PROVE  \/ call # NoCall /\ call.id = work.id /\ UsesOnly(work, call.context, call.temps)
               \/ \E g \in guards : g.id = work.id /\ UsesOnly(work, {g.context}, {})
    <3>1. OfCall(s, work) \/ OfGuard(s, work)
      BY <1>1 DEF IInv, WorkPlaced
    <3>2. CASE OfCall(s, work)
      <4>1. call # NoCall /\ call.id = work.id /\ Uses(work, call.context, call.temps)
        BY <3>2 DEF OfCall, Busy
      <4>2. call.context \subseteq exists /\ call.temps \subseteq DOMAIN size
        BY <1>1, <4>1 DEF IInv, CallTyped, Busy
      <4> QED BY <4>1, <4>2, UsesOwned
    <3>3. CASE OfGuard(s, work)
      <4>1. PICK g \in guards : work.id = g.id /\ Uses(work, {g.context}, {})
        BY <3>3 DEF OfGuard
      <4>2. {g.context} \subseteq exists /\ {} \subseteq DOMAIN size
        BY <1>1, <4>1 DEF IInv, Placed
      <4> QED BY <4>1, <4>2, UsesOwned
    <3> QED BY <3>1, <3>2, <3>3
  <2> QED BY <2>1 DEF WorkOwned
<1> QED BY <1>1, StagedInvariant, PTL

(***************************************************************************)
(* When the last handle of the engine is dropped and the engine destroyed, *)
(* no context is left, and no inference in flight, also when guards        *)
(* outlive the Session.                                                    *)
(***************************************************************************)
THEOREM EngineOutlives == Spec => []ReleasedInOrder
<1>1. ASSUME IInv PROVE ReleasedInOrder
  <2> SUFFICES ASSUME refs = 0
               PROVE  exists = {} /\ \A s \in Streams : queue[s] = <<>>
    BY DEF ReleasedInOrder
  <2>1. /\ IsFiniteSet(exists) /\ Cardinality(exists) \in Nat /\ session \in BOOLEAN
        /\ refs = Cardinality(exists) + (IF session = TRUE THEN 1 ELSE 0)
    BY <1>1, FS_CardinalityType DEF IInv, Counted
  <2>2. Cardinality(exists) = 0 /\ session # TRUE
    <3>1. CASE session = TRUE
      <4>1. refs = Cardinality(exists) + 1
        BY <2>1, <3>1
      <4> QED BY <2>1, <4>1
    <3>2. CASE session # TRUE
      <4>1. refs = Cardinality(exists) + 0
        BY <2>1, <3>2
      <4>2. Cardinality(exists) = 0
        BY <2>1, <4>1
      <4> QED BY <3>2, <4>2, Zenon
    <3> QED BY <3>1, <3>2
  <2>3. exists = {}
    BY <2>1, <2>2, FS_EmptySet
  <2>4. ~Busy /\ guards = {}
    BY <1>1, <2>2, <2>3 DEF IInv, Placed
  <2>5. ASSUME NEW s \in Streams PROVE queue[s] = <<>>
    <3>1. IsSeq(queue[s]) /\ ToSet(queue[s]) = {}
      BY <1>1, <2>4 DEF IInv, WorkPlaced, OfCall, OfGuard
    <3>2. Len(queue[s]) \in Nat /\ DOMAIN queue[s] = 1 .. Len(queue[s])
      BY <3>1, Appended
    <3>3. \A i \in DOMAIN queue[s] : queue[s][i] \in ToSet(queue[s])
      BY <3>2 DEF ToSet
    <3>4. DOMAIN queue[s] = {}
      BY <3>1, <3>3
    <3>5. Len(queue[s]) = 0
      <4>1. 1 \notin 1 .. Len(queue[s])
        BY <3>2, <3>4
      <4> QED BY <3>2, <4>1
    <3> QED BY <3>1, <3>5 DEF IsSeq
  <2> QED BY <2>3, <2>5
<1> QED BY <1>1, StagedInvariant, PTL

===============================================================================
