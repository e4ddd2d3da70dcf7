-------------------------- MODULE PreparedRunProofs --------------------------
(***************************************************************************)
(* Proofs about PreparedRun for every value of its constants.              *)
(***************************************************************************)
EXTENDS PreparedRun, TLAPS

LEMMA CallTyped ==
    ASSUME TypeOK, ~Free
    PROVE  /\ call \in Calls
           /\ call.stream \in Streams
           /\ call.asked \in Asked
BY DEF TypeOK, Free, Calls

LEMMA CopyTyped ==
    ASSUME TypeOK, ~Free, next \in Staged
    PROVE  Copy(next) \in Ops
BY CallTyped DEF Copy, Ops

LEMMA InferenceTyped ==
    ASSUME TypeOK, ~Free
    PROVE  Inference \in Ops
BY CallTyped DEF Inference, Ops, TypeOK

LEMMA EnqueueTyped ==
    ASSUME TypeOK, ~Free, NEW op \in Ops, Enqueue(op)
    PROVE  queue' \in [Streams -> Seq(Ops)]
BY CallTyped DEF TypeOK, Enqueue

LEMMA AddressTyped ==
    ASSUME TypeOK, ~Free
    PROVE  /\ \A i \in 1 .. N : Address(i) \in Values \cup {None, Buffer}
           /\ \A n \in Nat : BoundUpTo(n) \in Addresses
<1>1. \A i \in 1 .. N : Address(i) \in Values \cup {None, Buffer}
  BY CallTyped DEF Address, Asked
<1> QED BY <1>1 DEF BoundUpTo, Addresses, TypeOK

LEMMA ReturnTyped ==
    ASSUME TypeOK, Return, bound' \in Addresses, UNCHANGED <<staging, queue>>
    PROVE  TypeOK'
<1>1. 1 \in 1 .. N + 1
  BY PreparedAssumption
<1> QED BY <1>1 DEF TypeOK, Return

(* The head of a stream, and what completing it leaves.                     *)
LEMMA GpuTail ==
    ASSUME TypeOK, NEW s \in Streams, GpuStep(s)
    PROVE  /\ Head(queue[s]) = queue[s][1] /\ queue[s][1] \in Ops
           /\ 1 \in DOMAIN queue[s]
           /\ queue'[s] = Tail(queue[s])
           /\ Len(queue'[s]) = Len(queue[s]) - 1
           /\ \A j \in DOMAIN queue'[s] :
                 j + 1 \in DOMAIN queue[s] /\ queue'[s][j] = queue[s][j + 1]
           /\ \A t \in Streams \ {s} : queue'[t] = queue[t]
<1>1. queue[s] \in Seq(Ops) /\ queue[s] # <<>>
  BY DEF TypeOK, GpuStep
<1>2. queue'[s] = Tail(queue[s]) /\ \A t \in Streams \ {s} : queue'[t] = queue[t]
  BY DEF TypeOK, GpuStep
<1>3. 1 \in DOMAIN queue[s] /\ Head(queue[s]) = queue[s][1] /\ queue[s][1] \in Ops
  BY <1>1
<1>4. Len(Tail(queue[s])) = Len(queue[s]) - 1
      /\ \A j \in 1 .. Len(queue[s]) - 1 : Tail(queue[s])[j] = queue[s][j + 1]
  BY <1>1
<1>5. DOMAIN Tail(queue[s]) = 1 .. Len(queue[s]) - 1 /\ DOMAIN queue[s] = 1 .. Len(queue[s])
      /\ Len(queue[s]) \in Nat
  BY <1>1, <1>4
<1> QED BY <1>2, <1>3, <1>4, <1>5

(* What appending an operation leaves.                                      *)
LEMMA Appended ==
    ASSUME TypeOK, ~Free, NEW op \in Ops, Enqueue(op)
    PROVE  /\ Len(queue[call.stream]) \in Nat
           /\ Len(queue'[call.stream]) = Len(queue[call.stream]) + 1
           /\ DOMAIN queue'[call.stream] = 1 .. Len(queue[call.stream]) + 1
           /\ DOMAIN queue[call.stream] = 1 .. Len(queue[call.stream])
           /\ queue'[call.stream][Len(queue[call.stream]) + 1] = op
           /\ \A j \in DOMAIN queue[call.stream] :
                 queue'[call.stream][j] = queue[call.stream][j]
           /\ \A t \in Streams \ {call.stream} : queue'[t] = queue[t]
<1>1. call.stream \in Streams /\ queue[call.stream] \in Seq(Ops)
  BY CallTyped DEF TypeOK
<1>2. queue'[call.stream] = Append(queue[call.stream], op)
      /\ \A t \in Streams \ {call.stream} : queue'[t] = queue[t]
  BY <1>1 DEF Enqueue, TypeOK
<1> QED BY <1>1, <1>2

-----------------------------------------------------------------------------
(* No step breaks the types.                                                *)
LEMMA TypeStep ==
    ASSUME TypeOK, [Next]_vars
    PROVE  TypeOK'
<1>1. ASSUME NEW s \in Streams, GpuStep(s) PROVE TypeOK'
  <2>1. queue' \in [Streams -> Seq(Ops)]
    BY <1>1 DEF GpuStep, TypeOK
  <2>2. Head(queue[s]).asked \in Asked
    BY <1>1, GpuTail DEF Ops
  <2>3. \A i \in Staged : i \in 1 .. N
    BY PreparedAssumption
  <2>4. staging' \in [Staged -> Values \cup {None}]
    BY <1>1, <2>2, <2>3 DEF GpuStep, TypeOK, Asked
  <2> QED BY <1>1, <2>1, <2>4 DEF GpuStep, TypeOK
<1>2. ASSUME NEW c \in Calls, Begin(c) PROVE TypeOK'
  <2>1. 1 \in 1 .. N + 1
    BY PreparedAssumption
  <2> QED BY <1>2, <2>1 DEF Begin, TypeOK
<1>3. ASSUME StageInput PROVE TypeOK'
  <2>1. next + 1 \in 1 .. N + 1
    BY <1>3, PreparedAssumption DEF StageInput, TypeOK
  <2>2. queue' \in [Streams -> Seq(Ops)]
    BY <1>3, CopyTyped, EnqueueTyped DEF StageInput, Free, TypeOK
  <2> QED BY <1>3, <2>1, <2>2 DEF StageInput, TypeOK
<1>4. ASSUME StageFails PROVE TypeOK'
  BY <1>4, ReturnTyped DEF StageFails, TypeOK
<1>5. ASSUME SetAddresses PROVE TypeOK'
  <2>1. bound' \in Addresses
    BY <1>5, AddressTyped, PreparedAssumption DEF SetAddresses, Free
  <2> QED BY <1>5, <2>1 DEF SetAddresses, TypeOK
<1>6. ASSUME SetAddressFails PROVE TypeOK'
  <2>1. PICK n \in 0 .. N - 1 : bound' = BoundUpTo(n)
    BY <1>6 DEF SetAddressFails
  <2>2. n \in Nat
    BY <2>1
  <2>3. bound' \in Addresses
    BY <1>6, <2>1, <2>2, AddressTyped DEF SetAddressFails, Free
  <2> QED BY <1>6, <2>3, ReturnTyped DEF SetAddressFails
<1>7. ASSUME Launch PROVE TypeOK'
  <2>1. queue' \in [Streams -> Seq(Ops)]
    BY <1>7, InferenceTyped, EnqueueTyped DEF Launch, Free
  <2> QED BY <1>7, <2>1 DEF Launch, TypeOK
<1>8. ASSUME LaunchFails PROVE TypeOK'
  BY <1>8, ReturnTyped DEF LaunchFails, TypeOK
<1>9. ASSUME Synchronize PROVE TypeOK'
  BY <1>9, ReturnTyped DEF Synchronize, TypeOK
<1>10. ASSUME SynchronizeFails PROVE TypeOK'
  BY <1>10 DEF SynchronizeFails, TypeOK
<1>11. ASSUME DropGuard PROVE TypeOK'
  BY <1>11, ReturnTyped DEF DropGuard, TypeOK
<1>12. ASSUME AssumeSynchronized PROVE TypeOK'
  BY <1>12, ReturnTyped DEF AssumeSynchronized, TypeOK
<1>13. ASSUME DropSession \/ FreeStaging PROVE TypeOK'
  BY <1>13 DEF DropSession, FreeStaging, TypeOK
<1>14. ASSUME UNCHANGED vars PROVE TypeOK'
  BY <1>14 DEF vars, TypeOK
<1> QED BY <1>1, <1>2, <1>3, <1>4, <1>5, <1>6, <1>7, <1>8, <1>9, <1>10, <1>11, <1>12,
           <1>13, <1>14 DEF Next, HostStep, FailureStep, CallerStep

LEMMA InitIInv ==
    ASSUME Init
    PROVE  IInv
<1>1. 1 \in 1 .. N + 1
  BY PreparedAssumption
<1>2. TypeOK
  BY <1>1 DEF Init, TypeOK, Addresses
<1>3. \A s \in Streams : Drained(s) /\ DOMAIN queue[s] = {}
  <2>1. \A s \in Streams : queue[s] = <<>>
    BY DEF Init
  <2>2. DOMAIN <<>> = {}
    OBVIOUS
  <2> QED BY <2>1, <2>2 DEF Drained
<1>4. QueueShape
  BY <1>3 DEF QueueShape
<1>5. pc = "idle" /\ Free
  BY DEF Init, Free
<1>6. AddressesSet /\ OtherStreamsDrained /\ BuffersSettle
  BY <1>5 DEF AddressesSet, OtherStreamsDrained, BuffersSettle
<1>7. IdleWhenFree
  BY <1>3 DEF IdleWhenFree
<1> QED BY <1>2, <1>4, <1>6, <1>7 DEF IInv

-----------------------------------------------------------------------------
(* Before the launch, and once the stream of the call is drained, only      *)
(* copies are pending.                                                      *)
LEMMA CopiesOnly ==
    ASSUME TypeOK, QueueShape,
           pc \notin {"guarded", "failing"} \/ Drained(call.stream)
    PROVE  \A s \in Streams : \A j \in DOMAIN queue[s] :
              queue[s][j].bound = {} /\ queue[s][j].to # {}
<1> SUFFICES ASSUME NEW s \in Streams, NEW j \in DOMAIN queue[s]
             PROVE  queue[s][j].bound = {} /\ queue[s][j].to # {}
  OBVIOUS
<1>1. OpShape(s, j)
  BY DEF QueueShape
<1>2. ~Drained(s)
  BY DEF Drained
<1> QED BY <1>1, <1>2 DEF OpShape

LEMMA CopiesKeepShape ==
    ASSUME \A s \in Streams : \A j \in DOMAIN queue[s] :
              queue[s][j].bound = {} /\ queue[s][j].to # {},
           UNCHANGED queue
    PROVE  QueueShape'
BY DEF QueueShape, OpShape

LEMMA ShapeStep ==
    ASSUME TypeOK, QueueShape, [Next]_vars
    PROVE  QueueShape'
<1>1. ASSUME NEW s \in Streams, GpuStep(s) PROVE QueueShape'
  <2> SUFFICES ASSUME NEW t \in Streams, NEW j \in DOMAIN queue'[t]
               PROVE  OpShape(t, j)'
    BY DEF QueueShape
  <2>1. pc' = pc /\ call' = call /\ bound' = bound
    BY <1>1 DEF GpuStep
  <2>2. CASE t = s
    <3>1. OpShape(s, j + 1) /\ queue'[s][j] = queue[s][j + 1]
          /\ Len(queue'[s]) = Len(queue[s]) - 1
      BY <1>1, <2>2, GpuTail DEF QueueShape
    <3>2. j \in Nat /\ Len(queue[s]) \in Nat
      BY <1>1, <2>2, GpuTail DEF TypeOK, GpuStep
    <3> QED BY <2>1, <2>2, <3>1, <3>2 DEF OpShape
  <2>3. CASE t # s
    <3>1. queue'[t] = queue[t]
      BY <1>1, <2>3, GpuTail
    <3>2. OpShape(t, j)
      BY <3>1 DEF QueueShape
    <3> QED BY <2>1, <3>1, <3>2 DEF OpShape
  <2> QED BY <2>2, <2>3
<1>2. ASSUME NEW c \in Calls, Begin(c) PROVE QueueShape'
  BY <1>2, CopiesOnly, CopiesKeepShape DEF Begin
<1>3. ASSUME ~Free, NEW op \in Ops, Enqueue(op), pc \in {"staging", "bound"},
             op.bound = {} => op.to # {},
             op.bound # {} => /\ pc' = "guarded" /\ op.to = {}
                              /\ op.asked = call.asked /\ op.bound = {bound'},
             UNCHANGED call
      PROVE QueueShape'
  <2> SUFFICES ASSUME NEW t \in Streams, NEW j \in DOMAIN queue'[t]
               PROVE  OpShape(t, j)'
    BY DEF QueueShape
  <2>1. CASE t = call.stream /\ j = Len(queue[t]) + 1
    BY <1>3, <2>1, Appended DEF OpShape
  <2>2. CASE ~(t = call.stream /\ j = Len(queue[t]) + 1)
    <3>1. j \in DOMAIN queue[t] /\ queue'[t][j] = queue[t][j]
      <4>1. CASE t = call.stream
        <5>1. j \in 1 .. Len(queue[t]) + 1 /\ Len(queue[t]) \in Nat
          BY <1>3, <4>1, Appended
        <5>2. j \in 1 .. Len(queue[t])
          BY <5>1, <2>2, <4>1
        <5> QED BY <1>3, <4>1, <5>2, Appended
      <4>2. CASE t # call.stream
        BY <1>3, <4>2, Appended
      <4> QED BY <4>1, <4>2
    <3>2. queue[t][j].bound = {} /\ queue[t][j].to # {}
      BY <1>3, <3>1, CopiesOnly
    <3> QED BY <3>1, <3>2 DEF OpShape
  <2> QED BY <2>1, <2>2
<1>4. ASSUME StageInput PROVE QueueShape'
  <2>1. ~Free /\ pc = "staging"
    BY <1>4 DEF StageInput, Free
  <2>2. CASE next \in Staged
    <3>1. Copy(next).bound = {} /\ Copy(next).to # {}
      BY DEF Copy
    <3>2. Enqueue(Copy(next)) /\ UNCHANGED call
      BY <1>4, <2>2 DEF StageInput
    <3> QED BY <2>1, <2>2, <3>1, <3>2, <1>3, CopyTyped
  <2>3. CASE next \notin Staged
    BY <1>4, <2>1, <2>3, CopiesOnly, CopiesKeepShape DEF StageInput
  <2> QED BY <2>2, <2>3
<1>5. ASSUME SetAddresses PROVE QueueShape'
  BY <1>5, CopiesOnly, CopiesKeepShape DEF SetAddresses
<1>6. ASSUME Launch PROVE QueueShape'
  <2>1. ~Free /\ pc = "bound"
    BY <1>6 DEF Launch, Free
  <2>2. Inference.bound = {bound} /\ Inference.to = {} /\ Inference.asked = call.asked
    BY DEF Inference
  <2>3. Enqueue(Inference) /\ pc' = "guarded" /\ bound' = bound /\ call' = call
    BY <1>6 DEF Launch
  <2>4. Inference \in Ops
    BY <2>1, InferenceTyped
  <2> QED BY <2>1, <2>2, <2>3, <2>4, <1>3
<1>7. ASSUME StageFails \/ SetAddressFails \/ LaunchFails PROVE QueueShape'
  BY <1>7, CopiesOnly, CopiesKeepShape DEF StageFails, SetAddressFails, LaunchFails
<1>8. ASSUME Synchronize \/ DropGuard \/ AssumeSynchronized PROVE QueueShape'
  BY <1>8, CopiesOnly, CopiesKeepShape DEF Synchronize, DropGuard, AssumeSynchronized
<1>9. ASSUME SynchronizeFails PROVE QueueShape'
  BY <1>9 DEF SynchronizeFails, QueueShape, OpShape
<1>10. ASSUME DropSession \/ FreeStaging PROVE QueueShape'
  BY <1>10, CopiesOnly, CopiesKeepShape DEF DropSession, FreeStaging
<1>11. ASSUME UNCHANGED vars PROVE QueueShape'
  BY <1>11 DEF vars, QueueShape, OpShape
<1> QED BY <1>1, <1>2, <1>4, <1>5, <1>6, <1>7, <1>8, <1>9, <1>10, <1>11
           DEF Next, HostStep, FailureStep, CallerStep

LEMMA AddressStep ==
    ASSUME TypeOK, AddressesSet, [Next]_vars
    PROVE  AddressesSet'
<1>1. ASSUME NEW s \in Streams, GpuStep(s) PROVE AddressesSet'
  BY <1>1 DEF GpuStep, AddressesSet, Address
<1>2. ASSUME NEW c \in Calls, Begin(c) PROVE AddressesSet'
  BY <1>2 DEF Begin, AddressesSet
<1>3. ASSUME StageInput PROVE AddressesSet'
  BY <1>3 DEF StageInput, AddressesSet
<1>4. ASSUME SetAddresses PROVE AddressesSet'
  <2>1. \A i \in 1 .. N : i <= N
    BY PreparedAssumption
  <2> QED BY <1>4, <2>1 DEF SetAddresses, AddressesSet, BoundUpTo, Address
<1>5. ASSUME Launch \/ SynchronizeFails PROVE AddressesSet'
  BY <1>5 DEF Launch, SynchronizeFails, AddressesSet, Address
<1>6. ASSUME Return PROVE AddressesSet'
  BY <1>6 DEF Return, AddressesSet
<1>7. ASSUME DropSession \/ FreeStaging PROVE AddressesSet'
  BY <1>7 DEF DropSession, FreeStaging, AddressesSet
<1>8. ASSUME UNCHANGED vars PROVE AddressesSet'
  BY <1>8 DEF vars, AddressesSet, Address
<1> QED BY <1>1, <1>2, <1>3, <1>4, <1>5, <1>6, <1>7, <1>8
           DEF Next, HostStep, FailureStep, CallerStep, StageFails, SetAddressFails,
               LaunchFails, Synchronize, DropGuard, AssumeSynchronized

LEMMA OthersStep ==
    ASSUME IInv, Orderly, [Next]_vars
    PROVE  OtherStreamsDrained'
<1> USE DEF OtherStreamsDrained, Free
<1>1. TypeOK /\ OtherStreamsDrained /\ (Faulty = {} => IdleWhenFree)
  BY DEF IInv
<1>2. ASSUME NEW s \in Streams, GpuStep(s) PROVE OtherStreamsDrained'
  <2>1. pc' = pc /\ call' = call /\ queue[s] # <<>>
    BY <1>2 DEF GpuStep
  <2>2. \A t \in Streams \ {s} : queue'[t] = queue[t]
    BY <1>1, <1>2, GpuTail
  <2> QED BY <1>1, <2>1, <2>2 DEF Drained
<1>3. ASSUME NEW c \in Calls, Begin(c) PROVE OtherStreamsDrained'
  BY <1>1, <1>3 DEF Begin, Orderly, IdleWhenFree, Drained
<1>4. ASSUME StageInput \/ Launch PROVE OtherStreamsDrained'
  <2>1. ~Free
    BY <1>4 DEF StageInput, Launch
  <2>2. \A t \in Streams \ {call.stream} : queue'[t] = queue[t]
    <3>1. CASE UNCHANGED queue
      BY <3>1
    <3>2. CASE StageInput /\ next \in Staged
      BY <1>1, <2>1, <3>2, Appended, CopyTyped DEF StageInput
    <3>3. CASE Launch
      BY <1>1, <2>1, <3>3, Appended, InferenceTyped DEF Launch
    <3> QED BY <1>4, <3>1, <3>2, <3>3 DEF StageInput
  <2>3. call' = call
    BY <1>4 DEF StageInput, Launch
  <2> QED BY <1>1, <2>1, <2>2, <2>3 DEF Drained
<1>5. ASSUME SetAddresses \/ SynchronizeFails PROVE OtherStreamsDrained'
  BY <1>1, <1>5 DEF SetAddresses, SynchronizeFails, Drained
<1>6. ASSUME Return \/ DropSession \/ FreeStaging PROVE OtherStreamsDrained'
  BY <1>6 DEF Return, DropSession, FreeStaging
<1>7. ASSUME UNCHANGED vars PROVE OtherStreamsDrained'
  BY <1>1, <1>7 DEF vars, Drained
<1> QED BY <1>2, <1>3, <1>4, <1>5, <1>6, <1>7
           DEF Next, HostStep, FailureStep, CallerStep, StageFails, SetAddressFails,
               LaunchFails, Synchronize, DropGuard, AssumeSynchronized

LEMMA IdleStep ==
    ASSUME IInv, Faulty = {}, [Next]_vars
    PROVE  IdleWhenFree'
<1> USE DEF Free
<1>1. IdleWhenFree /\ OtherStreamsDrained
  BY DEF IInv, Orderly
<1>2. ASSUME Free PROVE IdleWhenFree'
  <2>1. \A s \in Streams : ~GpuStep(s)
    BY <1>1, <1>2 DEF IdleWhenFree, Drained, GpuStep
  <2>2. UNCHANGED queue
    BY <1>2, <2>1 DEF Next, HostStep, FailureStep, CallerStep, vars, Begin,
       StageInput, StageFails, SetAddresses, SetAddressFails, Launch, LaunchFails,
       Synchronize, SynchronizeFails, DropGuard, AssumeSynchronized, DropSession,
       FreeStaging
  <2> QED BY <1>1, <1>2, <2>2 DEF IdleWhenFree, Drained
<1>3. ASSUME ~Free, Free' PROVE IdleWhenFree'
  <2>1. Synchronize \/ DropGuard \/ AssumeSynchronized
    BY <1>3 DEF Next, HostStep, FailureStep, CallerStep, vars, Begin, GpuStep,
       StageInput, StageFails, SetAddresses, SetAddressFails, Launch, LaunchFails,
       SynchronizeFails, DropSession, FreeStaging
  <2>2. Drained(call.stream) /\ UNCHANGED queue
    BY <2>1 DEF Synchronize, DropGuard, AssumeSynchronized
  <2> QED BY <1>1, <1>3, <2>2 DEF IdleWhenFree, OtherStreamsDrained, Drained
<1> QED BY <1>2, <1>3 DEF IdleWhenFree

(* The GPU completing the head of the call's stream.                        *)
LEMMA SettlesTail ==
    ASSUME TypeOK, ~Free, NEW i \in Staged, GpuStep(call.stream),
           Settles(queue[call.stream], i, call.asked[i])
    PROVE  Settles(queue[call.stream], i, call.asked[i])'
<1> DEFINE s == call.stream
           q == queue[s]
           v == call.asked[i]
<1>1. /\ s \in Streams /\ UNCHANGED call
      /\ 1 \in DOMAIN q /\ DOMAIN q = 1 .. Len(q) /\ Len(q) \in Nat
      /\ DOMAIN queue'[s] = 1 .. Len(q) - 1
      /\ \A j \in DOMAIN queue'[s] : j + 1 \in DOMAIN q /\ queue'[s][j] = q[j + 1]
  <2>1. s \in Streams /\ UNCHANGED call /\ q \in Seq(Ops) /\ q # <<>> /\ queue'[s] = Tail(q)
    BY CallTyped, GpuTail DEF GpuStep, TypeOK
  <2>2. DOMAIN queue'[s] = 1 .. Len(q) - 1
    BY <2>1
  <2> QED BY <2>1, <2>2, GpuTail
<1>2. staging'[i] = IF i \in q[1].to THEN q[1].asked[i] ELSE staging[i]
  BY <1>1, GpuTail DEF GpuStep
<1>3. CASE staging[i] = v /\ \A j \in DOMAIN q : i \notin q[j].to
  <2>1. staging'[i] = v /\ \A j \in DOMAIN queue'[s] : i \notin queue'[s][j].to
    BY <1>1, <1>2, <1>3
  <2> QED BY <1>1, <2>1 DEF Settles
<1>4. ASSUME NEW j \in DOMAIN q, i \in q[j].to, q[j].asked[i] = v,
             \A k \in DOMAIN q : k > j => i \notin q[k].to
      PROVE  Settles(queue[call.stream], i, call.asked[i])'
  <2>1. CASE j = 1
    <3>1. \A k \in DOMAIN queue'[s] : k + 1 > j
      BY <1>1, <2>1
    <3>2. staging'[i] = v /\ \A k \in DOMAIN queue'[s] : i \notin queue'[s][k].to
      BY <1>1, <1>2, <1>4, <2>1, <3>1
    <3> QED BY <1>1, <3>2 DEF Settles
  <2>2. CASE j # 1
    <3>1. j - 1 \in DOMAIN queue'[s] /\ (j - 1) + 1 = j
      BY <1>1, <2>2
    <3>2. \A k \in DOMAIN queue'[s] : k > j - 1 => k + 1 > j
      BY <1>1
    <3>3. /\ i \in queue'[s][j - 1].to /\ queue'[s][j - 1].asked[i] = v
          /\ \A k \in DOMAIN queue'[s] : k > j - 1 => i \notin queue'[s][k].to
      BY <1>1, <1>4, <3>1, <3>2
    <3> QED BY <1>1, <3>1, <3>3 DEF Settles
  <2> QED BY <2>1, <2>2
<1> QED BY <1>3, <1>4 DEF Settles

(* The call appending an operation to its stream.                           *)
LEMMA SettlesAppend ==
    ASSUME TypeOK, ~Free, NEW i \in Staged, NEW op \in Ops, Enqueue(op),
           UNCHANGED <<call, staging>>,
           \/ i \notin op.to /\ Settles(queue[call.stream], i, call.asked[i])
           \/ i \in op.to /\ op.asked = call.asked
    PROVE  Settles(queue[call.stream], i, call.asked[i])'
<1> DEFINE s == call.stream
           q == queue[s]
           v == call.asked[i]
           n == Len(q) + 1
<1>1. /\ Len(q) \in Nat /\ DOMAIN q = 1 .. Len(q)
      /\ DOMAIN queue'[s] = 1 .. n /\ queue'[s][n] = op
      /\ \A j \in DOMAIN q : queue'[s][j] = q[j]
  BY Appended
<1>2. CASE i \in op.to /\ op.asked = call.asked
  <2>1. n \in DOMAIN queue'[s] /\ \A k \in DOMAIN queue'[s] : ~(k > n)
    BY <1>1
  <2> QED BY <1>1, <1>2, <2>1 DEF Settles
<1>3. CASE i \notin op.to /\ staging[i] = v /\ \A j \in DOMAIN q : i \notin q[j].to
  <2>1. \A j \in DOMAIN queue'[s] : j \in DOMAIN q \/ j = n
    BY <1>1
  <2>2. \A j \in DOMAIN queue'[s] : i \notin queue'[s][j].to
    BY <1>1, <1>3, <2>1
  <2> QED BY <1>3, <2>2 DEF Settles
<1>4. ASSUME i \notin op.to, NEW j \in DOMAIN q, i \in q[j].to, q[j].asked[i] = v,
             \A k \in DOMAIN q : k > j => i \notin q[k].to
      PROVE  Settles(queue[call.stream], i, call.asked[i])'
  <2>1. j \in DOMAIN queue'[s] /\ \A k \in DOMAIN queue'[s] : k \in DOMAIN q \/ k = n
    BY <1>1
  <2>2. \A k \in DOMAIN queue'[s] : k > j => i \notin queue'[s][k].to
    BY <1>1, <1>4, <2>1
  <2> QED BY <1>1, <1>4, <2>1, <2>2 DEF Settles
<1> QED BY <1>2, <1>3, <1>4 DEF Settles

LEMMA BuffersStep ==
    ASSUME IInv, Orderly, [Next]_vars
    PROVE  BuffersSettle'
<1>1. TypeOK /\ OtherStreamsDrained /\ BuffersSettle
  BY DEF IInv
<1>2. ASSUME NEW s \in Streams, GpuStep(s) PROVE BuffersSettle'
  <2> SUFFICES ASSUME ~Free, NEW i \in Staged, Reached(i)
               PROVE  Settles(queue[call.stream], i, call.asked[i])'
    BY <1>2 DEF GpuStep, BuffersSettle, Free, Reached
  <2>1. s = call.stream
    BY <1>1, <1>2 DEF OtherStreamsDrained, Drained, GpuStep
  <2> QED BY <1>1, <1>2, <2>1, SettlesTail DEF BuffersSettle
<1>3. ASSUME NEW c \in Calls, Begin(c) PROVE BuffersSettle'
  <2>1. \A i \in Staged : ~(i < 1)
    BY PreparedAssumption
  <2> QED BY <1>3, <2>1 DEF Begin, BuffersSettle, Reached
<1>4. ASSUME StageInput PROVE BuffersSettle'
  <2> SUFFICES ASSUME NEW i \in Staged, i < next + 1
               PROVE  Settles(queue[call.stream], i, call.asked[i])'
    BY <1>4 DEF StageInput, BuffersSettle, Reached
  <2>1. ~Free /\ pc = "staging" /\ UNCHANGED <<call, staging>>
    BY <1>4 DEF StageInput, Free
  <2>2. i \in Nat /\ next \in Nat
    BY PreparedAssumption, <1>1 DEF TypeOK
  <2>3. i < next => Settles(queue[call.stream], i, call.asked[i])
    BY <1>1, <2>1 DEF BuffersSettle, Reached
  <2>4. CASE next \in Staged
    <3>1. Copy(next).to = {next} /\ Copy(next).asked = call.asked /\ Enqueue(Copy(next))
      BY <1>4, <2>4 DEF StageInput, Copy
    <3>2. i \notin {next} => i < next
      BY <2>2
    <3> QED BY <1>1, <2>1, <2>3, <2>4, <3>1, <3>2, CopyTyped, SettlesAppend
  <2>5. CASE next \notin Staged
    <3>1. i < next /\ UNCHANGED queue
      BY <1>4, <2>2, <2>5 DEF StageInput
    <3> QED BY <2>1, <2>3, <3>1 DEF Settles
  <2> QED BY <2>4, <2>5
<1>5. ASSUME SetAddresses PROVE BuffersSettle'
  <2>1. ~Free /\ pc = "staging" /\ UNCHANGED <<call, staging, queue>>
    BY <1>5 DEF SetAddresses, Free
  <2>2. \A i \in Staged : i < next
    BY <1>1, <1>5, PreparedAssumption DEF SetAddresses, TypeOK
  <2>3. \A i \in Staged : Settles(queue[call.stream], i, call.asked[i])
    BY <1>1, <2>1, <2>2 DEF BuffersSettle, Reached
  <2> QED BY <2>1, <2>3 DEF BuffersSettle, Settles
<1>6. ASSUME Launch PROVE BuffersSettle'
  <2>1. ~Free /\ pc = "bound" /\ UNCHANGED <<call, staging>>
    BY <1>6 DEF Launch, Free
  <2> SUFFICES ASSUME NEW i \in Staged
               PROVE  Settles(queue[call.stream], i, call.asked[i])'
    BY DEF BuffersSettle
  <2>2. Settles(queue[call.stream], i, call.asked[i])
    BY <1>1, <2>1 DEF BuffersSettle, Reached
  <2>3. Inference.to = {} /\ Enqueue(Inference)
    BY <1>6 DEF Launch, Inference
  <2> QED BY <1>1, <2>1, <2>2, <2>3, InferenceTyped, SettlesAppend
<1>7. ASSUME SynchronizeFails PROVE BuffersSettle'
  <2>1. ~Free /\ pc = "guarded" /\ UNCHANGED <<call, staging, queue>>
    BY <1>7 DEF SynchronizeFails, Free
  <2>2. \A i \in Staged : Settles(queue[call.stream], i, call.asked[i])
    BY <1>1, <2>1 DEF BuffersSettle, Reached
  <2> QED BY <2>1, <2>2 DEF BuffersSettle, Settles
<1>8. ASSUME Return \/ DropSession \/ FreeStaging PROVE BuffersSettle'
  BY <1>8 DEF Return, DropSession, FreeStaging, BuffersSettle, Free
<1>9. ASSUME UNCHANGED vars PROVE BuffersSettle'
  BY <1>1, <1>9 DEF vars, BuffersSettle, Free, Reached, Settles
<1> QED BY <1>2, <1>3, <1>4, <1>5, <1>6, <1>7, <1>8, <1>9
           DEF Next, HostStep, FailureStep, CallerStep, StageFails, SetAddressFails,
               LaunchFails, Synchronize, DropGuard, AssumeSynchronized

-----------------------------------------------------------------------------
(* The strengthening holds of every session, whoever calls it and whatever  *)
(* fails.                                                                   *)
THEOREM InductiveInvariant == Spec => []IInv
<1>1. Init => IInv
  BY InitIInv
<1>2. IInv /\ [Next]_vars => IInv'
  <2> SUFFICES ASSUME IInv, [Next]_vars
               PROVE  IInv'
    OBVIOUS
  <2>1. TypeOK /\ QueueShape /\ AddressesSet
    BY DEF IInv
  <2>2. TypeOK' /\ QueueShape' /\ AddressesSet'
    BY <2>1, TypeStep, ShapeStep, AddressStep
  <2>3. Orderly' = Orderly
    BY DEF Orderly
  <2>4. Orderly => OtherStreamsDrained' /\ BuffersSettle'
    BY OthersStep, BuffersStep
  <2>5. Faulty = {} => IdleWhenFree'
    BY IdleStep
  <2> QED BY <2>2, <2>3, <2>4, <2>5 DEF IInv
<1> QED BY <1>1, <1>2, PTL DEF Spec

(* Every variable keeps its type.                                           *)
THEOREM TypeCorrect == Spec => []TypeOK
<1>1. IInv => TypeOK
  BY DEF IInv
<1> QED BY <1>1, InductiveInvariant, PTL

(* The context is not reused or destroyed under an inference in flight,     *)
(* whatever fails.                                                          *)
THEOREM ContextNeverShared == Spec => []ContextIdleWhenFree
<1>1. IInv => ContextIdleWhenFree
  BY DEF IInv, QueueShape, OpShape, ContextIdleWhenFree, Free
<1> QED BY <1>1, InductiveInvariant, PTL

(* Without failures nothing is pending between two calls.                   *)
THEOREM IdleWithoutFailures ==
    ASSUME Faulty = {}
    PROVE  Spec => []IdleWhenFree
<1>1. IInv => IdleWhenFree
  BY DEF IInv
<1> QED BY <1>1, InductiveInvariant, PTL

(* An inference executes with what its call asked for, if no call fails or  *)
(* the caller changes streams only when nothing is pending.                 *)
THEOREM InferencesAsAsked ==
    ASSUME Orderly
    PROVE  Spec => []ExecutesAsAsked
<1>1. ASSUME IInv PROVE ExecutesAsAsked
  <2> SUFFICES ASSUME NEW s \in Streams, queue[s] # <<>>,
                      NEW b \in Head(queue[s]).bound, NEW i \in 1 .. N
               PROVE  Accessed(b, i) = Head(queue[s]).asked[i]
    BY DEF ExecutesAsAsked
  <2>1. TypeOK /\ QueueShape /\ AddressesSet /\ BuffersSettle
    BY <1>1 DEF IInv
  <2>2. queue[s] \in Seq(Ops) /\ 1 \in DOMAIN queue[s] /\ Head(queue[s]) = queue[s][1]
    <3>1. queue[s] \in Seq(Ops)
      BY <2>1 DEF TypeOK
    <3> QED BY <3>1
  <2>3. /\ pc \in {"guarded", "failing"} /\ s = call.stream /\ Len(queue[s]) = 1
        /\ queue[s][1].to = {} /\ queue[s][1].asked = call.asked /\ b = bound
    <3>1. OpShape(s, 1)
      BY <2>1, <2>2 DEF QueueShape
    <3>2. b \in queue[s][1].bound
      BY <2>2
    <3>3. queue[s][1].bound # {}
      BY <3>2
    <3>4. /\ pc \in {"guarded", "failing"} /\ s = call.stream /\ 1 = Len(queue[s])
          /\ queue[s][1].to = {} /\ queue[s][1].asked = call.asked
          /\ queue[s][1].bound = {bound}
      BY <3>1, <3>3 DEF OpShape
    <3> QED BY <3>2, <3>4
  <2>4. DOMAIN queue[s] = {1}
    BY <2>2, <2>3
  <2>5. ~Free /\ bound[i] = Address(i)
    BY <2>1, <2>3 DEF Free, AddressesSet
  <2>6. CASE i \in Staged
    <3>1. Settles(queue[s], i, call.asked[i])
      BY <2>1, <2>3, <2>5, <2>6 DEF BuffersSettle, Reached
    <3>2. staging[i] = call.asked[i]
      BY <2>3, <2>4, <3>1 DEF Settles
    <3> QED BY <2>2, <2>3, <2>5, <2>6, <3>2 DEF Accessed, Address
  <2>7. CASE i \notin Staged
    <3>1. call.asked[i] \in Values
      BY <2>1, <2>5, CallTyped DEF Asked
    <3>2. bound[i] # Buffer
      BY <2>5, <2>7, <3>1, PreparedAssumption DEF Address
    <3> QED BY <2>2, <2>3, <2>5, <2>7, <3>2 DEF Accessed, Address
  <2> QED BY <2>6, <2>7
<1> QED BY <1>1, InductiveInvariant, PTL
=============================================================================
