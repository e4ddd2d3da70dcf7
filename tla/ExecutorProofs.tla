---------------------------- MODULE ExecutorProofs ----------------------------
(***************************************************************************)
(* Proofs about RequestRun, and so about ExecutorSetup, whose threads take *)
(* its steps: the request buffers of an executor are owned once and empty  *)
(* when they are pooled, what the shim reads is the request as its caller  *)
(* meant it, it throws for no other cause than those named, and virtual    *)
(* tokens stand for rows of the prompt table; for any number of threads,   *)
(* buffers, calls and configurations.  About SinkTensors: the alias check  *)
(* is exact.  And about BuilderWire: a configuration is read as it was     *)
(* meant.                                                                  *)
(***************************************************************************)
EXTENDS ExecutorSetup, WireProofs, FiniteSetTheorems

(* The states in which run has a request that was accepted.                 *)
HasRequest == {"accepted", "holding", "prepared", "submitted", "threw"}

VarsAreFunctions ==
    /\ memory = [b \in Buffers |-> memory[b]]
    /\ asked = [t \in Threads |-> asked[t]]
    /\ wire = [t \in Threads |-> wire[t]]
    /\ read = [t \in Threads |-> read[t]]

(* A call in progress has one request, of a call that was accepted.         *)
OneRequest ==
    \A t \in Threads :
        IF pc[t] \in HasRequest
        THEN \E call \in Calls : CallAccepted(call) /\ asked[t] = {WithSink(call)}
        ELSE asked[t] = {}

(* Buffers that no thread holds hold nothing, pooled or not.                *)
FreeAreEmpty ==
    \A b \in Buffers : (\A t \in Threads : b \notin held[t]) => memory[b] = EmptyBuffers

(* Buffers that were checked out hold nothing, and later only the lists of  *)
(* the request; the structure and what is read of it are of that request.   *)
HoldsItsRequest ==
    \A t \in Threads : \A b \in held[t], r \in asked[t] :
        /\ pc[t] = "holding" => memory[b] = EmptyBuffers
        /\ pc[t] \in {"prepared", "submitted", "threw"} =>
               memory[b] = Laid(r) /\ wire[t] = {Wired(r)}
        /\ pc[t] = "submitted" => read[t] = {ReadAlone(r)}

(* The inductive invariant.                                                 *)
IInv ==
    /\ RequestTypeOK
    /\ BuffersOwned
    /\ VarsAreFunctions
    /\ OneRequest
    /\ FreeAreEmpty
    /\ HoldsItsRequest

-----------------------------------------------------------------------------
(* A pool that gets one buffer back, or gives its last one away.            *)
LEMMA GivenBack ==
    ASSUME NEW b \in Buffers, pool \in Seq(Buffers), pool' = Append(pool, b)
    PROVE  /\ pool' \in Seq(Buffers)
           /\ DOMAIN pool' = DOMAIN pool \cup {Len(pool) + 1}
           /\ Len(pool) + 1 \notin DOMAIN pool
           /\ pool'[Len(pool) + 1] = b
           /\ \A i \in DOMAIN pool : pool'[i] = pool[i]
  OBVIOUS

(* What is left of a pool when its last element is taken.                   *)
LEMMA GivenAway ==
    ASSUME pool \in Seq(Buffers), pool # <<>>, pool' = Front(pool)
    PROVE  /\ pool' \in Seq(Buffers)
           /\ Len(pool) \in DOMAIN pool
           /\ DOMAIN pool' = DOMAIN pool \ {Len(pool)}
           /\ \A i \in DOMAIN pool' : pool'[i] = pool[i]
<1>1. Len(pool) \in Nat /\ Len(pool) >= 1
  OBVIOUS
<1>2. pool' = SubSeq(pool, 1, Len(pool) - 1)
  BY DEF Front
<1>3. /\ pool' \in Seq(Buffers) /\ Len(pool') = Len(pool) - 1
      /\ \A i \in 1 .. Len(pool) - 1 : pool'[i] = pool[i]
  <2> DEFINE n == Len(pool) - 1
  <2>1. n \in Nat /\ \A i \in 1 .. n : pool[i] \in Buffers
    BY <1>1
  <2> HIDE DEF n
  <2>2. /\ SubSeq(pool, 1, n) \in Seq(Buffers)
        /\ Len(SubSeq(pool, 1, n)) = IF 1 <= n THEN n - 1 + 1 ELSE 0
        /\ \A i \in 1 .. n - 1 + 1 : SubSeq(pool, 1, n)[i] = pool[1 + i - 1]
    BY <2>1, SubSeqProperties
  <2>3. pool' = SubSeq(pool, 1, n)
    BY <1>2 DEF n
  <2>4. Len(SubSeq(pool, 1, n)) = n
    BY <2>1, <2>2
  <2>5. \A i \in 1 .. n : SubSeq(pool, 1, n)[i] = pool[i]
    BY <2>1, <2>2
  <2> QED BY <2>2, <2>3, <2>4, <2>5 DEF n
<1>4. DOMAIN pool' = 1 .. Len(pool) - 1 /\ DOMAIN pool = 1 .. Len(pool)
  BY <1>3
<1> QED BY <1>1, <1>3, <1>4

-----------------------------------------------------------------------------
(* No action but Finish, Checkout and Prepare touches buffers; those        *)
(* disturb only buffers that one thread holds.                              *)

(* No thread has called run yet.                                            *)
LEMMA InitHolds ==
    ASSUME RequestInit PROVE IInv
BY DEF RequestInit, IInv, RequestTypeOK, BuffersOwned, VarsAreFunctions, OneRequest,
   FreeAreEmpty, HoldsItsRequest, HasRequest

(* Checkout: the buffers leave the pool, or are new.                        *)
LEMMA CheckoutHolds ==
    ASSUME IInv, NEW t \in Threads, Checkout(t)
    PROVE  IInv'
<1>1. PICK b \in Buffers :
        /\ IF pool = <<>> THEN b \notin InUse ELSE b = pool[Len(pool)]
        /\ held' = [held EXCEPT ![t] = {b}]
        /\ pool' = IF pool = <<>> THEN pool ELSE Front(pool)
  BY DEF Checkout
<1>2. /\ pc[t] = "accepted" /\ pc' = [pc EXCEPT ![t] = "holding"]
      /\ UNCHANGED <<asked, sink, scratchVars, memory, wire, read>>
  BY DEF Checkout
<1>3. \A u \in Threads : b \notin held[u]
  <2>1. CASE pool = <<>>
    BY <1>1, <2>1 DEF InUse
  <2>2. CASE pool # <<>>
    <3>1. Len(pool) \in DOMAIN pool
      BY <2>2 DEF IInv, RequestTypeOK
    <3> QED BY <1>1, <2>2, <3>1 DEF IInv, BuffersOwned
  <2> QED BY <2>1, <2>2
<1>4. /\ pool' \in Seq(Buffers)
      /\ DOMAIN pool' \subseteq DOMAIN pool
      /\ \A i \in DOMAIN pool' : pool'[i] = pool[i] /\ pool'[i] # b
  <2>1. CASE pool = <<>>
    BY <1>1, <2>1 DEF IInv, RequestTypeOK
  <2>2. CASE pool # <<>>
    <3>1. pool \in Seq(Buffers) /\ pool' = Front(pool)
      BY <1>1, <2>2 DEF IInv, RequestTypeOK
    <3> QED BY <1>1, <2>2, <3>1, GivenAway DEF IInv, BuffersOwned
  <2> QED BY <2>1, <2>2
<1>5. memory[b] = EmptyBuffers
  BY <1>3 DEF IInv, FreeAreEmpty
<1>6. RequestTypeOK'
  BY <1>1, <1>2, <1>4 DEF IInv, RequestTypeOK
<1>7. BuffersOwned'
  BY <1>1, <1>2, <1>3, <1>4 DEF IInv, RequestTypeOK, BuffersOwned
<1>8. FreeAreEmpty'
  BY <1>1, <1>2 DEF IInv, RequestTypeOK, FreeAreEmpty
<1>9. OneRequest'
  BY <1>2 DEF IInv, RequestTypeOK, OneRequest, HasRequest
<1>10. HoldsItsRequest'
  BY <1>1, <1>2, <1>5 DEF IInv, RequestTypeOK, HoldsItsRequest
<1> QED BY <1>2, <1>6, <1>7, <1>8, <1>9, <1>10 DEF IInv, VarsAreFunctions

(* Accept: the thread has no buffers yet.                                   *)
LEMMA AcceptHolds ==
    ASSUME IInv, NEW t \in Threads, Accept(t)
    PROVE  IInv'
<1>1. PICK call \in Calls : /\ CallAccepted(call)
                            /\ asked' = [asked EXCEPT ![t] = {WithSink(call)}]
  BY DEF Accept
<1>2. /\ pc[t] = "idle" /\ pc' = [pc EXCEPT ![t] = "accepted"]
      /\ UNCHANGED <<held, pool, memory, wire, read>>
  BY DEF Accept
<1>3. RequestTypeOK'
  BY <1>2 DEF IInv, RequestTypeOK
<1>4. OneRequest'
  BY <1>1, <1>2 DEF IInv, RequestTypeOK, VarsAreFunctions, OneRequest, HasRequest
<1>5. HoldsItsRequest'
  <2>1. held'[t] = {}
    BY <1>2 DEF IInv, RequestTypeOK
  <2>2. \A u \in Threads \ {t} : asked'[u] = asked[u] /\ pc'[u] = pc[u]
    BY <1>1, <1>2 DEF IInv, RequestTypeOK, VarsAreFunctions
  <2> QED BY <1>2, <2>1, <2>2 DEF IInv, HoldsItsRequest
<1>6. BuffersOwned' /\ FreeAreEmpty'
  BY <1>2 DEF IInv, BuffersOwned, FreeAreEmpty
<1>7. VarsAreFunctions'
  BY <1>1, <1>2 DEF IInv, VarsAreFunctions
<1> QED BY <1>3, <1>4, <1>5, <1>6, <1>7 DEF IInv

(* Prepare: the buffers of the thread were empty, and no other thread has   *)
(* them.                                                                    *)
LEMMA PrepareHolds ==
    ASSUME IInv, NEW t \in Threads, Prepare(t)
    PROVE  IInv'
<1>1. PICK b \in held[t], r \in asked[t] :
        /\ memory' = [memory EXCEPT ![b] = Filled(@, r)]
        /\ wire' = [wire EXCEPT ![t] = {Encoded(r, Profile, Filled(memory[b], r))}]
  BY DEF Prepare
<1>2. /\ pc[t] = "holding" /\ pc' = [pc EXCEPT ![t] = "prepared"]
      /\ UNCHANGED <<asked, sink, scratchVars, held, pool, read>>
  BY DEF Prepare
<1>3. memory[b] = EmptyBuffers /\ b \in Buffers /\ held[t] = {b} /\ asked[t] = {r}
  BY <1>1, <1>2 DEF IInv, RequestTypeOK, HoldsItsRequest, OneRequest, HasRequest
<1>4. /\ memory'[b] = Laid(r) /\ wire'[t] = {Wired(r)}
      /\ \A c \in Buffers \ {b} : memory'[c] = memory[c]
      /\ \A u \in Threads \ {t} : wire'[u] = wire[u]
  BY <1>1, <1>3 DEF IInv, VarsAreFunctions, Laid, Wired
<1>5. \A u \in Threads \ {t} : b \notin held[u]
  BY <1>1 DEF IInv, BuffersOwned
<1>6. \A i \in DOMAIN pool : pool[i] # b /\ pool[i] \in Buffers
  BY <1>1 DEF IInv, BuffersOwned, RequestTypeOK
<1>7. RequestTypeOK'
  BY <1>2 DEF IInv, RequestTypeOK
<1>8. BuffersOwned'
  BY <1>2, <1>4, <1>6 DEF IInv, BuffersOwned
<1>9. FreeAreEmpty'
  BY <1>1, <1>2, <1>4 DEF IInv, FreeAreEmpty
<1>10. OneRequest'
  BY <1>2 DEF IInv, RequestTypeOK, OneRequest, HasRequest
<1>11. HoldsItsRequest'
  <2>1. ASSUME NEW u \in Threads, u # t, NEW c \in held[u]
        PROVE  memory'[c] = memory[c] /\ wire'[u] = wire[u]
    BY <2>1, <1>4, <1>5 DEF IInv, RequestTypeOK
  <2> QED BY <2>1, <1>2, <1>3, <1>4 DEF IInv, RequestTypeOK, HoldsItsRequest
<1>12. VarsAreFunctions'
  BY <1>1, <1>2 DEF IInv, VarsAreFunctions
<1> QED BY <1>7, <1>8, <1>9, <1>10, <1>11, <1>12 DEF IInv

(* Submit: the shim reads what the thread laid out.                         *)
LEMMA SubmitHolds ==
    ASSUME IInv, NEW t \in Threads, Submit(t)
    PROVE  IInv'
<1>1. PICK b \in held[t], w \in wire[t] :
        IF RequestReadable(w, memory[b]) /\ SinkReadable(t)
        THEN /\ read' = [read EXCEPT ![t] = {RequestRead(w, memory[b])}]
             /\ pc' = [pc EXCEPT ![t] = "submitted"]
        ELSE /\ pc' = [pc EXCEPT ![t] = "threw"]
             /\ UNCHANGED read
  BY DEF Submit
<1>2. pc[t] = "prepared" /\ UNCHANGED <<asked, sink, scratchVars, held, pool, memory, wire>>
  BY DEF Submit
<1>3. \E next \in {"submitted", "threw"} : pc' = [pc EXCEPT ![t] = next]
  BY <1>1
<1>4. \A u \in Threads \ {t} : pc'[u] = pc[u] /\ read'[u] = read[u]
  BY <1>1, <1>3 DEF IInv, RequestTypeOK, VarsAreFunctions
<1>5. ASSUME NEW r \in asked[t], pc'[t] = "submitted"
      PROVE  read'[t] = {ReadAlone(r)}
  <2>1. memory[b] = Laid(r) /\ w = Wired(r)
    BY <1>1, <1>2 DEF IInv, HoldsItsRequest
  <2>2. read' = [read EXCEPT ![t] = {RequestRead(w, memory[b])}]
    BY <1>1, <1>5 DEF IInv, RequestTypeOK
  <2> QED BY <2>1, <2>2 DEF IInv, VarsAreFunctions, ReadAlone
<1>6. RequestTypeOK'
  BY <1>2, <1>3 DEF IInv, RequestTypeOK
<1>7. OneRequest'
  BY <1>2, <1>3 DEF IInv, RequestTypeOK, OneRequest, HasRequest
<1>8. HoldsItsRequest'
  BY <1>2, <1>3, <1>4, <1>5 DEF IInv, RequestTypeOK, HoldsItsRequest
<1>9. BuffersOwned' /\ FreeAreEmpty'
  BY <1>2 DEF IInv, BuffersOwned, FreeAreEmpty
<1>10. VarsAreFunctions'
  BY <1>1, <1>2 DEF IInv, VarsAreFunctions
<1> QED BY <1>6, <1>7, <1>8, <1>9, <1>10 DEF IInv

(* Finish: the buffers are cleared before they are in the pool.             *)
LEMMA FinishHolds ==
    ASSUME IInv, NEW t \in Threads, Finish(t)
    PROVE  IInv'
<1>1. PICK b \in held[t] : /\ memory' = [memory EXCEPT ![b] = EmptyBuffers]
                           /\ pool' = Append(pool, b)
  BY DEF Finish, Recycled
<1>2. /\ pc[t] \in {"submitted", "threw"} /\ pc' = [pc EXCEPT ![t] = "idle"]
      /\ held' = [held EXCEPT ![t] = {}]
      /\ asked' = [asked EXCEPT ![t] = {}]
      /\ wire' = [wire EXCEPT ![t] = {}]
      /\ read' = [read EXCEPT ![t] = {}]
  BY DEF Finish
<1>3. b \in Buffers /\ held[t] = {b}
  BY <1>1, <1>2 DEF IInv, RequestTypeOK
<1>4. /\ memory'[b] = EmptyBuffers
      /\ \A c \in Buffers \ {b} : memory'[c] = memory[c]
  BY <1>1, <1>3 DEF IInv, VarsAreFunctions
<1>5. \A u \in Threads \ {t} : b \notin held[u] /\ held'[u] = held[u] /\ pc'[u] = pc[u]
  BY <1>1, <1>2 DEF IInv, BuffersOwned, RequestTypeOK
<1>6. held'[t] = {} /\ pc'[t] = "idle" /\ asked'[t] = {}
  BY <1>2 DEF IInv, RequestTypeOK, VarsAreFunctions
<1>7. /\ pool' \in Seq(Buffers)
      /\ DOMAIN pool' = DOMAIN pool \cup {Len(pool) + 1}
      /\ Len(pool) + 1 \notin DOMAIN pool
      /\ pool'[Len(pool) + 1] = b
      /\ \A i \in DOMAIN pool : pool'[i] = pool[i] /\ pool[i] # b /\ pool[i] \in Buffers
  BY <1>1, <1>3, GivenBack DEF IInv, RequestTypeOK, BuffersOwned
<1>8. RequestTypeOK'
  BY <1>2, <1>7 DEF IInv, RequestTypeOK
<1>9. BuffersOwned'
  <2>1. \A u, v \in Threads : u # v => held'[u] \cap held'[v] = {}
    BY <1>5, <1>6 DEF IInv, BuffersOwned
  <2>2. \A u \in Threads : \A i \in DOMAIN pool' : pool'[i] \notin held'[u]
    BY <1>5, <1>6, <1>7 DEF IInv, BuffersOwned
  <2>3. \A i, j \in DOMAIN pool' : i # j => pool'[i] # pool'[j]
    BY <1>7 DEF IInv, BuffersOwned
  <2>4. \A i \in DOMAIN pool' : memory'[pool'[i]] = EmptyBuffers
    BY <1>4, <1>7 DEF IInv, BuffersOwned
  <2> QED BY <2>1, <2>2, <2>3, <2>4 DEF BuffersOwned
<1>10. FreeAreEmpty'
  <2> SUFFICES ASSUME NEW c \in Buffers, c # b, \A u \in Threads : c \notin held'[u]
               PROVE  memory'[c] = EmptyBuffers
    BY <1>4 DEF FreeAreEmpty
  <2>1. \A u \in Threads : c \notin held[u]
    BY <1>3, <1>5
  <2> QED BY <2>1, <1>4 DEF IInv, FreeAreEmpty
<1>11. OneRequest'
  BY <1>2, <1>6 DEF IInv, RequestTypeOK, VarsAreFunctions, OneRequest, HasRequest
<1>12. HoldsItsRequest'
  <2>1. \A u \in Threads \ {t} : asked'[u] = asked[u] /\ wire'[u] = wire[u] /\ read'[u] = read[u]
    BY <1>2 DEF IInv, VarsAreFunctions
  <2>2. \A u \in Threads \ {t} : \A c \in held[u] : memory'[c] = memory[c]
    BY <1>4, <1>5 DEF IInv, RequestTypeOK
  <2> QED BY <1>5, <1>6, <2>1, <2>2 DEF IInv, HoldsItsRequest
<1>13. VarsAreFunctions'
  BY <1>1, <1>2 DEF IInv, VarsAreFunctions
<1> QED BY <1>8, <1>9, <1>10, <1>11, <1>12, <1>13 DEF IInv

(* A refused call has no buffers and no request.                            *)
LEMMA RefusedHolds ==
    ASSUME IInv, NEW t \in Threads, Refuse(t) \/ ReturnRefused(t)
    PROVE  IInv'
<1>1. /\ pc[t] \in {"idle", "refused"}
      /\ \E next \in {"idle", "refused"} : pc' = [pc EXCEPT ![t] = next]
      /\ UNCHANGED <<asked, sink, scratch, held, pool, memory, wire, read>>
  BY DEF Refuse, ReturnRefused, scratchVars
<1>2. RequestTypeOK'
  BY <1>1 DEF IInv, RequestTypeOK
<1>3. OneRequest'
  BY <1>1 DEF IInv, RequestTypeOK, OneRequest, HasRequest
<1>4. HoldsItsRequest'
  BY <1>1 DEF IInv, RequestTypeOK, HoldsItsRequest
<1>5. BuffersOwned' /\ FreeAreEmpty' /\ VarsAreFunctions'
  BY <1>1 DEF IInv, BuffersOwned, FreeAreEmpty, VarsAreFunctions
<1> QED BY <1>2, <1>3, <1>4, <1>5 DEF IInv

(* The pools are dropped while no thread holds anything.                    *)
LEMMA DropHolds ==
    ASSUME IInv, DropPools
    PROVE  IInv'
<1>1. \A t \in Threads : held[t] = {}
  BY DEF DropPools, IInv, RequestTypeOK
<1> QED BY <1>1 DEF DropPools, IInv, RequestTypeOK, BuffersOwned, VarsAreFunctions, OneRequest,
       FreeAreEmpty, HoldsItsRequest

(* The strengthening from which the theorems below follow, for every step   *)
(* of every thread and the drop of the executor.                            *)
THEOREM InductiveInvariant == RequestSpec => []IInv
<1>1. RequestInit => IInv
  BY InitHolds
<1>2. IInv /\ [RequestNext]_requestVars => IInv'
  <2> SUFFICES ASSUME IInv, [RequestNext]_requestVars PROVE IInv'
    OBVIOUS
  <2>1. ASSUME NEW t \in Threads, RequestStep(t) PROVE IInv'
    BY <2>1, RefusedHolds, AcceptHolds, CheckoutHolds, PrepareHolds, SubmitHolds, FinishHolds
       DEF RequestStep
  <2>2. CASE DropPools
    BY <2>2, DropHolds
  <2>3. CASE UNCHANGED requestVars
    BY <2>3 DEF requestVars, IInv, RequestTypeOK, BuffersOwned, VarsAreFunctions, OneRequest,
       FreeAreEmpty, HoldsItsRequest
  <2> QED BY <2>1, <2>2, <2>3 DEF RequestNext
<1> QED BY <1>1, <1>2, PTL DEF RequestSpec

-----------------------------------------------------------------------------
(* An executor takes only steps of RequestRun, at every stage of its life:  *)
(* what holds of the threads of RequestRun holds of those of ExecutorSetup. *)
THEOREM CallsPrepareRequests == SetupSpec => RequestSpec
<1>1. SetupInit => RequestInit
  BY DEF SetupInit, ExecutorInit
<1>2. [SetupNext]_allVars => [RequestNext]_requestVars
  <2> SUFFICES ASSUME [SetupNext]_allVars PROVE [RequestNext]_requestVars
    OBVIOUS
  <2>1. CASE Create \/ CreateRefused \/ Created
    BY <2>1 DEF Create, CreateRefused, Created, executorVars
  <2>2. CASE Shutdown
    BY <2>2 DEF Shutdown, DropExecutor, RequestNext
  <2>3. ASSUME NEW t \in Threads, RunStep(t) PROVE [RequestNext]_requestVars
    <3>1. CASE Prepares(t)
      BY <3>1 DEF Prepares, RequestNext, RequestStep
    <3>2. CASE Conclude(t)
      BY <3>2 DEF Conclude, RequestNext, RequestStep
    <3>3. CASE Return(t) \/ Open(t) \/ OpenError(t)
      BY <3>3 DEF Return, Open, OpenError
    <3> QED BY <2>3, <3>1, <3>2, <3>3 DEF RunStep
  <2>4. ASSUME NEW t \in Threads, ResponseStep(t) PROVE [RequestNext]_requestVars
    BY <2>4 DEF ResponseStep, Close, ReadTensorOf
  <2>5. CASE UNCHANGED allVars
    BY <2>5 DEF allVars, executorVars
  <2> QED BY <2>1, <2>2, <2>3, <2>4, <2>5 DEF SetupNext, Use
<1> QED BY <1>1, <1>2, PTL DEF SetupSpec, RequestSpec

(* Whatever threads do at a time, no two hold the same request buffers, the *)
(* pool holds none twice and none that a thread holds, and what it holds is *)
(* empty: RequestBufferPool and RequestBuffers::clear.                      *)
THEOREM BuffersOwnedOnce == SetupSpec => []BuffersOwned
<1>1. IInv => BuffersOwned
  BY DEF IInv
<1> QED BY <1>1, InductiveInvariant, CallsPrepareRequests, PTL

(* A thread holds buffers exactly in the middle of run.                     *)
THEOREM TypeCorrect == SetupSpec => []RequestTypeOK
<1>1. IInv => RequestTypeOK
  BY DEF IInv
<1> QED BY <1>1, InductiveInvariant, CallsPrepareRequests, PTL

(* What the shim reads is what was asked, for every request that run can    *)
(* be called with, whatever requests used the buffers before and whatever   *)
(* other threads prepare meanwhile: buffers that were checked out are empty *)
(* and of one thread, and in empty buffers every request comes back whole.  *)
THEOREM EveryRequestSurvives == SetupSpec => []ReadAsAsked
<1>1. IInv => ReadAsAsked
  <2> SUFFICES ASSUME IInv, NEW t \in Threads, pc[t] = "submitted"
               PROVE  read[t] = {Meant(r) : r \in asked[t]}
    BY DEF ReadAsAsked
  <2>1. PICK call \in Calls : CallAccepted(call) /\ asked[t] = {WithSink(call)}
    BY DEF IInv, OneRequest, HasRequest
  <2>2. \E b \in Buffers : held[t] = {b}
    BY DEF IInv, RequestTypeOK
  <2>3. read[t] = {ReadAlone(WithSink(call))}
    BY <2>1, <2>2 DEF IInv, HoldsItsRequest
  <2>4. ReadAlone(WithSink(call)) = Meant(WithSink(call))
    BY <2>1, CallReadBack
  <2> QED BY <2>1, <2>3, <2>4
<1> QED BY <1>1, InductiveInvariant, CallsPrepareRequests, PTL

(* A token past the vocabulary stands for a row that the prompt table has:  *)
(* validate_virtual_tokens and input_token_extra_ids agree.                 *)
THEOREM VirtualTokensAreRows == SetupSpec => []VirtualTokensHaveRows
<1>1. IInv => VirtualTokensHaveRows
  <2> SUFFICES ASSUME IInv, NEW t \in Threads, NEW r \in asked[t], NEW p \in r.prompt,
                      r.extra_ids = {}, NEW i \in DOMAIN r.tokens,
                      r.tokens[i] >= Profile.vocab_size
               PROVE  LET row == TokenExtraIds(r, Profile)[i]
                      IN  row < p.dims[1] /\ Profile.vocab_size + row = r.tokens[i]
    BY DEF VirtualTokensHaveRows
  <2>1. PICK call \in Calls : CallAccepted(call) /\ r = WithSink(call)
    BY DEF IInv, OneRequest
  <2>2. r.tokens[i] \in Int /\ p.dims \in Seq(Nat)
    <3>1. RequestTyped(r)
      BY <2>1, CallsAssumption, WithSinkTyped
    <3> QED BY <3>1 DEF RequestTyped, IsTensor
  <2>3. Len(p.dims) = 2 /\ r.tokens[i] < Profile.vocab_size + p.dims[1]
    BY <2>1 DEF CallAccepted, Accepted, PromptValid, VirtualTokensValid
  <2>4. p.dims[1] \in Nat
    BY <2>2, <2>3
  <2>5. TokenExtraIds(r, Profile)[i] = r.tokens[i] - Profile.vocab_size
    BY DEF TokenExtraIds
  <2> QED BY <2>2, <2>3, <2>4, <2>5, RequestAssumption
<1> QED BY <1>1, InductiveInvariant, CallsPrepareRequests, PTL

-----------------------------------------------------------------------------
(* Sinks: what a call in progress was called with, how its sink is laid     *)
(* out, and why the shim threw.                                             *)

CallOf(t, call) ==
    /\ CallAccepted(call)
    /\ asked[t] = {WithSink(call)}
    /\ sink[t] = call.sink
    /\ scratch[t] = IF call.sink = {} THEN EmptyScratch
                    ELSE LaidOut(EmptyScratch, The(call.sink))

SinkInv ==
    /\ sink = [t \in Threads |-> sink[t]]
    /\ scratch = [t \in Threads |-> scratch[t]]
    /\ scratches \in Seq({EmptyScratch})
    /\ \A t \in Threads : IF pc[t] \in HasRequest THEN \E call \in Calls : CallOf(t, call)
                          ELSE scratch[t] = EmptyScratch
    /\ \A t \in Threads : pc[t] = "threw" =>
           \A r \in asked[t] : ~(RequestReadable(Wired(r), Laid(r)) /\ SinkReadable(t))

(* Scratches that were given back are cleared.                              *)
LEMMA ScratchesCleared ==
    ASSUME scratches \in Seq({EmptyScratch})
    PROVE  /\ ScratchTaken = EmptyScratch
           /\ ScratchesLeft \in Seq({EmptyScratch})
           /\ Append(scratches, EmptyScratch) \in Seq({EmptyScratch})
           /\ Append(ScratchesLeft, EmptyScratch) \in Seq({EmptyScratch})
<1> DEFINE e == EmptyScratch
           S == {e}
<1>1. scratches \in Seq(S) /\ e \in S
  OBVIOUS
<1> HIDE DEF e
<1>2. CASE scratches = <<>>
  <2>1. ScratchTaken = e /\ ScratchesLeft = <<>>
    BY <1>2 DEF ScratchTaken, ScratchesLeft, e
  <2> HIDE DEF S
  <2>2. /\ <<>> \in Seq(S) /\ Append(<<>>, e) \in Seq(S) /\ Append(scratches, e) \in Seq(S)
    BY <1>1
  <2> QED BY <2>1, <2>2 DEF S, e
<1>3. CASE scratches # <<>>
  <2>1. Len(scratches) \in Nat /\ Len(scratches) >= 1
    BY <1>1, <1>3
  <2>2. ScratchTaken = scratches[Len(scratches)] /\ ScratchesLeft = SubSeq(scratches, 1, Len(scratches) - 1)
    BY <1>3 DEF ScratchTaken, ScratchesLeft, Last, Front
  <2>3. scratches[Len(scratches)] \in S
    <3> HIDE DEF S
    <3> QED BY <1>1, <2>1
  <2>4. SubSeq(scratches, 1, Len(scratches) - 1) \in Seq(S)
    <3> DEFINE n == Len(scratches) - 1
    <3>1. n \in Nat /\ \A i \in 1 .. n : scratches[i] \in S
      <4> HIDE DEF S
      <4> QED BY <1>1, <2>1
    <3> HIDE DEF n, S
    <3> QED BY <3>1, SubSeqProperties DEF n
  <2>5. ScratchTaken = e
    BY <2>2, <2>3
  <2> HIDE DEF S
  <2>6. Append(scratches, e) \in Seq(S) /\ Append(ScratchesLeft, e) \in Seq(S)
    BY <1>1, <2>2, <2>4
  <2> QED BY <2>2, <2>4, <2>5, <2>6 DEF S, e
<1> QED BY <1>2, <1>3

(* A thread that does nothing keeps its call.                               *)
LEMMA CallsKept ==
    ASSUME IInv, SinkInv, NEW t \in Threads,
           \A u \in Threads \ {t} : /\ pc'[u] = pc[u] /\ asked'[u] = asked[u]
                                    /\ sink'[u] = sink[u] /\ scratch'[u] = scratch[u],
           sink' = [u \in Threads |-> sink'[u]],
           scratch' = [u \in Threads |-> scratch'[u]],
           scratches' \in Seq({EmptyScratch}),
           IF pc'[t] \in HasRequest THEN \E call \in Calls : CallOf(t, call)'
           ELSE scratch'[t] = EmptyScratch,
           pc'[t] = "threw" =>
               \A r \in asked'[t] : ~(RequestReadable(Wired(r), Laid(r)) /\ SinkReadable(t)')
    PROVE  SinkInv'
<1>1. ASSUME NEW u \in Threads
      PROVE  IF pc'[u] \in HasRequest THEN \E call \in Calls : CallOf(u, call)'
             ELSE scratch'[u] = EmptyScratch
  <2>1. CASE u # t
    BY <1>1, <2>1 DEF SinkInv, CallOf
  <2> QED BY <1>1, <2>1
<1>2. ASSUME NEW u \in Threads, pc'[u] = "threw", NEW r \in asked'[u]
      PROVE  ~(RequestReadable(Wired(r), Laid(r)) /\ SinkReadable(u)')
  <2>1. CASE u # t
    BY <1>2, <2>1 DEF SinkInv, SinkReadable
  <2> QED BY <1>2, <2>1
<1>3. \A r : Wired(r)' = Wired(r) /\ Laid(r)' = Laid(r)
  BY DEF Wired, Laid
<1> QED BY <1>1, <1>2, <1>3 DEF SinkInv

(* A step of run: the scratch of a sink is cleared before it is given back, *)
(* and laid out by the thread that took it.                                 *)
LEMMA SinkStepHolds ==
    ASSUME IInv, IInv', SinkInv, NEW t \in Threads, RequestStep(t)
    PROVE  SinkInv'
<1> USE DEF HasRequest
<1>1. CASE Accept(t)
  <2>1. PICK call \in Calls :
          /\ CallAccepted(call)
          /\ asked' = [asked EXCEPT ![t] = {WithSink(call)}]
          /\ sink' = [sink EXCEPT ![t] = call.sink]
          /\ IF call.sink = {} THEN UNCHANGED scratchVars
             ELSE /\ scratch' = [scratch EXCEPT ![t] = LaidOut(ScratchTaken, The(call.sink))]
                  /\ scratches' = ScratchesLeft
    BY <1>1 DEF Accept
  <2>2. pc' = [pc EXCEPT ![t] = "accepted"]
    BY <1>1 DEF Accept
  <2>3. pc'[t] = "accepted" /\ \A u \in Threads \ {t} : pc'[u] = pc[u]
    BY <2>2 DEF IInv, RequestTypeOK
  <2>4. /\ asked'[t] = {WithSink(call)} /\ sink'[t] = call.sink
        /\ \A u \in Threads \ {t} : asked'[u] = asked[u] /\ sink'[u] = sink[u]
        /\ sink' = [u \in Threads |-> sink'[u]]
    BY <2>1 DEF IInv, VarsAreFunctions, SinkInv
  <2>5. /\ \A u \in Threads \ {t} : scratch'[u] = scratch[u]
        /\ scratch' = [u \in Threads |-> scratch'[u]]
        /\ scratch'[t] = IF call.sink = {} THEN EmptyScratch
                         ELSE LaidOut(ScratchTaken, The(call.sink))
        /\ scratches' \in {scratches, ScratchesLeft}
    <3>1. scratch[t] = EmptyScratch
      BY <1>1 DEF Accept, SinkInv
    <3> QED BY <2>1, <3>1 DEF SinkInv, scratchVars
  <2>6. ScratchTaken = EmptyScratch /\ scratches' \in Seq({EmptyScratch})
    BY <2>5, ScratchesCleared DEF SinkInv
  <2>7. CallOf(t, call)'
    BY <2>1, <2>4, <2>5, <2>6 DEF CallOf
  <2> QED BY <2>3, <2>4, <2>5, <2>6, <2>7, CallsKept
<1>2. CASE Checkout(t) \/ Prepare(t)
  <2>1. /\ \E next \in {"holding", "prepared"} : pc' = [pc EXCEPT ![t] = next]
        /\ UNCHANGED <<asked, sink, scratch, scratches>>
        /\ pc[t] \in {"accepted", "holding"}
    BY <1>2 DEF Checkout, Prepare, scratchVars
  <2>2. pc'[t] \in {"holding", "prepared"} /\ \A u \in Threads \ {t} : pc'[u] = pc[u]
    BY <2>1 DEF IInv, RequestTypeOK
  <2>3. \E call \in Calls : CallOf(t, call)'
    BY <2>1 DEF SinkInv, CallOf
  <2> QED BY <2>1, <2>2, <2>3, CallsKept DEF SinkInv
<1>3. CASE Submit(t)
  <2>1. PICK b \in held[t], w \in wire[t] :
          IF RequestReadable(w, memory[b]) /\ SinkReadable(t)
          THEN /\ read' = [read EXCEPT ![t] = {RequestRead(w, memory[b])}]
               /\ pc' = [pc EXCEPT ![t] = "submitted"]
          ELSE /\ pc' = [pc EXCEPT ![t] = "threw"]
               /\ UNCHANGED read
    BY <1>3 DEF Submit
  <2>2. pc[t] = "prepared" /\ UNCHANGED <<asked, sink, scratch, scratches>>
    BY <1>3 DEF Submit, scratchVars
  <2>3. \E next \in {"submitted", "threw"} : pc' = [pc EXCEPT ![t] = next]
    BY <2>1
  <2>4. \A u \in Threads \ {t} : pc'[u] = pc[u]
    BY <2>3 DEF IInv, RequestTypeOK
  <2>5. \E call \in Calls : CallOf(t, call)'
    BY <2>2 DEF SinkInv, CallOf
  <2>7. pc'[t] \in HasRequest
    BY <2>3 DEF IInv, RequestTypeOK
  <2>8. /\ \A u \in Threads \ {t} : /\ asked'[u] = asked[u] /\ sink'[u] = sink[u]
                                     /\ scratch'[u] = scratch[u]
        /\ sink' = [u \in Threads |-> sink'[u]]
        /\ scratch' = [u \in Threads |-> scratch'[u]]
        /\ scratches' \in Seq({EmptyScratch})
    BY <2>2 DEF SinkInv
  <2>6. ASSUME pc'[t] = "threw", NEW r \in asked'[t]
        PROVE  ~(RequestReadable(Wired(r), Laid(r)) /\ SinkReadable(t)')
    <3>1. memory[b] = Laid(r) /\ w = Wired(r)
      BY <2>1, <2>2, <2>6 DEF IInv, HoldsItsRequest
    <3>2. ~(RequestReadable(w, memory[b]) /\ SinkReadable(t))
      BY <2>1, <2>6 DEF IInv, RequestTypeOK
    <3>3. SinkReadable(t)' = SinkReadable(t)
      BY <2>2 DEF SinkReadable
    <3> QED BY <3>1, <3>2, <3>3
  <2> QED BY <2>4, <2>5, <2>6, <2>7, <2>8, CallsKept
<1>4. CASE Finish(t)
  <2>1. /\ pc' = [pc EXCEPT ![t] = "idle"]
        /\ asked' = [asked EXCEPT ![t] = {}]
        /\ sink' = [sink EXCEPT ![t] = {}]
        /\ scratch' = [scratch EXCEPT ![t] = EmptyScratch]
        /\ scratches' \in {scratches, Append(scratches, EmptyScratch)}
    BY <1>4 DEF Finish
  <2>2. pc'[t] = "idle" /\ \A u \in Threads \ {t} : pc'[u] = pc[u]
    BY <2>1 DEF IInv, RequestTypeOK
  <2>3. /\ scratch'[t] = EmptyScratch
        /\ \A u \in Threads \ {t} : /\ asked'[u] = asked[u] /\ sink'[u] = sink[u]
                                    /\ scratch'[u] = scratch[u]
        /\ sink' = [u \in Threads |-> sink'[u]] /\ scratch' = [u \in Threads |-> scratch'[u]]
    BY <2>1 DEF IInv, VarsAreFunctions, SinkInv
  <2>4. scratches' \in Seq({EmptyScratch})
    BY <2>1, ScratchesCleared DEF SinkInv
  <2> QED BY <2>2, <2>3, <2>4, CallsKept
<1>5. CASE Refuse(t) \/ ReturnRefused(t)
  <2>1. /\ \E next \in {"idle", "refused"} : pc' = [pc EXCEPT ![t] = next]
        /\ UNCHANGED <<asked, sink, scratch>>
        /\ scratches' \in {scratches, ScratchesLeft, Append(ScratchesLeft, EmptyScratch)}
    BY <1>5 DEF Refuse, ReturnRefused, scratchVars
  <2>2. pc'[t] \in {"idle", "refused"} /\ \A u \in Threads \ {t} : pc'[u] = pc[u]
    BY <2>1 DEF IInv, RequestTypeOK
  <2>3. scratches' \in Seq({EmptyScratch})
    BY <2>1, ScratchesCleared DEF SinkInv
  <2>4. pc[t] \in {"idle", "refused"}
    BY <1>5 DEF Refuse, ReturnRefused
  <2>5. scratch'[t] = EmptyScratch /\ pc'[t] \notin HasRequest /\ pc'[t] # "threw"
    BY <2>1, <2>2, <2>4 DEF SinkInv
  <2>6. /\ \A u \in Threads \ {t} : /\ asked'[u] = asked[u] /\ sink'[u] = sink[u]
                                     /\ scratch'[u] = scratch[u]
        /\ sink' = [u \in Threads |-> sink'[u]]
        /\ scratch' = [u \in Threads |-> scratch'[u]]
    BY <2>1 DEF SinkInv
  <2> QED BY <2>2, <2>3, <2>5, <2>6, CallsKept
<1> QED BY <1>1, <1>2, <1>3, <1>4, <1>5 DEF RequestStep

(* The sinks of calls in progress, together with the requests they add to.  *)
THEOREM SinksInvariant == RequestSpec => [](IInv /\ SinkInv)
<1>1. RequestInit => IInv /\ SinkInv
  <2> SUFFICES ASSUME RequestInit PROVE SinkInv
    BY InitHolds
  <2>1. scratches \in Seq({EmptyScratch})
    <3> DEFINE S == {EmptyScratch}
    <3> HIDE DEF S
    <3>1. scratches \in Seq(S)
      BY DEF RequestInit
    <3> QED BY <3>1 DEF S
  <2> QED BY <2>1 DEF RequestInit, SinkInv, HasRequest
<1>2. IInv /\ IInv' /\ SinkInv /\ [RequestNext]_requestVars => SinkInv'
  <2> SUFFICES ASSUME IInv, IInv', SinkInv, [RequestNext]_requestVars PROVE SinkInv'
    OBVIOUS
  <2>1. CASE DropPools
    <3>1. scratches' = <<>> /\ UNCHANGED <<pc, asked, sink, scratch>>
      BY <2>1 DEF DropPools
    <3>2. scratches' \in Seq({EmptyScratch})
      <4> DEFINE S == {EmptyScratch}
      <4> HIDE DEF S
      <4>1. scratches' \in Seq(S)
        BY <3>1
      <4> QED BY <4>1 DEF S
    <3> QED BY <3>1, <3>2 DEF SinkInv, CallOf, SinkReadable, HasRequest
  <2>2. CASE UNCHANGED requestVars
    BY <2>2 DEF requestVars, SinkInv, CallOf, SinkReadable, HasRequest
  <2> QED BY <2>1, <2>2, SinkStepHolds DEF RequestNext
<1> QED BY <1>1, <1>2, InductiveInvariant, PTL DEF RequestSpec

(* The shim never throws on a request that was accepted, but for the three  *)
(* causes that AcceptedIsReadable names: everything else request_from_sys   *)
(* and validate_output_sink check follows from validate_request, from the   *)
(* layout of the lists and of the sink, and from empty buffers.             *)
THEOREM AcceptedRequestsReadable == SetupSpec => []AcceptedIsReadable
<1>1. IInv /\ SinkInv => AcceptedIsReadable
  <2> SUFFICES ASSUME IInv, SinkInv, NEW t \in Threads, pc[t] = "threw",
                      ~ \E r \in asked[t] : \E c \in r.mrope : Product(c.dims) = 0,
                      ~ \E r \in asked[t] : Contains(r.outputs, <<>>)
               PROVE  \E tensors \in sink[t] : ~SinkNamesValid(NamesOf(tensors))
    BY DEF AcceptedIsReadable
  <2>1. PICK call \in Calls : CallOf(t, call)
    BY DEF SinkInv, HasRequest
  <2> DEFINE r == WithSink(call)
  <2>2. asked[t] = {r} /\ sink[t] = call.sink /\ CallTyped(call)
    BY <2>1, CallsAssumption DEF CallOf
  <2>3. RequestReadable(Wired(r), Laid(r))
    <3>1. RequestTyped(r) /\ Accepted(r, Profile)
      BY <2>1, <2>2, WithSinkTyped DEF CallOf, CallAccepted
    <3>2. (\A c \in r.mrope : Product(c.dims) # 0) /\ ~Contains(r.outputs, <<>>)
      BY <2>2
    <3> QED BY <3>1, <3>2, RequestIsReadable
  <2>4. ~SinkReadable(t)
    BY <2>2, <2>3 DEF SinkInv
  <2>5. call.sink # {} /\ ~SinkNamesValid(NamesOf(SinkSeen(scratch[t])))
    BY <2>2, <2>4 DEF SinkReadable
  <2>6. The(call.sink) \in call.sink /\ The(call.sink) \in Seq(SinkTensor)
    BY <2>2, <2>5, OptionIs DEF CallTyped
  <2>7. SinkSeen(scratch[t]) = The(call.sink)
    BY <2>1, <2>5, <2>6, SinkReadBack DEF CallOf
  <2> QED BY <2>2, <2>5, <2>6, <2>7
<1> QED BY <1>1, SinksInvariant, CallsPrepareRequests, PTL

-----------------------------------------------------------------------------
(* The alias check of the outputs of a run is exact: it refuses ranges that *)
(* share an address, and of ranges that cover something no others.          *)
THEOREM AliasCheckExact ==
    ASSUME NEW ranges \in Seq([start : Nat, end : Nat])
    PROVE  /\ OutputsDisjoint(ranges) =>
                  \A i, j \in DOMAIN ranges :
                      i # j => Covered(ranges[i]) \cap Covered(ranges[j]) = {}
           /\ (/\ \A i \in DOMAIN ranges : ranges[i].start < ranges[i].end
               /\ \A i, j \in DOMAIN ranges :
                      i # j => Covered(ranges[i]) \cap Covered(ranges[j]) = {})
              => OutputsDisjoint(ranges)
<1> DEFINE Ranges == [start : Nat, end : Nat]
<1>1. \A i \in DOMAIN ranges : i \in Int /\ ranges[i] \in Ranges
  <2>1. DOMAIN ranges = 1 .. Len(ranges) /\ Len(ranges) \in Nat
    OBVIOUS
  <2>2. ranges \in Seq(Ranges)
    OBVIOUS
  <2> HIDE DEF Ranges
  <2> QED BY <2>1, <2>2
<1>2. ASSUME NEW a \in Ranges, NEW b \in Ranges, ~Overlaps(a, b)
      PROVE  Covered(a) \cap Covered(b) = {}
  BY <1>2 DEF Overlaps, Covered
<1>3. ASSUME NEW a \in Ranges, NEW b \in Ranges, a.start < a.end, b.start < b.end,
             Overlaps(a, b)
      PROVE  Covered(a) \cap Covered(b) # {}
  <2>1. CASE a.start <= b.start
    <3>1. b.start \in Covered(a) \cap Covered(b)
      BY <1>3, <2>1 DEF Overlaps, Covered
    <3> QED BY <3>1
  <2>2. CASE b.start < a.start
    <3>1. a.start \in Covered(a) \cap Covered(b)
      BY <1>3, <2>2 DEF Overlaps, Covered
    <3> QED BY <3>1
  <2> QED BY <2>1, <2>2
<1>4. ASSUME OutputsDisjoint(ranges), NEW i \in DOMAIN ranges, NEW j \in DOMAIN ranges, i # j
      PROVE  Covered(ranges[i]) \cap Covered(ranges[j]) = {}
  <2>1. CASE i < j
    BY <1>1, <1>2, <1>4, <2>1 DEF OutputsDisjoint
  <2>2. CASE j < i
    BY <1>1, <1>2, <1>4, <2>2 DEF OutputsDisjoint
  <2> QED BY <1>1, <1>4, <2>1, <2>2
<1>5. ASSUME \A i \in DOMAIN ranges : ranges[i].start < ranges[i].end,
             \A i, j \in DOMAIN ranges :
                 i # j => Covered(ranges[i]) \cap Covered(ranges[j]) = {}
      PROVE  OutputsDisjoint(ranges)
  BY <1>1, <1>3, <1>5 DEF OutputsDisjoint
<1>6. OutputsDisjoint(ranges) =>
        \A i, j \in DOMAIN ranges : i # j => Covered(ranges[i]) \cap Covered(ranges[j]) = {}
  BY <1>4
<1> QED BY <1>5, <1>6

(***************************************************************************)
(* The responses: what the native executor hands back for a run, what the  *)
(* shim makes of it, what a sink is given of it, and what is read of it.   *)
(***************************************************************************)

(* What the shim makes of the results of an answer when none throws.        *)
CopiesOf(results, option) ==
    LET names == NamesOf(SinkTensorsOf(option))
    IN  [i \in DOMAIN results |->
            Copied(i, results[i], names, option # {}, Len(Emitted(results[i], names)) + 1)]

(* The response of t is of this call, and of these results.                 *)
AnswerOf(t, call, results) ==
    LET tensors == SinkTensorsOf(call.sink)
    IN  /\ results \in Answers(WithSink(call), call.sink)
        /\ \A i \in DOMAIN results : ~Throws(results[i], tensors)
        /\ answer[t] = {[results |-> results, tensors |-> tensors]}
        /\ outputs[t] = CopiesOf(results, call.sink)
        /\ heap[t] = HeapOf(results, outputs[t])
        /\ filled[t] = Filling(results, tensors)

(* The call it is of, which is in progress or over.                         *)
AnsweredCall(t, call) ==
    /\ CallAccepted(call)
    /\ pc[t] = "submitted" => CallOf(t, call)
    /\ call.sink # {} => SinkNamesValid(NamesOf(The(call.sink)))
    /\ \E results : AnswerOf(t, call, results)

(* The response that the caller has: the lazy tensors of the first final    *)
(* output, each valid, and read or not.                                     *)
OpenedOf(t) ==
    /\ \A a \in answer[t] : AllWritten(a.results, a.tensors)
    /\ \E i \in FinalIndex(t) :
          LET lazies == LazyTensors(outputs[t][i])
          IN  /\ \A k \in DOMAIN lazies :
                     /\ Valid(lazies[k], heap[t])
                     /\ response[t][k].cell \in {{}, {Decoded(lazies[k], heap[t])}}
              /\ response[t] = [k \in DOMAIN lazies |->
                                   [lazy |-> lazies[k], cell |-> response[t][k].cell]]

(* Blocks that are left behind when a response was not returned.            *)
Leaked(block) == block[2] = "tensor" /\ block[3] \notin ToSet(LogitNames)

(* What holds of the response of a thread.                                  *)
ResponseOf(t) ==
    /\ stage[t] \in {"none", "returned", "open", "failed"}
    /\ stage[t] \in {"returned", "failed"} => pc[t] = "submitted"
    /\ stage[t] = "open" => pc[t] \in {"submitted", "idle"}
    /\ pc[t] = "submitted" => SinkReadable(t)
    /\ stage[t] \in {"returned", "open"} => \E call \in Calls : AnsweredCall(t, call)
    /\ stage[t] = "open" => OpenedOf(t)
    /\ stage[t] # "open" => response[t] = <<>>
    /\ stage[t] \in {"none", "failed"} => \A b \in DOMAIN heap[t] : Leaked(b)

(* The variables of ExecutorCalls are functions on the threads.             *)
OutputsAreFunctions ==
    /\ stage = [t \in Threads |-> stage[t]]
    /\ answer = [t \in Threads |-> answer[t]]
    /\ heap = [t \in Threads |-> heap[t]]
    /\ outputs = [t \in Threads |-> outputs[t]]
    /\ response = [t \in Threads |-> response[t]]
    /\ filled = [t \in Threads |-> filled[t]]

(* The invariant of the responses, which holds together with those of the   *)
(* requests and of the sinks.                                               *)
OutputInv == OutputsAreFunctions /\ \A t \in Threads : ResponseOf(t)

(* A thread whose variables are left alone keeps its response.              *)
LEMMA ResponseKept ==
    ASSUME NEW t, ResponseOf(t),
           pc'[t] = pc[t], asked'[t] = asked[t], sink'[t] = sink[t], scratch'[t] = scratch[t],
           stage'[t] = stage[t], answer'[t] = answer[t], heap'[t] = heap[t],
           outputs'[t] = outputs[t], response'[t] = response[t], filled'[t] = filled[t]
    PROVE  ResponseOf(t)'
<1>1. SinkReadable(t)' = SinkReadable(t)
  BY DEF SinkReadable
<1>2. \A call : CallOf(t, call)' = CallOf(t, call)
  BY DEF CallOf
<1>3. \A call, results : AnswerOf(t, call, results)' = AnswerOf(t, call, results)
  BY DEF AnswerOf
<1>4. \A call : AnsweredCall(t, call)' = AnsweredCall(t, call)
  BY <1>2, <1>3 DEF AnsweredCall
<1>5. FinalIndex(t)' = FinalIndex(t)
  BY DEF FinalIndex
<1>6. OpenedOf(t)' = OpenedOf(t)
  BY <1>5 DEF OpenedOf
<1> QED BY <1>1, <1>4, <1>6 DEF ResponseOf

(* A behaviour of ExecutorSetup is one of ExecutorCalls: the steps of the   *)
(* configuration leave its variables alone, but for Shutdown, which is one  *)
(* of its steps.                                                            *)
LEMMA SetupCalls == SetupSpec => ExecutorSpec
<1>1. SetupInit => ExecutorInit
  BY DEF SetupInit
<1>2. [SetupNext]_allVars => [ExecutorNext]_executorVars
  <2> SUFFICES ASSUME [SetupNext]_allVars PROVE [ExecutorNext]_executorVars
    OBVIOUS
  <2>1. CASE Create \/ CreateRefused \/ Created
    BY <2>1 DEF Create, CreateRefused, Created
  <2>2. CASE Shutdown
    BY <2>2 DEF Shutdown, ExecutorNext
  <2>3. CASE Use
    BY <2>3 DEF Use, ExecutorNext
  <2>4. CASE UNCHANGED allVars
    BY <2>4 DEF allVars
  <2> QED BY <2>1, <2>2, <2>3, <2>4 DEF SetupNext
<1> QED BY <1>1, <1>2, PTL DEF SetupSpec, ExecutorSpec
-----------------------------------------------------------------------------
(* Selected: what is picked of a list, in the order of the list.            *)
Picked(sel, e, kept) == IF e \in kept THEN Append(sel, e) ELSE sel

(* The selections from the prefixes of a list.                              *)
Selecting(list, kept, k, it) ==
    it = [i \in 0 .. k |-> IF i = 0 THEN <<>> ELSE Picked(it[i - 1], list[i], kept)]

(* Every list is picked from step by step.                                  *)
LEMMA SelectionsExist ==
    ASSUME NEW list, NEW kept
    PROVE  \A k \in Nat : \E it : Selecting(list, kept, k, it)
<1> DEFINE Has == {k \in Nat : \E it : Selecting(list, kept, k, it)}
<1>1. 0 \in Has
  <2> DEFINE it == [i \in 0 .. 0 |-> <<>>]
  <2>1. \A i \in 0 .. 0 : i = 0
    OBVIOUS
  <2>2. Selecting(list, kept, 0, it)
    BY <2>1 DEF Selecting
  <2> QED BY <2>2
<1>2. ASSUME NEW k \in Nat, k \in Has PROVE k + 1 \in Has
  <2>1. PICK it : Selecting(list, kept, k, it)
    BY <1>2
  <2> DEFINE next == [i \in 0 .. k + 1 |->
                         IF i = k + 1 THEN Picked(it[k], list[k + 1], kept) ELSE it[i]]
  <2>2. ASSUME NEW i \in 0 .. k + 1
        PROVE  next[i] = IF i = 0 THEN <<>> ELSE Picked(next[i - 1], list[i], kept)
    <3>1. CASE i = k + 1
      <4>1. next[k] = it[k]
        OBVIOUS
      <4> QED BY <3>1, <4>1
    <3>2. CASE i # k + 1
      <4>1. i \in 0 .. k /\ next[i] = it[i]
        BY <3>2
      <4>2. i # 0 => i - 1 \in 0 .. k + 1 /\ i - 1 # k + 1
        BY <4>1
      <4>3. i # 0 => next[i - 1] = it[i - 1]
        BY <4>2
      <4>4. it[i] = IF i = 0 THEN <<>> ELSE Picked(it[i - 1], list[i], kept)
        BY <2>1, <4>1 DEF Selecting
      <4> QED BY <4>1, <4>3, <4>4
    <3> QED BY <3>1, <3>2
  <2>3. Selecting(list, kept, k + 1, next)
    BY <2>2 DEF Selecting
  <2> HIDE DEF next
  <2> QED BY <2>3
<1> HIDE DEF Has
<1>3. Nat \subseteq Has
  BY <1>1, <1>2, SetInduction
<1> QED BY <1>3 DEF Has

(* Selected is the last step.                                               *)
LEMMA SelectedIsLast ==
    ASSUME NEW list, NEW kept, NEW n \in Nat, n = Len(list)
    PROVE  \E it : Selecting(list, kept, n, it) /\ Selected(list, kept) = it[n]
<1>1. \E it : Selecting(list, kept, n, it)
  BY SelectionsExist
<1> QED BY <1>1 DEF Selected, Selecting, Picked

(* The positions in the list of what was picked of its first k elements.    *)
Picks(list, kept, sel, pos, k) ==
    /\ pos \in [1 .. Len(sel) -> 1 .. k]
    /\ \A j \in 1 .. Len(sel) : sel[j] = list[pos[j]] /\ sel[j] \in kept
    /\ \A i, j \in 1 .. Len(sel) : i < j => pos[i] < pos[j]
    /\ \A i \in 1 .. k : list[i] \in kept => \E j \in 1 .. Len(sel) : pos[j] = i

(* One more element is picked, or not.                                      *)
LEMMA PicksStep ==
    ASSUME NEW S, NEW list, NEW kept, NEW sel \in Seq(S), NEW k \in Nat, NEW m, m = k + 1,
           NEW e \in S, e = list[m], NEW pos, Picks(list, kept, sel, pos, k)
    PROVE  /\ Picked(sel, e, kept) \in Seq(S)
           /\ \E next : Picks(list, kept, Picked(sel, e, kept), next, m)
<1>1. CASE e \notin kept
  <2>1. Picked(sel, e, kept) = sel
    BY <1>1 DEF Picked
  <2>2. pos \in [1 .. Len(sel) -> 1 .. m]
    BY DEF Picks
  <2>3. ASSUME NEW i \in 1 .. m, list[i] \in kept
        PROVE  \E j \in 1 .. Len(sel) : pos[j] = i
    <3>1. i # m
      BY <1>1, <2>3
    <3>2. i \in 1 .. k
      BY <3>1
    <3> QED BY <2>3, <3>2 DEF Picks
  <2>4. Picks(list, kept, sel, pos, m)
    BY <2>2, <2>3 DEF Picks
  <2> QED BY <2>1, <2>4
<1>2. CASE e \in kept
  <2> DEFINE n == Len(sel)
             new == Append(sel, e)
             next == [j \in 1 .. n + 1 |-> IF j = n + 1 THEN m ELSE pos[j]]
  <2>1. /\ n \in Nat /\ new \in Seq(S) /\ Len(new) = n + 1 /\ new[n + 1] = e
        /\ \A j \in 1 .. n : new[j] = sel[j]
    OBVIOUS
  <2> HIDE DEF n, new
  <2>2. /\ pos \in [1 .. n -> 1 .. k]
        /\ \A j \in 1 .. n : sel[j] = list[pos[j]] /\ sel[j] \in kept
        /\ \A i, j \in 1 .. n : i < j => pos[i] < pos[j]
        /\ \A i \in 1 .. k : list[i] \in kept => \E j \in 1 .. n : pos[j] = i
    BY DEF Picks, n
  <2>3. next \in [1 .. n + 1 -> 1 .. m]
    BY <2>1, <2>2
  <2>4. \A j \in 1 .. n : next[j] = pos[j] /\ pos[j] \in 1 .. k
    BY <2>1, <2>2
  <2>5. next[n + 1] = m
    BY <2>1
  <2>6. \A j \in 1 .. n + 1 : new[j] = list[next[j]] /\ new[j] \in kept
    <3> HIDE DEF next
    <3> SUFFICES ASSUME NEW j \in 1 .. n + 1 PROVE new[j] = list[next[j]] /\ new[j] \in kept
      OBVIOUS
    <3>1. CASE j = n + 1
      BY <1>2, <2>1, <2>5, <3>1
    <3>2. CASE j # n + 1
      <4>1. j \in 1 .. n
        BY <2>1, <3>2
      <4> QED BY <2>1, <2>2, <2>4, <4>1
    <3> QED BY <3>1, <3>2
  <2>7. \A i, j \in 1 .. n + 1 : i < j => next[i] < next[j]
    <3> HIDE DEF next
    <3> SUFFICES ASSUME NEW i \in 1 .. n + 1, NEW j \in 1 .. n + 1, i < j
                 PROVE  next[i] < next[j]
      OBVIOUS
    <3>1. i \in 1 .. n
      BY <2>1
    <3>2. CASE j = n + 1
      BY <2>1, <2>4, <2>5, <3>1, <3>2
    <3>3. CASE j # n + 1
      <4>1. j \in 1 .. n
        BY <2>1, <3>3
      <4> QED BY <2>2, <2>4, <3>1, <4>1
    <3> QED BY <3>2, <3>3
  <2>8. \A i \in 1 .. m : list[i] \in kept => \E j \in 1 .. n + 1 : next[j] = i
    <3> HIDE DEF next
    <3> SUFFICES ASSUME NEW i \in 1 .. m, list[i] \in kept
                 PROVE  \E j \in 1 .. n + 1 : next[j] = i
      OBVIOUS
    <3>1. CASE i = m
      BY <2>1, <2>5, <3>1
    <3>2. CASE i # m
      <4>1. i \in 1 .. k
        BY <3>2
      <4>2. PICK j \in 1 .. n : pos[j] = i
        BY <2>2, <4>1
      <4> QED BY <2>1, <2>4, <4>2
    <3> QED BY <3>1, <3>2
  <2> HIDE DEF next
  <2>9. Picks(list, kept, new, next, m)
    BY <2>1, <2>3, <2>6, <2>7, <2>8 DEF Picks
  <2>10. Picked(sel, e, kept) = new
    BY <1>2 DEF Picked, new
  <2> QED BY <2>1, <2>9, <2>10
<1> QED BY <1>1, <1>2

(* What is selected are the elements of the list that are in the set, in    *)
(* the order of the list.                                                   *)
LEMMA SelectedFrom ==
    ASSUME NEW S, NEW list \in Seq(S), NEW kept
    PROVE  /\ Selected(list, kept) \in Seq(S)
           /\ \E pos : Picks(list, kept, Selected(list, kept), pos, Len(list))
<1> DEFINE n == Len(list)
<1>1. n \in Nat /\ \A i \in 1 .. n : list[i] \in S
  OBVIOUS
<1>2. PICK it : Selecting(list, kept, n, it) /\ Selected(list, kept) = it[n]
  BY <1>1, SelectedIsLast
<1> HIDE DEF n
<1>3. ASSUME NEW i \in 0 .. n
      PROVE  it[i] = IF i = 0 THEN <<>> ELSE Picked(it[i - 1], list[i], kept)
  BY <1>2 DEF Selecting
<1> DEFINE Has == {k \in Nat : k <= n => /\ it[k] \in Seq(S)
                                         /\ \E pos : Picks(list, kept, it[k], pos, k)}
<1>4. 0 \in Has
  <2>1. it[0] = <<>>
    BY <1>1, <1>3
  <2> DEFINE pos == [j \in 1 .. 0 |-> j]
  <2>2. pos \in [1 .. 0 -> 1 .. 0]
    OBVIOUS
  <2>3. Len(<<>>) = 0 /\ 1 .. 0 = {}
    OBVIOUS
  <2> HIDE DEF pos
  <2>4. Picks(list, kept, <<>>, pos, 0)
    BY <2>2, <2>3 DEF Picks
  <2>5. it[0] \in Seq(S)
    BY <2>1
  <2>6. \E p : Picks(list, kept, it[0], p, 0)
    BY <2>1, <2>4
  <2> QED BY <2>5, <2>6
<1>5. ASSUME NEW k \in Nat, k \in Has PROVE k + 1 \in Has
  <2> SUFFICES ASSUME k + 1 <= n
               PROVE  /\ it[k + 1] \in Seq(S)
                      /\ \E pos : Picks(list, kept, it[k + 1], pos, k + 1)
    OBVIOUS
  <2>1. PICK pos : it[k] \in Seq(S) /\ Picks(list, kept, it[k], pos, k)
    BY <1>1, <1>5
  <2> DEFINE m == k + 1
             sel == it[k]
             e == list[m]
  <2>2. m \in 0 .. n /\ m # 0 /\ m - 1 = k /\ m = k + 1 /\ e \in S
    BY <1>1
  <2>3. it[m] = Picked(sel, e, kept)
    <3> HIDE DEF m
    <3>1. it[m] = Picked(it[m - 1], list[m], kept)
      BY <1>3, <2>2
    <3> QED BY <2>2, <3>1
  <2>4. sel \in Seq(S) /\ Picks(list, kept, sel, pos, k) /\ e = list[m]
    BY <2>1
  <2> HIDE DEF m, sel, e
  <2>5. /\ Picked(sel, e, kept) \in Seq(S)
        /\ \E next : Picks(list, kept, Picked(sel, e, kept), next, m)
    BY <2>2, <2>4, PicksStep
  <2> QED BY <2>2, <2>3, <2>5
<1> HIDE DEF Has
<1>6. n \in Has
  BY <1>1, <1>4, <1>5, SetInduction
<1> QED BY <1>1, <1>2, <1>6 DEF Has, n

(* As sets.                                                                 *)
LEMMA SelectedElements ==
    ASSUME NEW list, IsList(list), NEW kept
    PROVE  /\ IsList(Selected(list, kept))
           /\ ToSet(Selected(list, kept)) = ToSet(list) \cap kept
<1> DEFINE S == ToSet(list)
           sel == Selected(list, kept)
<1>1. list \in Seq(S) /\ DOMAIN list = 1 .. Len(list) /\ \A i \in DOMAIN list : list[i] \in S
  BY DEF IsList, ToSet
<1> HIDE DEF S
<1>2. sel \in Seq(S) /\ \E pos : Picks(list, kept, sel, pos, Len(list))
  BY <1>1, SelectedFrom
<1> HIDE DEF sel
<1>3. PICK pos : Picks(list, kept, sel, pos, Len(list))
  BY <1>2
<1>4. DOMAIN sel = 1 .. Len(sel)
  BY <1>2
<1>5. \A j \in DOMAIN sel : sel[j] \in S /\ sel[j] \in kept
  BY <1>1, <1>3, <1>4 DEF Picks
<1>6. \A i \in DOMAIN list : list[i] \in kept => \E j \in DOMAIN sel : sel[j] = list[i]
  BY <1>1, <1>3, <1>4 DEF Picks
<1>7. ToSet(sel) = S \cap kept
  <2>1. \A x \in ToSet(sel) : x \in S \cap kept
    BY <1>5 DEF ToSet
  <2>2. ASSUME NEW x \in S, x \in kept PROVE x \in ToSet(sel)
    BY <1>6, <2>2 DEF S, ToSet
  <2> QED BY <2>1, <2>2
<1>8. IsList(sel)
  <2> DEFINE R == {sel[i] : i \in DOMAIN sel}
  <2>1. \A i \in 1 .. Len(sel) : sel[i] \in R
    BY <1>4
  <2>2. sel \in Seq(R)
    <3> HIDE DEF R
    <3>1. sel = [i \in 1 .. Len(sel) |-> sel[i]] /\ Len(sel) \in Nat
      BY <1>2
    <3> QED BY <2>1, <3>1
  <2> QED BY <2>2 DEF IsList
<1> QED BY <1>7, <1>8 DEF S, sel

(* A list over a set is a list.                                             *)
LEMMA ListOver ==
    ASSUME NEW S, NEW list \in Seq(S)
    PROVE  IsList(list) /\ ToSet(list) \in SUBSET S
<1> DEFINE R == {list[i] : i \in DOMAIN list}
<1>1. DOMAIN list = 1 .. Len(list) /\ Len(list) \in Nat
  OBVIOUS
<1>2. \A i \in 1 .. Len(list) : list[i] \in R /\ list[i] \in S
  BY <1>1
<1>3. list = [i \in 1 .. Len(list) |-> list[i]]
  OBVIOUS
<1>4. list \in Seq(R)
  <2> HIDE DEF R
  <2> QED BY <1>1, <1>2, <1>3
<1>5. ToSet(list) \in SUBSET S
  BY <1>1, <1>2 DEF ToSet
<1> QED BY <1>4, <1>5 DEF IsList

(* An option as a list.                                                     *)
LEMMA OptionAsList ==
    ASSUME NEW option, IsOption(option)
    PROVE  /\ option = {} => SetToSeq(option) = <<>>
           /\ \A e \in option : SetToSeq(option) = <<e>>
<1>1. ASSUME option = {} PROVE SetToSeq(option) = <<>>
  <2>1. Cardinality(option) = 0
    BY <1>1, FS_EmptySet
  <2> DEFINE F == [1 .. 0 -> option]
             f == [i \in 1 .. 0 |-> i]
  <2>2. f \in F /\ IsInjective(f)
    BY DEF IsInjective
  <2>3. SetToSeq(option) \in F
    BY <2>1, <2>2 DEF SetToSeq
  <2>4. \A g \in F : g = <<>>
    OBVIOUS
  <2> QED BY <2>3, <2>4
<1>2. ASSUME NEW e \in option PROVE SetToSeq(option) = <<e>>
  <2>1. option = {e}
    BY DEF IsOption
  <2>2. Cardinality(option) = 1
    BY <2>1, FS_Singleton
  <2> DEFINE F == [1 .. 1 -> option]
             f == [i \in 1 .. 1 |-> e]
  <2>3. f \in F /\ IsInjective(f)
    BY DEF IsInjective
  <2>4. SetToSeq(option) \in F
    BY <2>2, <2>3 DEF SetToSeq
  <2>5. \A g \in F : g = <<e>>
    BY <2>1
  <2> QED BY <2>4, <2>5
<1> QED BY <1>1, <1>2

(* Element j of the concatenation is an element of one of the n parts.      *)
InPart(seqs, n, j) ==
    \E k \in Nat : \E m \in 1 .. n :
        /\ m = k + 1
        /\ End(seqs, k) < j /\ j <= End(seqs, m)
        /\ j - End(seqs, k) \in 1 .. Len(Nth(seqs, m))
        /\ FlattenSeq(seqs)[j] = Nth(seqs, m)[j - End(seqs, k)]

(* Where the elements of a joined list come from.                           *)
LEMMA FlattenPlaces ==
    ASSUME NEW S, NEW seqs \in Seq(Seq(S)), NEW n, n = Len(seqs),
           NEW j \in 1 .. Len(FlattenSeq(seqs))
    PROVE  InPart(seqs, n, j)
<1> DEFINE list == FlattenSeq(seqs)
           Past == {m \in Nat : m <= n /\ j <= End(seqs, m)}
<1>1. n \in Nat /\ list \in Seq(S)
  <2>1. n \in Nat
    OBVIOUS
  <2> QED BY <2>1, EndsOfParts
<1>2. /\ End(seqs, 0) = 0 /\ End(seqs, n) = Len(list)
      /\ \A i \in 0 .. n : End(seqs, i) \in Nat /\ End(seqs, i) <= End(seqs, n)
  BY EndsOfParts
<1>3. n \in Past
  BY <1>1, <1>2
<1>4. PICK m \in Past : \A i \in Past : m <= i
  BY <1>3, LeastElement
<1>5. m \in Nat /\ m <= n /\ j <= End(seqs, m) /\ m # 0
  BY <1>2
<1> DEFINE k == m - 1
<1>6. k \in Nat /\ m = k + 1 /\ m \in 1 .. n
  BY <1>1, <1>5
<1>7. k \notin Past
  BY <1>4, <1>6
<1>8. k \in 0 .. n /\ m \in 0 .. n /\ End(seqs, k) \in Nat /\ End(seqs, m) \in Nat
  BY <1>1, <1>2, <1>6
<1>9. End(seqs, k) < j
  BY <1>1, <1>5, <1>6, <1>7, <1>8
<1> HIDE DEF k, Past, list
<1>10. /\ Nth(seqs, m) \in Seq(S)
       /\ End(seqs, m) = End(seqs, k) + Len(Nth(seqs, m))
       /\ Between(list, End(seqs, k), End(seqs, m)) = Nth(seqs, m)
  BY <1>6, PartBetweenEnds DEF list
<1> DEFINE a == End(seqs, k)
           b == End(seqs, m)
           i == j - a
<1>11. /\ a \in Nat /\ b \in Nat /\ b <= Len(list) /\ i \in 1 .. b - a
       /\ j \in 1 .. Len(list) /\ j = a + i
  BY <1>2, <1>5, <1>8, <1>9 DEF list
<1>12. i \in 1 .. Len(Nth(seqs, m))
  BY <1>10, <1>11
<1>13. Between(list, a, b)[i] = list[j]
  <2> HIDE DEF a, b, i
  <2>1. Between(list, a, b) = SubSeq(list, a + 1, b)
    BY DEF Between
  <2>2. \A x \in 1 .. b - a : SubSeq(list, a + 1, b)[x] = list[a + x]
    BY <1>1, <1>11
  <2> QED BY <1>11, <2>1, <2>2
<1> QED BY <1>6, <1>9, <1>5, <1>10, <1>12, <1>13 DEF list, InPart

(* Each element of a part is in the joined list.                            *)
LEMMA PlaceOfElement ==
    ASSUME NEW S, NEW seqs \in Seq(Seq(S)), NEW n, n = Len(seqs),
           NEW k \in Nat, NEW m, m = k + 1, m <= n, NEW i \in 1 .. Len(Nth(seqs, m))
    PROVE  /\ End(seqs, k) + i \in 1 .. Len(FlattenSeq(seqs))
           /\ FlattenSeq(seqs)[End(seqs, k) + i] = Nth(seqs, m)[i]
<1> DEFINE list == FlattenSeq(seqs)
           a == End(seqs, k)
           b == End(seqs, m)
<1>1. n \in Nat /\ list \in Seq(S)
  <2>1. n \in Nat
    OBVIOUS
  <2> QED BY <2>1, EndsOfParts
<1>2. k \in 0 .. n /\ m \in 0 .. n
  BY <1>1
<1>3. a \in Nat /\ b \in Nat /\ b <= Len(list)
  BY <1>2, EndsOfParts
<1>4. /\ Nth(seqs, m) \in Seq(S)
      /\ b = a + Len(Nth(seqs, m))
      /\ Between(list, a, b) = Nth(seqs, m)
  BY PartBetweenEnds
<1> HIDE DEF list, a, b
<1>5. i \in 1 .. b - a /\ a + i \in 1 .. Len(list)
  BY <1>1, <1>3, <1>4
<1>6. Between(list, a, b)[i] = list[a + i]
  BY <1>1, <1>3, <1>5 DEF Between
<1> QED BY <1>4, <1>5, <1>6 DEF list, a, b

(* Lists are over the same set, that of all their elements.                 *)
LEMMA PartsOver ==
    ASSUME NEW n \in Nat, NEW seqs, seqs = [m \in 1 .. n |-> seqs[m]],
           \A m \in 1 .. n : IsList(seqs[m])
    PROVE  n = Len(seqs) /\ \E S : seqs \in Seq(Seq(S))
<1> DEFINE S == UNION {ToSet(seqs[m]) : m \in 1 .. n}
<1>1. ASSUME NEW m \in 1 .. n PROVE seqs[m] \in Seq(S)
  <2> DEFINE R == {seqs[m][i] : i \in DOMAIN seqs[m]}
  <2>1. seqs[m] \in Seq(R)
    BY DEF IsList
  <2>2. R \subseteq S
    BY DEF ToSet
  <2> HIDE DEF R, S
  <2> QED BY <2>1, <2>2
<1> HIDE DEF S
<1>2. seqs \in Seq(Seq(S)) /\ n = Len(seqs)
  <2> DEFINE Q == Seq(S)
  <2>1. \A m \in 1 .. n : seqs[m] \in Q
    BY <1>1
  <2> HIDE DEF Q
  <2>2. seqs \in Seq(Q) /\ n = Len(seqs)
    BY <2>1
  <2> QED BY <2>2 DEF Q
<1> QED BY <1>2

-----------------------------------------------------------------------------
(* Logits and the other outputs of a result.                                *)
LogitOf(result, k, o) ==
    \E t \in result.logits[LogitNames[k]] : o = [name |-> LogitNames[k], tensor |-> t]

(* The logits of a result, in the order of their names.                     *)
LEMMA LogitsInOrder ==
    ASSUME NEW result, ResultTyped(result)
    PROVE  /\ IsList(Logits(result))
           /\ \A i \in DOMAIN Logits(result) : \E k \in 1 .. 3 : LogitOf(result, k, Logits(result)[i])
           /\ \A i, j \in DOMAIN Logits(result) : i < j =>
                  \E k, m \in 1 .. 3 : /\ k < m /\ LogitOf(result, k, Logits(result)[i])
                                       /\ LogitOf(result, m, Logits(result)[j])
           /\ \A k \in 1 .. 3 : \A o : LogitOf(result, k, o) =>
                  \E i \in DOMAIN Logits(result) : Logits(result)[i] = o
<1> DEFINE of(k) == {[name |-> LogitNames[k], tensor |-> t] : t \in result.logits[LogitNames[k]]}
           seqs == [k \in DOMAIN LogitNames |-> SetToSeq(of(k))]
           list == Logits(result)
<1>1. DOMAIN LogitNames = 1 .. 3 /\ \A k \in 1 .. 3 : LogitNames[k] \in ToSet(LogitNames)
  BY DEF LogitNames, ToSet
<1>2. ASSUME NEW k \in 1 .. 3
      PROVE  /\ IsOption(of(k))
             /\ \A o : o \in of(k) <=> LogitOf(result, k, o)
  <2>1. IsOption(result.logits[LogitNames[k]])
    BY <1>1 DEF ResultTyped
  <2> QED BY <2>1 DEF IsOption, LogitOf
<1>3. ASSUME NEW k \in 1 .. 3
      PROVE  /\ IsList(seqs[k]) /\ Len(seqs[k]) \in 0 .. 1
             /\ \A i \in 1 .. Len(seqs[k]) : i = 1 /\ LogitOf(result, k, seqs[k][i])
             /\ \A o : LogitOf(result, k, o) => 1 \in 1 .. Len(seqs[k]) /\ seqs[k][1] = o
  <2>1. seqs[k] = SetToSeq(of(k))
    BY <1>1
  <2>2. /\ of(k) = {} => SetToSeq(of(k)) = <<>>
        /\ \A e \in of(k) : SetToSeq(of(k)) = <<e>>
    <3> HIDE DEF of
    <3> QED BY <1>2, OptionAsList
  <2> HIDE DEF of, seqs
  <2>3. CASE of(k) = {}
    <3>1. seqs[k] = <<>>
      BY <2>1, <2>2, <2>3
    <3>2. <<>> \in Seq({})
      OBVIOUS
    <3>3. IsList(<<>>)
      BY <3>2, ListOver
    <3> QED BY <1>2, <2>3, <3>1, <3>3
  <2>4. ASSUME NEW e \in of(k) PROVE <1>3!2
    <3>1. seqs[k] = <<e>>
      BY <2>1, <2>2
    <3>2. IsList(<<e>>) /\ Len(<<e>>) = 1 /\ <<e>>[1] = e
      <4> DEFINE E == {e}
      <4>1. e \in E
        OBVIOUS
      <4> HIDE DEF E
      <4>2. <<e>> \in Seq(E)
        BY <4>1
      <4> QED BY <4>2, ListOver
    <3>3. \A o \in of(k) : o = e
      BY <1>2 DEF IsOption
    <3> HIDE DEF LogitOf
    <3> QED BY <1>2, <3>1, <3>2, <3>3
  <2> QED BY <2>3, <2>4
<1>4. list = FlattenSeq(seqs)
  BY DEF Logits
<1> DEFINE n == 3
<1> HIDE DEF n
<1>12. n = 3 /\ n \in Nat
  BY DEF n
<1>13. n = Len(seqs) /\ \E S : seqs \in Seq(Seq(S))
  <2>1. seqs = [k \in 1 .. n |-> seqs[k]]
    BY <1>1 DEF n
  <2>2. \A k \in 1 .. n : IsList(seqs[k])
    BY <1>3 DEF n
  <2> HIDE DEF seqs
  <2> QED BY <1>12, <2>1, <2>2, PartsOver
<1>5. PICK S : seqs \in Seq(Seq(S)) /\ n = Len(seqs)
  BY <1>13
<1> HIDE DEF seqs, list, of
<1>6. list \in Seq(S)
  BY <1>4, <1>5, EndsOfParts
<1>7. DOMAIN list = 1 .. Len(list) /\ Len(list) \in Nat
  BY <1>6
<1>8. ASSUME NEW j \in 1 .. Len(list)
      PROVE  \E m \in 1 .. 3 : /\ LogitOf(result, m, list[j])
                               /\ End(seqs, m - 1) < j /\ j = End(seqs, m)
  <2>1. j \in 1 .. Len(FlattenSeq(seqs))
    BY <1>4
  <2>2. PICK k \in Nat : \E m \in 1 .. n :
               /\ m = k + 1
               /\ End(seqs, k) < j /\ j <= End(seqs, m)
               /\ j - End(seqs, k) \in 1 .. Len(Nth(seqs, m))
               /\ FlattenSeq(seqs)[j] = Nth(seqs, m)[j - End(seqs, k)]
    <3>1. seqs \in Seq(Seq(S)) /\ n = Len(seqs)
      BY <1>5
    <3> HIDE DEF n
    <3>2. InPart(seqs, n, j)
      BY <3>1, <2>1, FlattenPlaces
    <3> QED BY <3>2 DEF InPart
  <2>3. PICK m \in 1 .. n :
               /\ m = k + 1
               /\ End(seqs, k) < j /\ j <= End(seqs, m)
               /\ j - End(seqs, k) \in 1 .. Len(Nth(seqs, m))
               /\ FlattenSeq(seqs)[j] = Nth(seqs, m)[j - End(seqs, k)]
    BY <2>2
  <2>10. m = k + 1 /\ m <= n /\ m \in 1 .. 3
    BY <1>12, <2>3
  <2>4. End(seqs, m) = End(seqs, k) + Len(Nth(seqs, m))
    BY <1>5, <2>10, PartBetweenEnds
  <2>5. End(seqs, k) \in Nat
    <3>1. k \in 0 .. n
      BY <1>12, <2>3
    <3> QED BY <1>5, <3>1, EndsOfParts
  <2>6. Len(seqs[m]) \in 0 .. 1 /\ \A i \in 1 .. Len(seqs[m]) : i = 1 /\ LogitOf(result, m, seqs[m][i])
    BY <1>3, <2>10
  <2>7. LogitOf(result, m, list[j])
    BY <1>4, <2>3, <2>6 DEF Nth
  <2>8. m - 1 = k /\ End(seqs, m - 1) < j
    BY <2>3
  <2>9. j = End(seqs, m)
    BY <2>3, <2>4, <2>5, <2>6 DEF Nth
  <2> QED BY <2>7, <2>8, <2>9, <2>10
<1>9. ASSUME NEW i \in 1 .. Len(list), NEW j \in 1 .. Len(list), i < j
      PROVE  \E k, m \in 1 .. 3 : k < m /\ LogitOf(result, k, list[i]) /\ LogitOf(result, m, list[j])
  <2>1. PICK k \in 1 .. 3 : LogitOf(result, k, list[i]) /\ End(seqs, k - 1) < i /\ i = End(seqs, k)
    BY <1>8
  <2>2. PICK m \in 1 .. 3 : LogitOf(result, m, list[j]) /\ End(seqs, m - 1) < j /\ j = End(seqs, m)
    BY <1>8
  <2>3. \A x \in 1 .. 3 : End(seqs, x - 1) <= End(seqs, x) /\ End(seqs, x) \in Nat /\ End(seqs, x - 1) \in Nat
    <3> SUFFICES ASSUME NEW x \in 1 .. 3
                 PROVE  End(seqs, x - 1) <= End(seqs, x) /\ End(seqs, x) \in Nat /\ End(seqs, x - 1) \in Nat
      OBVIOUS
    <3> DEFINE y == x - 1
    <3>1. y \in Nat /\ x = y + 1 /\ x <= n /\ y \in 0 .. n /\ x \in 0 .. n
      BY <1>12
    <3> HIDE DEF y
    <3>2. End(seqs, x) = End(seqs, y) + Len(Nth(seqs, x))
      BY <1>5, <3>1, PartBetweenEnds
    <3>3. End(seqs, x) \in Nat /\ End(seqs, y) \in Nat
      BY <1>5, <3>1, EndsOfParts
    <3>4. Len(Nth(seqs, x)) \in Nat
      BY <1>3 DEF Nth
    <3>5. End(seqs, y) <= End(seqs, x)
      BY <3>2, <3>3, <3>4
    <3> QED BY <3>3, <3>5 DEF y
  <2>4. k < m
    <3>1. End(seqs, 0) <= End(seqs, 1) /\ End(seqs, 1) <= End(seqs, 2) /\ End(seqs, 2) <= End(seqs, 3)
      BY <2>3
    <3>2. k # m
      BY <1>9, <2>1, <2>2
    <3>3. ~(m < k)
      <4> SUFFICES ASSUME m < k PROVE FALSE
        OBVIOUS
      <4>1. End(seqs, m) <= End(seqs, k - 1)
        BY <2>3, <3>1
      <4> QED BY <1>9, <2>1, <2>2, <2>3, <4>1
    <3> QED BY <3>2, <3>3
  <2> QED BY <2>1, <2>2, <2>4
<1>10. ASSUME NEW k \in 1 .. 3, NEW o, LogitOf(result, k, o)
       PROVE  \E i \in 1 .. Len(list) : list[i] = o
  <2>1. 1 \in 1 .. Len(seqs[k]) /\ seqs[k][1] = o
    BY <1>3, <1>10
  <2> DEFINE y == k - 1
  <2>2. y \in Nat /\ k = y + 1 /\ k <= n
    BY <1>12
  <2> HIDE DEF y
  <2>3. /\ End(seqs, y) + 1 \in 1 .. Len(FlattenSeq(seqs))
        /\ FlattenSeq(seqs)[End(seqs, y) + 1] = Nth(seqs, k)[1]
    <3>1. 1 \in 1 .. Len(Nth(seqs, k))
      BY <2>1 DEF Nth
    <3> QED BY <1>5, <2>2, <3>1, PlaceOfElement
  <2> QED BY <1>4, <2>1, <2>3 DEF Nth
<1>11. IsList(list)
  BY <1>6, ListOver
<1> QED BY <1>7, <1>8, <1>9, <1>10, <1>11 DEF list

(* Two lists, one after the other.                                          *)
LEMMA ListsJoined ==
    ASSUME NEW a, NEW b, IsList(a), IsList(b)
    PROVE  /\ IsList(a \o b) /\ DOMAIN (a \o b) = 1 .. Len(a) + Len(b)
           /\ Len(a) \in Nat /\ Len(b) \in Nat
           /\ \A i \in DOMAIN (a \o b) :
                  IF i <= Len(a) THEN i \in DOMAIN a /\ (a \o b)[i] = a[i]
                  ELSE i - Len(a) \in DOMAIN b /\ (a \o b)[i] = b[i - Len(a)]
           /\ ToSet(a \o b) = ToSet(a) \cup ToSet(b)
<1> DEFINE S == {a[i] : i \in DOMAIN a} \cup {b[i] : i \in DOMAIN b}
<1>1. a \in Seq(S) /\ b \in Seq(S)
  <2>1. a \in Seq({a[i] : i \in DOMAIN a}) /\ b \in Seq({b[i] : i \in DOMAIN b})
    BY DEF IsList
  <2> DEFINE A == {a[i] : i \in DOMAIN a}
             B == {b[i] : i \in DOMAIN b}
  <2>2. a \in Seq(A) /\ b \in Seq(B) /\ A \subseteq S /\ B \subseteq S
    BY <2>1
  <2> HIDE DEF A, B, S
  <2> QED BY <2>2
<1> HIDE DEF S
<1>2. /\ a \o b \in Seq(S) /\ Len(a \o b) = Len(a) + Len(b) /\ Len(a) \in Nat /\ Len(b) \in Nat
      /\ DOMAIN a = 1 .. Len(a) /\ DOMAIN b = 1 .. Len(b)
      /\ DOMAIN (a \o b) = 1 .. Len(a) + Len(b)
  BY <1>1
<1>3. ASSUME NEW i \in DOMAIN (a \o b)
      PROVE  IF i <= Len(a) THEN i \in DOMAIN a /\ (a \o b)[i] = a[i]
             ELSE i - Len(a) \in DOMAIN b /\ (a \o b)[i] = b[i - Len(a)]
  BY <1>1, <1>2
<1>4. ToSet(a \o b) = ToSet(a) \cup ToSet(b)
  <2>1. \A x \in ToSet(a \o b) : x \in ToSet(a) \cup ToSet(b)
    BY <1>3 DEF ToSet
  <2>2. \A i \in DOMAIN a : i \in DOMAIN (a \o b) /\ (a \o b)[i] = a[i]
    BY <1>1, <1>2
  <2>3. \A i \in DOMAIN b : Len(a) + i \in DOMAIN (a \o b) /\ (a \o b)[Len(a) + i] = b[i]
    BY <1>1, <1>2
  <2>4. \A x \in ToSet(a) \cup ToSet(b) : x \in ToSet(a \o b)
    BY <2>2, <2>3 DEF ToSet
  <2> QED BY <2>1, <2>4
<1>5. IsList(a \o b)
  BY <1>2, ListOver
<1> QED BY <1>2, <1>3, <1>4, <1>5

(* The outputs of a result are lists, and those with other names than the   *)
(* logits come from its additional outputs.                                 *)
LEMMA OutputsAreLists ==
    ASSUME NEW result, ResultTyped(result), NEW names
    PROVE  /\ IsList(Additional(result, names)) /\ IsList(Logits(result))
           /\ IsList(Emitted(result, names))
           /\ ToSet(Additional(result, names)) \subseteq ToSet(result.additional)
<1>1. IsList(result.additional)
  BY DEF ResultTyped
<1>2. /\ IsList(Additional(result, names))
      /\ ToSet(Additional(result, names)) \subseteq ToSet(result.additional)
  BY <1>1, SelectedElements DEF Additional
<1>3. IsList(Logits(result))
  BY LogitsInOrder
<1> QED BY <1>2, <1>3, ListsJoined DEF Emitted

(* The smaller of two numbers, and the least of many.                       *)
LEMMA SmallerOf ==
    ASSUME NEW i \in Int, NEW j \in Int
    PROVE  Min({i, j}) = IF i <= j THEN i ELSE j
<1> DEFINE x == IF i <= j THEN i ELSE j
<1>1. x \in {i, j} /\ \A y \in {i, j} : x <= y
  OBVIOUS
<1>2. \A z \in {i, j} : (\A y \in {i, j} : z <= y) => z = x
  OBVIOUS
<1> QED BY <1>1, <1>2 DEF Min

(* Min of a set of numbers, as CHOOSE defines it.                           *)
LEMMA LeastOf ==
    ASSUME NEW S \in SUBSET Nat, S # {}
    PROVE  Min(S) \in S /\ \A y \in S : Min(S) <= y
  BY LeastElement DEF Min

(* What a response that threw leaves behind are tensors of its additional   *)
(* outputs.                                                                 *)
LEMMA LeftByLeaks ==
    ASSUME NEW results, IsList(results), NEW i \in DOMAIN results, ResultTyped(results[i]),
           NEW m \in Nat, NEW tensors, NEW deferred
    PROVE  \A b \in DOMAIN LeftBy(i, m, results, tensors, deferred) : Leaked(b)
<1> DEFINE result == results[i]
           names == NamesOf(tensors)
           named == Additional(result, names)
           before == SubSeq(named, 1, Min({m - 1, Len(named)}))
<1>1. FreedResponses(i, results) = 1 .. i
  <2>1. DOMAIN results = 1 .. Len(results) /\ Len(results) \in Nat
    BY DEF IsList
  <2>2. i \in Int /\ Len(results) \in Int /\ i <= Len(results)
    BY <2>1
  <2>3. Min({i, Len(results)}) = i
    BY <2>2, SmallerOf
  <2> QED BY <2>3 DEF FreedResponses
<1>2. \A b \in DOMAIN LeftBy(i, m, results, tensors, deferred) :
        m # 0 /\ b \in NamedBefore(i, result, tensors, m)
  BY <1>1 DEF LeftBy
<1>3. ASSUME m # 0, NEW o \in ToSet(Kept(before, names))
      PROVE  o \in ToSet(result.additional)
  <2>1. IsList(named) /\ ToSet(named) \subseteq ToSet(result.additional)
    BY OutputsAreLists
  <2> DEFINE S == ToSet(named)
             x == Min({m - 1, Len(named)})
  <2>2. named \in Seq(S) /\ Len(named) \in Nat
    BY <2>1 DEF IsList, ToSet
  <2> HIDE DEF S, named
  <2>3. x \in 0 .. Len(named)
    <3>1. m - 1 \in Int /\ Len(named) \in Int /\ 0 <= m - 1
      BY <1>3, <2>2
    <3> QED BY <2>2, <3>1, SmallerOf
  <2> HIDE DEF x
  <2>4. SubSeq(named, 1, x) \in Seq(S)
    BY <2>2, <2>3, PrefixOf
  <2>5. IsList(before) /\ ToSet(before) \subseteq S
    BY <2>4, ListOver DEF x
  <2> HIDE DEF before
  <2>6. o \in ToSet(before)
    BY <1>3, <2>5, SelectedElements DEF Kept
  <2> QED BY <2>1, <2>5, <2>6 DEF S
<1>4. ASSUME m # 0, NEW b \in NamedBefore(i, result, tensors, m)
      PROVE  Leaked(b)
  <2>1. PICK o \in ToSet(Kept(before, names)) :
          b = TensorOutput(i, o.name, o.tensor).data.block /\ b # Null.block
    BY <1>4 DEF NamedBefore
  <2>2. o \in ToSet(result.additional)
    BY <1>3, <1>4
  <2>3. o.name \notin ToSet(LogitNames)
    BY <2>2 DEF ResultTyped
  <2>4. b = <<i, "tensor", o.name>>
    BY <2>1 DEF TensorOutput, Own, Null
  <2> QED BY <2>3, <2>4 DEF Leaked
<1> QED BY <1>2, <1>4

(* responses_free leaves nothing of the responses it frees.                 *)
LEMMA FreedIsNothing ==
    ASSUME NEW t, NEW results, heap[t] = HeapOf(results, outputs[t])
    PROVE  DOMAIN Freed(t) = {}
<1>1. DOMAIN heap[t] = UNION {Blocks(outputs[t][i]) : i \in DOMAIN outputs[t]}
  BY DEF HeapOf
<1> QED BY <1>1 DEF Freed

-----------------------------------------------------------------------------
(* A step of one thread leaves the calls of the others alone.               *)
LEMMA OthersAlone ==
    ASSUME IInv, SinkInv, NEW t \in Threads, RequestStep(t), NEW u \in Threads, u # t
    PROVE  /\ pc'[u] = pc[u] /\ asked'[u] = asked[u]
           /\ sink'[u] = sink[u] /\ scratch'[u] = scratch[u]
<1>1. /\ pc = [v \in Threads |-> pc[v]] /\ asked = [v \in Threads |-> asked[v]]
      /\ sink = [v \in Threads |-> sink[v]] /\ scratch = [v \in Threads |-> scratch[v]]
  BY DEF IInv, RequestTypeOK, VarsAreFunctions, SinkInv
<1>2. CASE Accept(t)
  <2>1. PICK call \in Calls :
          /\ asked' = [asked EXCEPT ![t] = {WithSink(call)}]
          /\ sink' = [sink EXCEPT ![t] = call.sink]
          /\ \/ scratch' = scratch
             \/ scratch' = [scratch EXCEPT ![t] = LaidOut(ScratchTaken, The(call.sink))]
    BY <1>2 DEF Accept, scratchVars
  <2>2. pc' = [pc EXCEPT ![t] = "accepted"]
    BY <1>2 DEF Accept
  <2> QED BY <1>1, <2>1, <2>2
<1>3. CASE Checkout(t) \/ Prepare(t) \/ Submit(t) \/ Refuse(t) \/ ReturnRefused(t)
  <2>1. /\ \E next : pc' = [pc EXCEPT ![t] = next]
        /\ UNCHANGED <<asked, sink, scratch>>
    BY <1>3 DEF Checkout, Prepare, Submit, Refuse, ReturnRefused, scratchVars
  <2> QED BY <1>1, <2>1
<1>4. CASE Finish(t)
  <2>1. /\ pc' = [pc EXCEPT ![t] = "idle"]
        /\ asked' = [asked EXCEPT ![t] = {}]
        /\ sink' = [sink EXCEPT ![t] = {}]
        /\ scratch' = [scratch EXCEPT ![t] = EmptyScratch]
    BY <1>4 DEF Finish
  <2> QED BY <1>1, <2>1
<1> QED BY <1>2, <1>3, <1>4 DEF RequestStep

(* The responses of the others are kept.                                    *)
LEMMA ResponsesKept ==
    ASSUME OutputInv, OutputsAreFunctions', NEW t \in Threads, ResponseOf(t)',
           \A u \in Threads \ {t} :
               /\ pc'[u] = pc[u] /\ asked'[u] = asked[u]
               /\ sink'[u] = sink[u] /\ scratch'[u] = scratch[u]
               /\ stage'[u] = stage[u] /\ answer'[u] = answer[u] /\ heap'[u] = heap[u]
               /\ outputs'[u] = outputs[u] /\ response'[u] = response[u]
               /\ filled'[u] = filled[u]
    PROVE  OutputInv'
<1>1. ASSUME NEW u \in Threads, u # t PROVE ResponseOf(u)'
  <2>1. ResponseOf(u)
    BY DEF OutputInv
  <2>2. u \in Threads \ {t}
    BY <1>1
  <2> QED BY <2>1, <2>2, ResponseKept
<1>2. \A u \in Threads : ResponseOf(u)'
  BY <1>1
<1> QED BY <1>2 DEF OutputInv

(* What a call that prepares its request has to do with responses: none.    *)
LEMMA PreparesHolds ==
    ASSUME IInv, SinkInv, OutputInv, NEW t \in Threads, Prepares(t)
    PROVE  OutputInv'
<1>1. UNCHANGED <<stage, answer, heap, outputs, response, filled>>
  BY DEF Prepares, outputVars
<1>2. OutputsAreFunctions'
  BY <1>1 DEF OutputInv, OutputsAreFunctions
<1>3. ResponseOf(t)
  BY DEF OutputInv
<1>4. /\ RequestStep(t)
      /\ stage[t] = "none" \/ pc[t] \in {"accepted", "holding", "prepared", "refused"}
  BY DEF Prepares, RequestStep, Checkout, Prepare, Submit, ReturnRefused
<1>5. stage[t] = "none"
  BY <1>3, <1>4 DEF ResponseOf
<1>6. pc'[t] = "submitted" => SinkReadable(t)'
  <2> SUFFICES ASSUME pc'[t] = "submitted" PROVE SinkReadable(t)'
    OBVIOUS
  <2>1. Submit(t)
    <3>1. ~(Refuse(t) \/ Accept(t) \/ Checkout(t) \/ Prepare(t) \/ ReturnRefused(t))
      BY DEF Refuse, Accept, Checkout, Prepare, ReturnRefused, IInv, RequestTypeOK
    <3> QED BY <3>1 DEF Prepares
  <2>2. SinkReadable(t)
    BY <2>1 DEF Submit, IInv, RequestTypeOK
  <2>3. UNCHANGED <<sink, scratch>>
    BY <2>1 DEF Submit, scratchVars
  <2> QED BY <2>2, <2>3 DEF SinkReadable
<1>7. ResponseOf(t)'
  BY <1>1, <1>3, <1>5, <1>6 DEF ResponseOf
<1>8. \A u \in Threads \ {t} : /\ pc'[u] = pc[u] /\ asked'[u] = asked[u]
                                /\ sink'[u] = sink[u] /\ scratch'[u] = scratch[u]
  BY <1>4, OthersAlone
<1> QED BY <1>1, <1>2, <1>7, <1>8, ResponsesKept

(* What the shim sees of the sink of a call.                                *)
LEMMA SeenAsCalled ==
    ASSUME IInv, SinkInv, NEW t \in Threads, pc[t] = "submitted"
    PROVE  \E call \in Calls :
               /\ CallOf(t, call) /\ CallTyped(call)
               /\ SinkSeen(scratch[t]) = SinkTensorsOf(call.sink)
<1>1. PICK call \in Calls : CallOf(t, call) /\ CallTyped(call)
  BY CallsAssumption DEF SinkInv, HasRequest
<1>2. CASE call.sink = {}
  <2>1. scratch[t] = EmptyScratch
    BY <1>1, <1>2 DEF CallOf
  <2>2. DOMAIN SinkSeen(EmptyScratch) = {} /\ SinkSeen(EmptyScratch) = <<>>
    BY DEF SinkSeen, EmptyScratch
  <2> QED BY <1>1, <1>2, <2>1, <2>2 DEF SinkTensorsOf
<1>3. CASE call.sink # {}
  <2>1. The(call.sink) \in call.sink /\ The(call.sink) \in Seq(SinkTensor)
    BY <1>1, <1>3, OptionIs DEF CallTyped
  <2>2. SinkSeen(scratch[t]) = The(call.sink)
    BY <1>1, <1>3, <2>1, SinkReadBack DEF CallOf
  <2> QED BY <1>1, <1>3, <2>2 DEF SinkTensorsOf
<1> QED BY <1>2, <1>3

(* The answer of the backend to a request that was submitted.               *)
LEMMA ReturnHolds ==
    ASSUME IInv, SinkInv, OutputInv, NEW t \in Threads, Return(t)
    PROVE  OutputInv'
<1>1. pc[t] = "submitted" /\ stage[t] = "none"
  BY DEF Return
<1>2. PICK call \in Calls : /\ CallOf(t, call) /\ CallTyped(call)
                            /\ SinkSeen(scratch[t]) = SinkTensorsOf(call.sink)
  BY <1>1, SeenAsCalled
<1> DEFINE tensors == SinkTensorsOf(call.sink)
<1>3. asked[t] = {WithSink(call)} /\ sink[t] = call.sink
  BY <1>2 DEF CallOf
<1>4. PICK results \in Answers(WithSink(call), call.sink) :
        \/ AwaitError(t, results, tensors)
        \/ ReturnError(t, results, tensors)
        \/ ReturnResponses(t, results, tensors)
  BY <1>2, <1>3 DEF Return
<1>5. IsList(results) /\ \A i \in DOMAIN results : ResultTyped(results[i])
  BY AnswersAssumption
<1>6. UNCHANGED <<pc, asked, sink, scratch, response>>
  BY DEF Return, requestVars
<1>7. /\ ResponseOf(t) /\ response[t] = <<>> /\ SinkReadable(t)
      /\ SinkReadable(t)' = SinkReadable(t)
  BY <1>1, <1>6 DEF OutputInv, ResponseOf, SinkReadable
<1>8. /\ stage = [u \in Threads |-> stage[u]] /\ answer = [u \in Threads |-> answer[u]]
      /\ heap = [u \in Threads |-> heap[u]] /\ outputs = [u \in Threads |-> outputs[u]]
      /\ response = [u \in Threads |-> response[u]] /\ filled = [u \in Threads |-> filled[u]]
  BY DEF OutputInv, OutputsAreFunctions
<1> HIDE DEF tensors
<1>9. CASE AwaitError(t, results, tensors)
  <2>1. /\ heap' = [heap EXCEPT ![t] = Nothing]
        /\ stage' = [stage EXCEPT ![t] = "failed"]
        /\ UNCHANGED <<answer, outputs, filled>>
    BY <1>9 DEF AwaitError
  <2>2. OutputsAreFunctions'
    BY <1>6, <1>8, <2>1 DEF OutputsAreFunctions
  <2>3. stage'[t] = "failed" /\ heap'[t] = Nothing
    BY <1>8, <2>1
  <2>4. DOMAIN heap'[t] = {}
    BY <2>3 DEF Nothing
  <2>5. ResponseOf(t)'
    BY <1>1, <1>6, <1>7, <2>3, <2>4 DEF ResponseOf
  <2> QED BY <1>6, <1>8, <2>1, <2>2, <2>5, ResponsesKept
<1>10. CASE ReturnError(t, results, tensors)
  <2>1. PICK i \in DOMAIN results :
          /\ Throws(results[i], tensors)
          /\ LET m == IF results[i].error THEN 0 ELSE Min(Misfits(results[i], tensors))
             IN  heap' = [heap EXCEPT ![t] = LeftBy(i, m, results, tensors, sink[t] # {})]
    BY <1>10 DEF ReturnError
  <2>2. stage' = [stage EXCEPT ![t] = "failed"] /\ UNCHANGED <<answer, outputs, filled>>
    BY <1>10 DEF ReturnError
  <2> DEFINE m == IF results[i].error THEN 0 ELSE Min(Misfits(results[i], tensors))
  <2>3. m \in Nat
    <3>1. CASE results[i].error
      BY <3>1
    <3>2. CASE ~results[i].error
      <4>1. Misfits(results[i], tensors) # {}
        BY <2>1, <3>2 DEF Throws
      <4>2. IsList(Emitted(results[i], NamesOf(tensors)))
        BY <1>5, OutputsAreLists
      <4>3. Misfits(results[i], tensors) \subseteq Nat
        BY <4>2 DEF Misfits, IsList
      <4> QED BY <3>2, <4>1, <4>3, LeastOf
    <3> QED BY <3>1, <3>2
  <2>4. heap' = [heap EXCEPT ![t] = LeftBy(i, m, results, tensors, sink[t] # {})]
    BY <2>1
  <2> HIDE DEF m
  <2>5. OutputsAreFunctions'
    BY <1>6, <1>8, <2>2, <2>4 DEF OutputsAreFunctions
  <2>6. stage'[t] = "failed" /\ heap'[t] = LeftBy(i, m, results, tensors, sink[t] # {})
    BY <1>8, <2>2, <2>4
  <2>7. \A b \in DOMAIN heap'[t] : Leaked(b)
    BY <1>5, <2>3, <2>6, LeftByLeaks
  <2>8. ResponseOf(t)'
    BY <1>1, <1>6, <1>7, <2>6, <2>7 DEF ResponseOf, Leaked
  <2> QED BY <1>6, <1>8, <2>2, <2>4, <2>5, <2>8, ResponsesKept
<1>11. CASE ReturnResponses(t, results, tensors)
  <2> DEFINE copied == CopiesOf(results, call.sink)
             taken == {[results |-> results, tensors |-> tensors]}
             full == Filling(results, tensors)
             made == HeapOf(results, copied)
  <2>1. /\ \A i \in DOMAIN results : ~Throws(results[i], tensors)
        /\ heap' = [heap EXCEPT ![t] = made]
        /\ outputs' = [outputs EXCEPT ![t] = copied]
        /\ filled' = [filled EXCEPT ![t] = full]
        /\ stage' = [stage EXCEPT ![t] = "returned"]
    BY <1>3, <1>11 DEF ReturnResponses, CopiesOf, tensors
  <2>2. answer' = [answer EXCEPT ![t] = taken]
    BY <1>3, <1>11 DEF ReturnResponses, tensors
  <2> HIDE DEF copied, taken, full, made
  <2>3. OutputsAreFunctions'
    BY <1>6, <1>8, <2>1, <2>2 DEF OutputsAreFunctions
  <2>4. /\ stage'[t] = "returned" /\ heap'[t] = made /\ outputs'[t] = copied
        /\ filled'[t] = full /\ answer'[t] = taken
    BY <1>8, <2>1, <2>2
  <2>5. AnswerOf(t, call, results)'
    BY <2>1, <2>4 DEF AnswerOf, copied, taken, full, made, tensors
  <2>6. call.sink # {} => SinkNamesValid(NamesOf(The(call.sink)))
    BY <1>2, <1>3, <1>7 DEF SinkReadable, SinkTensorsOf
  <2>7. CallOf(t, call)'
    BY <1>2, <1>6 DEF CallOf
  <2>8. AnsweredCall(t, call)'
    BY <2>5, <2>6, <2>7 DEF AnsweredCall, CallOf
  <2>9. ResponseOf(t)'
    BY <1>1, <1>6, <1>7, <2>4, <2>8 DEF ResponseOf
  <2> QED BY <1>6, <1>8, <2>1, <2>2, <2>3, <2>9, ResponsesKept
<1> QED BY <1>4, <1>9, <1>10, <1>11

(* A batch has one first final response.                                    *)
LEMMA FinalIsOne ==
    ASSUME NEW t, NEW call \in Calls, AnsweredCall(t, call),
           NEW i \in FinalIndex(t), NEW j \in FinalIndex(t)
    PROVE  i = j
<1>1. PICK results : AnswerOf(t, call, results)
  BY DEF AnsweredCall
<1>2. IsList(results)
  BY <1>1, AnswersAssumption DEF AnswerOf
<1>3. DOMAIN outputs[t] = DOMAIN results
  BY <1>1 DEF AnswerOf, CopiesOf
<1>4. i \in Nat \ {0} /\ j \in Nat \ {0}
  BY <1>2, <1>3 DEF FinalIndex, IsList
<1>5. i \notin 1 .. j - 1 /\ j \notin 1 .. i - 1
  BY DEF FinalIndex
<1> QED BY <1>4, <1>5

(* The response is made of the first final output, whose lazy tensors are   *)
(* valid.                                                                   *)
LEMMA OpenHolds ==
    ASSUME IInv, SinkInv, OutputInv, NEW t \in Threads, Open(t)
    PROVE  OutputInv'
<1>1. /\ stage[t] = "returned" /\ CanOpen(t)
      /\ stage' = [stage EXCEPT ![t] = "open"]
      /\ UNCHANGED <<pc, asked, sink, scratch, answer, heap, outputs, filled>>
  BY DEF Open, requestVars
<1>2. PICK i \in FinalIndex(t) : response' = [response EXCEPT ![t] = OpenedWith(t, i)]
  BY DEF Open
<1>3. ResponseOf(t) /\ SinkReadable(t)' = SinkReadable(t)
  BY <1>1 DEF OutputInv, SinkReadable
<1>4. PICK call \in Calls : AnsweredCall(t, call)
  BY <1>1, <1>3 DEF ResponseOf
<1>5. /\ stage = [u \in Threads |-> stage[u]] /\ answer = [u \in Threads |-> answer[u]]
      /\ heap = [u \in Threads |-> heap[u]] /\ outputs = [u \in Threads |-> outputs[u]]
      /\ response = [u \in Threads |-> response[u]] /\ filled = [u \in Threads |-> filled[u]]
  BY DEF OutputInv, OutputsAreFunctions
<1>6. OutputsAreFunctions'
  BY <1>1, <1>2, <1>5 DEF OutputsAreFunctions
<1>7. stage'[t] = "open" /\ response'[t] = OpenedWith(t, i)
  BY <1>1, <1>2, <1>5
<1>8. AnsweredCall(t, call)'
  BY <1>1, <1>4 DEF AnsweredCall, AnswerOf, CallOf
<1>9. OpenedOf(t)'
  <2> DEFINE lazies == LazyTensors(outputs[t][i])
  <2>1. \A j \in FinalIndex(t) : j = i
    BY <1>4, FinalIsOne
  <2>2. \A lazy \in ToSet(lazies) : Valid(lazy, heap[t])
    BY <1>1, <2>1 DEF CanOpen
  <2>3. OpenedWith(t, i) = [k \in DOMAIN lazies |-> [lazy |-> lazies[k], cell |-> {}]]
    BY DEF OpenedWith
  <2> HIDE DEF lazies
  <2>4. \A k \in DOMAIN lazies : Valid(lazies[k], heap[t])
    BY <2>2 DEF ToSet
  <2>5. \A k \in DOMAIN lazies : response'[t][k].cell = {}
    BY <1>7, <2>3
  <2>6. response'[t] = [k \in DOMAIN lazies |-> [lazy |-> lazies[k], cell |-> response'[t][k].cell]]
    BY <1>7, <2>3, <2>5
  <2>7. i \in FinalIndex(t)' /\ heap'[t] = heap[t] /\ lazies = LazyTensors(outputs'[t][i])
    BY <1>1 DEF FinalIndex, lazies
  <2>8. \A a \in answer'[t] : AllWritten(a.results, a.tensors)
    BY <1>1 DEF CanOpen
  <2> QED BY <2>4, <2>5, <2>6, <2>7, <2>8 DEF OpenedOf
<1>10. ResponseOf(t)'
  BY <1>1, <1>3, <1>7, <1>8, <1>9 DEF ResponseOf
<1> QED BY <1>1, <1>2, <1>5, <1>6, <1>10, ResponsesKept

(* Nothing of the responses is left when run drops them.                    *)
LEMMA OpenErrorHolds ==
    ASSUME IInv, SinkInv, OutputInv, NEW t \in Threads, OpenError(t)
    PROVE  OutputInv'
<1>1. /\ stage[t] = "returned"
      /\ heap' = [heap EXCEPT ![t] = Freed(t)]
      /\ stage' = [stage EXCEPT ![t] = "failed"]
      /\ UNCHANGED <<pc, asked, sink, scratch, answer, outputs, response, filled>>
  BY DEF OpenError, requestVars
<1>2. ResponseOf(t) /\ SinkReadable(t)' = SinkReadable(t)
  BY <1>1 DEF OutputInv, SinkReadable
<1>3. \E results : heap[t] = HeapOf(results, outputs[t])
  BY <1>1, <1>2 DEF ResponseOf, AnsweredCall, AnswerOf
<1>4. DOMAIN Freed(t) = {}
  BY <1>3, FreedIsNothing
<1>5. /\ stage = [u \in Threads |-> stage[u]] /\ heap = [u \in Threads |-> heap[u]]
  BY DEF OutputInv, OutputsAreFunctions
<1>6. stage'[t] = "failed" /\ heap'[t] = Freed(t)
  BY <1>1, <1>5
<1>7. OutputsAreFunctions'
  BY <1>1, <1>5 DEF OutputInv, OutputsAreFunctions
<1>8. ResponseOf(t)'
  BY <1>1, <1>2, <1>4, <1>6 DEF ResponseOf
<1> QED BY <1>1, <1>5, <1>7, <1>8, ResponsesKept

(* run returns the response or an error.                                    *)
LEMMA ConcludeHolds ==
    ASSUME IInv, SinkInv, OutputInv, NEW t \in Threads, Conclude(t)
    PROVE  OutputInv'
<1>1. /\ pc[t] = "threw" \/ stage[t] \in {"open", "failed"}
      /\ Finish(t)
      /\ stage' = [stage EXCEPT ![t] = IF @ = "open" THEN @ ELSE "none"]
      /\ UNCHANGED <<heap, response>>
      /\ RequestStep(t)
  BY DEF Conclude, RequestStep
<1>2. ResponseOf(t)
  BY DEF OutputInv
<1>3. /\ stage = [u \in Threads |-> stage[u]] /\ answer = [u \in Threads |-> answer[u]]
      /\ heap = [u \in Threads |-> heap[u]] /\ outputs = [u \in Threads |-> outputs[u]]
      /\ response = [u \in Threads |-> response[u]] /\ filled = [u \in Threads |-> filled[u]]
  BY DEF OutputInv, OutputsAreFunctions
<1>4. pc'[t] = "idle"
  BY <1>1 DEF Finish, IInv, RequestTypeOK
<1>5. \A u \in Threads \ {t} : /\ pc'[u] = pc[u] /\ asked'[u] = asked[u]
                                /\ sink'[u] = sink[u] /\ scratch'[u] = scratch[u]
  BY <1>1, OthersAlone
<1>6. CASE stage[t] = "open"
  <2>1. UNCHANGED <<answer, outputs, filled>>
    BY <1>6 DEF Conclude
  <2>2. stage' = stage
    BY <1>1, <1>3, <1>6
  <2>3. OutputsAreFunctions'
    BY <1>1, <1>3, <2>1, <2>2 DEF OutputsAreFunctions
  <2>4. PICK call \in Calls : AnsweredCall(t, call)
    BY <1>2, <1>6 DEF ResponseOf
  <2>8. \A results : AnswerOf(t, call, results)' = AnswerOf(t, call, results)
    BY <1>1, <2>1 DEF AnswerOf
  <2>9. \E results : AnswerOf(t, call, results)'
    BY <2>4, <2>8 DEF AnsweredCall
  <2>10. pc'[t] # "submitted"
    BY <1>4
  <2>5. AnsweredCall(t, call)'
    BY <2>4, <2>9, <2>10 DEF AnsweredCall
  <2>6. OpenedOf(t)'
    <3>1. OpenedOf(t) /\ FinalIndex(t)' = FinalIndex(t)
      BY <1>2, <1>6, <2>1 DEF ResponseOf, FinalIndex
    <3> QED BY <1>1, <2>1, <3>1 DEF OpenedOf
  <2>7. ResponseOf(t)'
    BY <1>4, <1>6, <2>2, <2>5, <2>6 DEF ResponseOf
  <2> QED BY <1>1, <1>5, <2>1, <2>2, <2>3, <2>7, ResponsesKept
<1>7. CASE stage[t] # "open"
  <2>1. /\ answer' = [answer EXCEPT ![t] = {}]
        /\ outputs' = [outputs EXCEPT ![t] = <<>>]
        /\ filled' = [filled EXCEPT ![t] = Nothing]
    BY <1>7 DEF Conclude
  <2>2. stage'[t] = "none" /\ \A u \in Threads \ {t} : stage'[u] = stage[u]
    BY <1>1, <1>3, <1>7
  <2>3. OutputsAreFunctions'
    BY <1>1, <1>3, <2>1 DEF OutputsAreFunctions
  <2>4. stage[t] \in {"none", "failed"}
    BY <1>1, <1>2, <1>7 DEF ResponseOf
  <2>5. ResponseOf(t)'
    BY <1>1, <1>2, <1>4, <1>7, <2>2, <2>4 DEF ResponseOf
  <2> QED BY <1>1, <1>3, <1>5, <2>1, <2>2, <2>3, <2>5, ResponsesKept
<1> QED BY <1>6, <1>7

(* The caller reads a tensor, or drops the response.                        *)
LEMMA ReadHolds ==
    ASSUME IInv, SinkInv, OutputInv, NEW t \in Threads, NEW k \in DOMAIN response[t],
           ReadTensorOf(t, k)
    PROVE  OutputInv'
<1>1. /\ stage[t] = "open"
      /\ response' = [response EXCEPT ![t][k].cell = {Decoded(response[t][k].lazy, heap[t])}]
      /\ UNCHANGED <<pc, asked, sink, scratch, stage, answer, heap, outputs, filled>>
  BY DEF ReadTensorOf, requestVars
<1>2. ResponseOf(t) /\ SinkReadable(t)' = SinkReadable(t) /\ OpenedOf(t)
  BY <1>1 DEF OutputInv, SinkReadable, ResponseOf
<1>3. response = [u \in Threads |-> response[u]]
  BY DEF OutputInv, OutputsAreFunctions
<1>4. OutputsAreFunctions'
  BY <1>1, <1>3 DEF OutputInv, OutputsAreFunctions
<1>5. PICK call \in Calls : AnsweredCall(t, call)
  BY <1>1, <1>2 DEF ResponseOf
<1>6. AnsweredCall(t, call)'
  BY <1>1, <1>5 DEF AnsweredCall, AnswerOf, CallOf
<1>7. OpenedOf(t)'
  <2>1. PICK i \in FinalIndex(t) :
          LET lazies == LazyTensors(outputs[t][i])
          IN  /\ \A j \in DOMAIN lazies :
                     /\ Valid(lazies[j], heap[t])
                     /\ response[t][j].cell \in {{}, {Decoded(lazies[j], heap[t])}}
              /\ response[t] = [j \in DOMAIN lazies |->
                                   [lazy |-> lazies[j], cell |-> response[t][j].cell]]
    BY <1>2 DEF OpenedOf
  <2> DEFINE lazies == LazyTensors(outputs[t][i])
             full == {Decoded(lazies[k], heap[t])}
  <2>2. k \in DOMAIN lazies /\ response[t][k].lazy = lazies[k]
    BY <2>1
  <2>3. \A j \in DOMAIN lazies : /\ Valid(lazies[j], heap[t])
                                 /\ response[t][j].cell \in {{}, {Decoded(lazies[j], heap[t])}}
    BY <2>1
  <2>9. response[t] = [j \in DOMAIN lazies |->
                          [lazy |-> lazies[j], cell |-> response[t][j].cell]]
    BY <2>1
  <2>10. \A j \in DOMAIN lazies : response[t][j] = [lazy |-> lazies[j], cell |-> response[t][j].cell]
    <3> HIDE DEF lazies
    <3> QED BY <2>9
  <2>4. response'[t] = [response[t] EXCEPT ![k].cell = full]
    BY <1>1, <1>3, <2>2
  <2>7. i \in FinalIndex(t)' /\ heap'[t] = heap[t] /\ lazies = LazyTensors(outputs'[t][i])
    BY <1>1 DEF FinalIndex
  <2> HIDE DEF lazies, full
  <2>5. \A j \in DOMAIN lazies :
          response'[t][j].cell = IF j = k THEN full ELSE response[t][j].cell
    BY <2>2, <2>4, <2>9, <2>10
  <2>11. \A j \in DOMAIN lazies : response'[t][j] = [lazy |-> lazies[j], cell |-> response'[t][j].cell]
    BY <2>2, <2>4, <2>9, <2>10
  <2>12. response'[t] = [j \in DOMAIN lazies |-> response'[t][j]]
    BY <2>4, <2>9
  <2>6. response'[t] = [j \in DOMAIN lazies |->
                           [lazy |-> lazies[j], cell |-> response'[t][j].cell]]
    BY <2>11, <2>12
  <2>8. \A j \in DOMAIN lazies :
          response'[t][j].cell \in {{}, {Decoded(lazies[j], heap[t])}}
    <3> SUFFICES ASSUME NEW j \in DOMAIN lazies
                 PROVE  response'[t][j].cell \in {{}, {Decoded(lazies[j], heap[t])}}
      OBVIOUS
    <3>1. CASE j = k
      BY <2>5, <3>1 DEF full
    <3>2. CASE j # k
      BY <2>3, <2>5, <3>2
    <3> QED BY <3>1, <3>2
  <2>13. \A a \in answer'[t] : AllWritten(a.results, a.tensors)
    BY <1>1, <1>2 DEF OpenedOf
  <2> QED BY <2>3, <2>6, <2>7, <2>8, <2>13 DEF OpenedOf
<1>8. ResponseOf(t)'
  BY <1>1, <1>2, <1>6, <1>7 DEF ResponseOf
<1> QED BY <1>1, <1>3, <1>4, <1>8, ResponsesKept

(* Close: what the caller held is freed.                                    *)
LEMMA CloseHolds ==
    ASSUME IInv, SinkInv, OutputInv, NEW t \in Threads, Close(t)
    PROVE  OutputInv'
<1>1. /\ pc[t] = "idle" /\ stage[t] = "open"
      /\ heap' = [heap EXCEPT ![t] = Freed(t)]
      /\ stage' = [stage EXCEPT ![t] = "none"]
      /\ answer' = [answer EXCEPT ![t] = {}]
      /\ outputs' = [outputs EXCEPT ![t] = <<>>]
      /\ response' = [response EXCEPT ![t] = <<>>]
      /\ filled' = [filled EXCEPT ![t] = Nothing]
      /\ UNCHANGED <<pc, asked, sink, scratch>>
  BY DEF Close, requestVars
<1>2. ResponseOf(t)
  BY DEF OutputInv
<1>3. \E results : heap[t] = HeapOf(results, outputs[t])
  BY <1>1, <1>2 DEF ResponseOf, AnsweredCall, AnswerOf
<1>4. DOMAIN Freed(t) = {}
  BY <1>3, FreedIsNothing
<1>5. /\ stage = [u \in Threads |-> stage[u]] /\ answer = [u \in Threads |-> answer[u]]
      /\ heap = [u \in Threads |-> heap[u]] /\ outputs = [u \in Threads |-> outputs[u]]
      /\ response = [u \in Threads |-> response[u]] /\ filled = [u \in Threads |-> filled[u]]
  BY DEF OutputInv, OutputsAreFunctions
<1>6. stage'[t] = "none" /\ heap'[t] = Freed(t) /\ response'[t] = <<>>
  BY <1>1, <1>5
<1>7. OutputsAreFunctions'
  BY <1>1, <1>5 DEF OutputsAreFunctions
<1>8. ResponseOf(t)'
  BY <1>1, <1>2, <1>4, <1>6 DEF ResponseOf
<1> QED BY <1>1, <1>5, <1>7, <1>8, ResponsesKept

(* A step that is none of this leaves responses alone.                      *)
LEMMA ResponsesAlone ==
    ASSUME OutputInv, UNCHANGED <<pc, asked, sink, scratch>>, UNCHANGED outputVars
    PROVE  OutputInv'
<1>1. UNCHANGED <<stage, answer, heap, outputs, response, filled>>
  BY DEF outputVars
<1>2. OutputsAreFunctions'
  BY <1>1 DEF OutputInv, OutputsAreFunctions
<1>3. ASSUME NEW t \in Threads PROVE ResponseOf(t)'
  <2>1. ResponseOf(t)
    BY DEF OutputInv
  <2> QED BY <1>1, <2>1, ResponseKept
<1>4. \A t \in Threads : ResponseOf(t)'
  BY <1>3
<1> QED BY <1>2, <1>4 DEF OutputInv

(* What the responses of an executor are, at every moment.                  *)
THEOREM ResponsesInvariant == ExecutorSpec => [](IInv /\ SinkInv /\ OutputInv)
<1>1. ExecutorSpec => RequestSpec
  <2>1. ExecutorInit => RequestInit
    BY DEF ExecutorInit
  <2>2. [ExecutorNext]_executorVars => [RequestNext]_requestVars
    <3> SUFFICES ASSUME [ExecutorNext]_executorVars PROVE [RequestNext]_requestVars
      OBVIOUS
    <3>1. CASE DropExecutor
      BY <3>1 DEF DropExecutor, RequestNext
    <3>2. ASSUME NEW t \in Threads, RunStep(t) PROVE [RequestNext]_requestVars
      <4>1. CASE Prepares(t)
        BY <4>1 DEF Prepares, RequestNext, RequestStep
      <4>2. CASE Conclude(t)
        BY <4>2 DEF Conclude, RequestNext, RequestStep
      <4>3. CASE Return(t) \/ Open(t) \/ OpenError(t)
        BY <4>3 DEF Return, Open, OpenError
      <4> QED BY <3>2, <4>1, <4>2, <4>3 DEF RunStep
    <3>3. ASSUME NEW t \in Threads, ResponseStep(t) PROVE [RequestNext]_requestVars
      BY <3>3 DEF ResponseStep, Close, ReadTensorOf
    <3>4. CASE UNCHANGED executorVars
      BY <3>4 DEF executorVars
    <3> QED BY <3>1, <3>2, <3>3, <3>4 DEF ExecutorNext
  <2> QED BY <2>1, <2>2, PTL DEF ExecutorSpec, RequestSpec
<1>2. ExecutorInit => OutputInv
  BY DEF ExecutorInit, RequestInit, OutputInv, OutputsAreFunctions, ResponseOf, Nothing
<1>3. IInv /\ SinkInv /\ OutputInv /\ [ExecutorNext]_executorVars => OutputInv'
  <2> SUFFICES ASSUME IInv, SinkInv, OutputInv, [ExecutorNext]_executorVars PROVE OutputInv'
    OBVIOUS
  <2>1. ASSUME NEW t \in Threads, RunStep(t) PROVE OutputInv'
    BY <2>1, PreparesHolds, ReturnHolds, OpenHolds, OpenErrorHolds, ConcludeHolds DEF RunStep
  <2>2. ASSUME NEW t \in Threads, ResponseStep(t) PROVE OutputInv'
    BY <2>2, CloseHolds, ReadHolds DEF ResponseStep
  <2>3. CASE DropExecutor
    BY <2>3, ResponsesAlone DEF DropExecutor, DropPools
  <2>4. CASE UNCHANGED executorVars
    BY <2>4, ResponsesAlone DEF executorVars, requestVars
  <2> QED BY <2>1, <2>2, <2>3, <2>4 DEF ExecutorNext
<1> QED BY <1>1, <1>2, <1>3, SinksInvariant, PTL DEF ExecutorSpec

(* A call that is over leaves no memory of the shim allocated, but for the  *)
(* additional outputs copied before one that threw: responses_free counts   *)
(* them only once all are copied.                                           *)
THEOREM OnlyAdditionalLeak == SetupSpec => []OnlyNamedTensorsLeak
<1>1. IInv /\ SinkInv /\ OutputInv => OnlyNamedTensorsLeak
  BY DEF OutputInv, ResponseOf, Leaked, OnlyNamedTensorsLeak
<1> QED BY <1>1, ResponsesInvariant, SetupCalls, PTL

-----------------------------------------------------------------------------
(* The tensors of a response, as its lazy tensors and as its outputs.       *)

(* A function of the positions of a list is a list.                         *)
LEMMA IndexedIsList ==
    ASSUME NEW n \in Nat, NEW g, g = [k \in 1 .. n |-> g[k]]
    PROVE  IsList(g) /\ DOMAIN g = 1 .. n
<1> DEFINE S == {g[k] : k \in DOMAIN g}
<1>1. DOMAIN g = 1 .. n
  OBVIOUS
<1>2. \A k \in 1 .. n : g[k] \in S
  BY <1>1
<1>3. g \in Seq(S)
  <2> HIDE DEF S
  <2> QED BY <1>2
<1> QED BY <1>1, <1>3 DEF IsList

(* The domain of a list.                                                    *)
LEMMA IsListDomain ==
    ASSUME NEW list, IsList(list)
    PROVE  Len(list) \in Nat /\ DOMAIN list = 1 .. Len(list)
BY DEF IsList

(* The tensors that are made of a list.                                     *)
DataTensor(l) ==
    [kind |-> "raw", name |-> <<l.name>>, code |-> ListCode[l.name], data |-> l.data,
     bytes |-> l.count * CodeSize(ListCode[l.name]), shape |-> <<l.count>>,
     sequences |-> 0, count |-> l.count]

(* And those that are made of its offsets.                                  *)
OffsetTensor(l, n) ==
    [kind |-> "offsets", name |-> <<n>>, code |-> 4, data |-> l.offsets,
     bytes |-> 0, shape |-> <<l.sequences + 1>>,
     sequences |-> l.sequences, count |-> l.count]

(* Of a list are made its data tensor and its offsets tensors.              *)
LEMMA TensorsOfList ==
    ASSUME NEW l, l.name \in ToSet(ListNames)
    PROVE  /\ IsList(ListTensors(l))
           /\ \A x : x \in ToSet(ListTensors(l)) <=>
                  x = DataTensor(l) \/ \E n \in OffsetNames[l.name] : x = OffsetTensor(l, n)
<1> DEFINE option == {OffsetTensor(l, n) : n \in OffsetNames[l.name]}
           first == <<DataTensor(l)>>
           rest == SetToSeq(option)
<1>1. ListTensors(l) = first \o rest
  BY DEF ListTensors, DataTensor, OffsetTensor
<1>2. \A m, n \in OffsetNames[l.name] : m = n
  BY DEF OffsetNames, ListNames, ToSet
<1>3. IsOption(option)
  BY <1>2 DEF IsOption
<1>4. /\ option = {} => SetToSeq(option) = <<>>
      /\ \A e \in option : SetToSeq(option) = <<e>>
  <2> HIDE DEF option
  <2> QED BY <1>3, OptionAsList
<1>5. \A x : IsList(<<x>>) /\ ToSet(<<x>>) = {x}
  <2> SUFFICES ASSUME NEW x PROVE IsList(<<x>>) /\ ToSet(<<x>>) = {x}
    OBVIOUS
  <2> DEFINE E == {x}
  <2>1. x \in E
    OBVIOUS
  <2> HIDE DEF E
  <2>2. <<x>> \in Seq(E)
    BY <2>1
  <2>3. ToSet(<<x>>) = {x}
    BY DEF ToSet
  <2> QED BY <2>2, <2>3, ListOver
<1>6. IsList(<<>>) /\ ToSet(<<>>) = {}
  <2>1. <<>> \in Seq({})
    OBVIOUS
  <2>2. IsList(<<>>)
    BY <2>1, ListOver
  <2>3. ToSet(<<>>) = {}
    BY DEF ToSet
  <2> QED BY <2>2, <2>3
<1>7. IsList(rest) /\ ToSet(rest) = option
  <2> HIDE DEF option
  <2>1. CASE option = {}
    BY <1>4, <1>6, <2>1
  <2>2. ASSUME NEW e \in option PROVE IsList(rest) /\ ToSet(rest) = option
    <3>1. option = {e}
      BY <1>3 DEF IsOption
    <3>2. rest = <<e>>
      BY <1>4
    <3> QED BY <1>5, <3>1, <3>2
  <2> QED BY <2>1, <2>2
<1>8. IsList(first) /\ ToSet(first) = {DataTensor(l)}
  BY <1>5
<1> HIDE DEF first, rest
<1>9. IsList(first \o rest) /\ ToSet(first \o rest) = ToSet(first) \cup ToSet(rest)
  BY <1>7, <1>8, ListsJoined
<1> HIDE DEF option
<1>10. \A x : x \in ToSet(ListTensors(l)) <=> x = DataTensor(l) \/ x \in option
  BY <1>1, <1>7, <1>8, <1>9
<1> QED BY <1>1, <1>9, <1>10 DEF option

(* The elements of lists that are joined.                                   *)
LEMMA JoinedElements ==
    ASSUME NEW S, NEW seqs \in Seq(Seq(S)), NEW n, n = Len(seqs)
    PROVE  /\ IsList(FlattenSeq(seqs))
           /\ \A x : x \in ToSet(FlattenSeq(seqs)) <=> \E m \in 1 .. n : x \in ToSet(seqs[m])
<1> DEFINE list == FlattenSeq(seqs)
<1>1. n \in Nat /\ \A m \in 1 .. n : seqs[m] \in Seq(S)
  <2> DEFINE Q == Seq(S)
  <2>1. seqs \in Seq(Q)
    OBVIOUS
  <2> HIDE DEF Q
  <2>2. n \in Nat /\ \A m \in 1 .. n : seqs[m] \in Q
    BY <2>1
  <2> QED BY <2>2 DEF Q
<1>2. \A m \in 1 .. n : DOMAIN seqs[m] = 1 .. Len(seqs[m])
  BY <1>1
<1>3. list \in Seq(S)
  BY EndsOfParts
<1>4. IsList(list) /\ DOMAIN list = 1 .. Len(list)
  BY <1>3, ListOver
<1>5. ASSUME NEW j \in 1 .. Len(list) PROVE \E m \in 1 .. n : list[j] \in ToSet(seqs[m])
  <2>1. PICK k \in Nat : \E m \in 1 .. n :
               /\ m = k + 1
               /\ End(seqs, k) < j /\ j <= End(seqs, m)
               /\ j - End(seqs, k) \in 1 .. Len(Nth(seqs, m))
               /\ FlattenSeq(seqs)[j] = Nth(seqs, m)[j - End(seqs, k)]
    BY FlattenPlaces DEF InPart
  <2>2. PICK m \in 1 .. n : \E i \in 1 .. Len(seqs[m]) : list[j] = seqs[m][i]
    BY <2>1 DEF Nth
  <2> HIDE DEF list
  <2> QED BY <1>2, <2>2 DEF ToSet
<1>6. ASSUME NEW m \in 1 .. n, NEW i \in DOMAIN seqs[m]
      PROVE  \E j \in 1 .. Len(list) : list[j] = seqs[m][i]
  <2> DEFINE y == m - 1
  <2>1. y \in Nat /\ m = y + 1 /\ m <= n
    BY <1>1
  <2> HIDE DEF y
  <2>2. i \in 1 .. Len(Nth(seqs, m))
    BY <1>2 DEF Nth
  <2>3. /\ End(seqs, y) + i \in 1 .. Len(FlattenSeq(seqs))
        /\ FlattenSeq(seqs)[End(seqs, y) + i] = Nth(seqs, m)[i]
    BY <2>1, <2>2, PlaceOfElement
  <2> QED BY <2>3 DEF Nth
<1> HIDE DEF list
<1>7. \A x : x \in ToSet(list) => \E m \in 1 .. n : x \in ToSet(seqs[m])
  BY <1>4, <1>5 DEF ToSet
<1>8. \A x : (\E m \in 1 .. n : x \in ToSet(seqs[m])) => x \in ToSet(list)
  BY <1>4, <1>6 DEF ToSet
<1> QED BY <1>4, <1>7, <1>8 DEF list

(* The lazy tensors of an output.                                           *)
LEMMA LazyElements ==
    ASSUME NEW output, IsList(output.lists), IsList(output.logits), IsList(output.named),
           \A l \in ToSet(output.lists) : l.name \in ToSet(ListNames)
    PROVE  /\ IsList(LazyTensors(output))
           /\ \A x : x \in ToSet(LazyTensors(output)) <=>
                  \/ \E l \in ToSet(output.lists) : l.count > 0 /\ x \in ToSet(ListTensors(l))
                  \/ \E o \in ToSet(output.logits) : x = OwnedTensor(o, o.name)
                  \/ \E o \in ToSet(output.named) : x = OwnedTensor(o, Exposed(o.name))
<1> DEFINE lists == Selected(output.lists, {l \in ToSet(output.lists) : l.count > 0})
           seqs == [k \in DOMAIN lists |-> ListTensors(lists[k])]
           logits == [k \in DOMAIN output.logits |->
                         OwnedTensor(output.logits[k], output.logits[k].name)]
           named == [k \in DOMAIN output.named |->
                        OwnedTensor(output.named[k], Exposed(output.named[k].name))]
           n == Len(lists)
<1>1. LazyTensors(output) = FlattenSeq(seqs) \o logits \o named
  BY DEF LazyTensors
<1>2. /\ IsList(lists)
      /\ \A l : l \in ToSet(lists) <=> l \in ToSet(output.lists) /\ l.count > 0
  BY SelectedElements
<1> HIDE DEF lists
<1>3. n \in Nat /\ DOMAIN lists = 1 .. n
  BY <1>2, IsListDomain
<1> HIDE DEF n
<1>4. ASSUME NEW k \in 1 .. n
      PROVE  IsList(seqs[k]) /\ seqs[k] = ListTensors(lists[k])
  <2>1. lists[k] \in ToSet(lists)
    BY <1>3 DEF ToSet
  <2>2. lists[k].name \in ToSet(ListNames)
    BY <1>2, <2>1
  <2> QED BY <1>3, <2>2, TensorsOfList
<1>5. seqs = [k \in 1 .. n |-> seqs[k]]
  BY <1>3
<1>6. \A l : l \in ToSet(lists) <=> \E k \in 1 .. n : l = lists[k]
  BY <1>3 DEF ToSet
<1> HIDE DEF seqs
<1>7. /\ IsList(FlattenSeq(seqs))
      /\ \A x : x \in ToSet(FlattenSeq(seqs)) <=> \E m \in 1 .. n : x \in ToSet(seqs[m])
  <2>1. n = Len(seqs) /\ \E S : seqs \in Seq(Seq(S))
    BY <1>3, <1>4, <1>5, PartsOver
  <2>2. PICK S : seqs \in Seq(Seq(S))
    BY <2>1
  <2> QED BY <2>1, <2>2, JoinedElements
<1>8. \A x : x \in ToSet(FlattenSeq(seqs)) <=>
               \E l \in ToSet(output.lists) : l.count > 0 /\ x \in ToSet(ListTensors(l))
  BY <1>2, <1>4, <1>6, <1>7
<1>9. /\ IsList(logits)
      /\ \A x : x \in ToSet(logits) <=> \E o \in ToSet(output.logits) : x = OwnedTensor(o, o.name)
  <2>1. Len(output.logits) \in Nat /\ DOMAIN output.logits = 1 .. Len(output.logits)
    BY IsListDomain
  <2>2. IsList(logits)
    <3>1. logits = [k \in 1 .. Len(output.logits) |-> logits[k]]
      BY <2>1
    <3> HIDE DEF logits
    <3> QED BY <2>1, <3>1, IndexedIsList
  <2>3. \A x : x \in ToSet(logits) <=> \E o \in ToSet(output.logits) : x = OwnedTensor(o, o.name)
    BY DEF ToSet
  <2> QED BY <2>2, <2>3
<1>10. /\ IsList(named)
       /\ \A x : x \in ToSet(named) <=>
                   \E o \in ToSet(output.named) : x = OwnedTensor(o, Exposed(o.name))
  <2>1. Len(output.named) \in Nat /\ DOMAIN output.named = 1 .. Len(output.named)
    BY IsListDomain
  <2>2. IsList(named)
    <3>1. named = [k \in 1 .. Len(output.named) |-> named[k]]
      BY <2>1
    <3> HIDE DEF named
    <3> QED BY <2>1, <3>1, IndexedIsList
  <2>3. \A x : x \in ToSet(named) <=>
                 \E o \in ToSet(output.named) : x = OwnedTensor(o, Exposed(o.name))
    BY DEF ToSet
  <2> QED BY <2>2, <2>3
<1> HIDE DEF logits, named
<1> DEFINE first == FlattenSeq(seqs)
<1> HIDE DEF first
<1>11. IsList(first \o logits) /\ ToSet(first \o logits) = ToSet(first) \cup ToSet(logits)
  BY <1>7, <1>9, ListsJoined DEF first
<1>12. /\ IsList(first \o logits \o named)
       /\ ToSet(first \o logits \o named) = ToSet(first \o logits) \cup ToSet(named)
  BY <1>10, <1>11, ListsJoined
<1>13. LazyTensors(output) = first \o logits \o named
  BY <1>1 DEF first
<1>14. \A x : x \in ToSet(LazyTensors(output)) <=>
                x \in ToSet(first) \/ x \in ToSet(logits) \/ x \in ToSet(named)
  BY <1>11, <1>12, <1>13
<1> QED BY <1>8, <1>9, <1>10, <1>12, <1>13, <1>14 DEF first

(* How many elements lists have.                                            *)
LEMMA TotalIsNumber ==
    ASSUME NEW lists, lists \in Seq(Seq(Int)) PROVE Total(lists) \in Nat
<1>1. FlattenSeq(lists) \in Seq(Int)
  BY EndsOfParts
<1> QED BY <1>1 DEF Total

(* The bytes of an element of the types of TensorRT-LLM.                    *)
LEMMA CodeSizes ==
    \A code \in 0 .. 9 : CodeSize(code) \in {1, 2, 4, 8}
BY DEF CodeSize, CodeBytes

(* The outputs of a response that is copied to the end.                     *)
IsCopy(output, i, result, names, deferred) ==
    /\ IsList(output.lists) /\ IsList(output.named) /\ IsList(output.logits)
    /\ \A l : l \in ToSet(output.lists) <=>
           \E n \in ToSet(ListNames) :
               result.lists[n] # <<>> /\ l = ListOutput(i, n, result.lists[n], deferred)
    /\ \A x : x \in ToSet(output.named) <=>
           \E o \in ToSet(Kept(Additional(result, names), names)) :
               x = TensorOutput(i, o.name, o.tensor)
    /\ \A x : x \in ToSet(output.logits) <=>
           \E o \in ToSet(Kept(Logits(result), names)) :
               x = TensorOutput(i, o.name, o.tensor)

(* What Copied makes of a result that throws nowhere.                       *)
LEMMA CopiedElements ==
    ASSUME NEW result, ResultTyped(result), NEW i, NEW names, NEW deferred,
           NEW output,
           output = Copied(i, result, names, deferred, Len(Emitted(result, names)) + 1)
    PROVE  IsCopy(output, i, result, names, deferred)
<1> DEFINE present == Selected(ListNames, {n \in ToSet(ListNames) : result.lists[n] # <<>>})
           additional == Additional(result, names)
           logits == Logits(result)
           keptNamed == Kept(additional, names)
           keptLogits == Kept(logits, names)
           m == Len(Emitted(result, names)) + 1
<1>1. IsList(additional) /\ IsList(logits)
  BY OutputsAreLists
<1>2. /\ Len(additional) \in Nat /\ Len(logits) \in Nat
      /\ Len(Emitted(result, names)) = Len(additional) + Len(logits)
  <2>1. /\ DOMAIN (additional \o logits) = 1 .. Len(additional) + Len(logits)
        /\ Len(additional) \in Nat /\ Len(logits) \in Nat
        /\ IsList(additional \o logits)
    BY <1>1, ListsJoined
  <2>2. Emitted(result, names) = additional \o logits
    BY DEF Emitted
  <2> HIDE DEF additional, logits
  <2>3. Len(additional \o logits) \in Nat
        /\ DOMAIN (additional \o logits) = 1 .. Len(additional \o logits)
    BY <2>1, IsListDomain
  <2>4. Len(additional \o logits) = Len(additional) + Len(logits)
    <3> DEFINE a == Len(additional \o logits)
               b == Len(additional) + Len(logits)
    <3>1. a \in Nat /\ b \in Nat /\ 1 .. a = 1 .. b
      BY <2>1, <2>3
    <3> HIDE DEF a, b
    <3>2. a = b
      BY <3>1
    <3> QED BY <3>2 DEF a, b
  <2> QED BY <2>1, <2>2, <2>4
<1>3. IsList(ListNames)
  <2> DEFINE g == ListNames
  <2>1. g = [k \in 1 .. 3 |-> g[k]]
    BY DEF ListNames
  <2> HIDE DEF g
  <2>2. 3 \in Nat
    OBVIOUS
  <2> DEFINE n == 3
  <2>3. n \in Nat /\ g = [k \in 1 .. n |-> g[k]]
    BY <2>1
  <2> HIDE DEF n
  <2>4. IsList(g)
    BY <2>3, IndexedIsList
  <2> QED BY <2>4 DEF g
<1>4. /\ IsList(present)
      /\ \A n : n \in ToSet(present) <=> n \in ToSet(ListNames) /\ result.lists[n] # <<>>
  BY <1>3, SelectedElements
<1>5. IsList(keptNamed) /\ IsList(keptLogits)
  BY <1>1, SelectedElements DEF Kept
<1>6. ~(m <= Len(additional)) /\ m - 1 - Len(additional) = Len(logits)
  BY <1>2
<1>7. SubSeq(logits, 1, Len(logits)) = logits
  <2> DEFINE S == {logits[k] : k \in DOMAIN logits}
  <2>1. logits \in Seq(S)
    BY <1>1 DEF IsList
  <2> HIDE DEF S, logits
  <2> QED BY <2>1, WholeList
<1>8. /\ output.lists = [k \in DOMAIN present |->
                            ListOutput(i, present[k], result.lists[present[k]], deferred)]
      /\ output.named = [k \in DOMAIN keptNamed |->
                            TensorOutput(i, keptNamed[k].name, keptNamed[k].tensor)]
      /\ output.logits = [k \in DOMAIN keptLogits |->
                             TensorOutput(i, keptLogits[k].name, keptLogits[k].tensor)]
  <2> HIDE DEF m, present
  <2>1. /\ output.lists = [k \in DOMAIN present |->
                            ListOutput(i, present[k], result.lists[present[k]], deferred)]
    BY DEF Copied, m, present
  <2>2. output.named = [k \in DOMAIN keptNamed |->
                            TensorOutput(i, keptNamed[k].name, keptNamed[k].tensor)]
    BY <1>6 DEF Copied, m
  <2>3. SubSeq(logits, 1, m - 1 - Len(additional)) = logits
    BY <1>6, <1>7
  <2>4. output.logits = [k \in DOMAIN keptLogits |->
                             TensorOutput(i, keptLogits[k].name, keptLogits[k].tensor)]
    BY <2>3 DEF Copied, m
  <2> QED BY <2>1, <2>2, <2>4
<1> HIDE DEF present, keptNamed, keptLogits, additional, logits, m
<1>9. /\ Len(present) \in Nat /\ DOMAIN present = 1 .. Len(present)
      /\ Len(keptNamed) \in Nat /\ DOMAIN keptNamed = 1 .. Len(keptNamed)
      /\ Len(keptLogits) \in Nat /\ DOMAIN keptLogits = 1 .. Len(keptLogits)
  BY <1>4, <1>5, IsListDomain
<1>10. IsList(output.lists) /\ IsList(output.named) /\ IsList(output.logits)
  <2>1. output.lists = [k \in 1 .. Len(present) |-> output.lists[k]]
    BY <1>8, <1>9
  <2>2. output.named = [k \in 1 .. Len(keptNamed) |-> output.named[k]]
    BY <1>8, <1>9
  <2>3. output.logits = [k \in 1 .. Len(keptLogits) |-> output.logits[k]]
    BY <1>8, <1>9
  <2>4. IsList(output.lists)
    BY <1>9, <2>1, IndexedIsList
  <2>5. IsList(output.named)
    BY <1>9, <2>2, IndexedIsList
  <2>6. IsList(output.logits)
    BY <1>9, <2>3, IndexedIsList
  <2> QED BY <2>4, <2>5, <2>6
<1>11. \A l : l \in ToSet(output.lists) <=>
               \E n \in ToSet(present) : l = ListOutput(i, n, result.lists[n], deferred)
  BY <1>8 DEF ToSet
<1>12. \A x : x \in ToSet(output.named) <=>
               \E o \in ToSet(keptNamed) : x = TensorOutput(i, o.name, o.tensor)
  BY <1>8 DEF ToSet
<1>13. \A x : x \in ToSet(output.logits) <=>
               \E o \in ToSet(keptLogits) : x = TensorOutput(i, o.name, o.tensor)
  BY <1>8 DEF ToSet
<1>14. \A l : l \in ToSet(output.lists) <=>
                 \E n \in ToSet(ListNames) :
                     result.lists[n] # <<>> /\ l = ListOutput(i, n, result.lists[n], deferred)
  BY <1>4, <1>11
<1> QED BY <1>10, <1>12, <1>13, <1>14 DEF keptNamed, keptLogits, additional, logits, IsCopy

(* The tensors of the backend that a result emits.                          *)
LEMMA EmittedTyped ==
    ASSUME NEW result, ResultTyped(result), NEW names
    PROVE  /\ \A o \in ToSet(Additional(result, names)) : BackendTensor(o.tensor)
           /\ \A o \in ToSet(Logits(result)) :
                  BackendTensor(o.tensor) /\ o.name \in ToSet(LogitNames)
<1>1. \A o \in ToSet(Additional(result, names)) : BackendTensor(o.tensor)
  BY OutputsAreLists DEF ResultTyped
<1>2. ASSUME NEW o \in ToSet(Logits(result))
      PROVE  BackendTensor(o.tensor) /\ o.name \in ToSet(LogitNames)
  <2>1. PICK k \in 1 .. 3 : LogitOf(result, k, o)
    BY LogitsInOrder DEF ToSet
  <2>2. LogitNames[k] \in ToSet(LogitNames)
    BY DEF LogitNames, ToSet
  <2> QED BY <2>1, <2>2 DEF LogitOf, ResultTyped
<1> QED BY <1>1, <1>2

(* The bytes of a lazy tensor are those of its shape.                       *)
LEMMA LazyBytes ==
    ASSUME NEW result, ResultTyped(result), NEW i, NEW names, NEW deferred,
           NEW output,
           output = Copied(i, result, names, deferred, Len(Emitted(result, names)) + 1),
           NEW lazy \in ToSet(LazyTensors(output)), lazy.kind = "raw"
    PROVE  lazy.bytes \in Int
<1>1. /\ IsList(output.lists) /\ IsList(output.named) /\ IsList(output.logits)
      /\ \A l : l \in ToSet(output.lists) <=>
             \E n \in ToSet(ListNames) :
                 result.lists[n] # <<>> /\ l = ListOutput(i, n, result.lists[n], deferred)
      /\ \A x : x \in ToSet(output.named) <=>
             \E o \in ToSet(Kept(Additional(result, names), names)) :
                 x = TensorOutput(i, o.name, o.tensor)
      /\ \A x : x \in ToSet(output.logits) <=>
             \E o \in ToSet(Kept(Logits(result), names)) :
                 x = TensorOutput(i, o.name, o.tensor)
  <2>1. IsCopy(output, i, result, names, deferred)
    BY CopiedElements
  <2> QED BY <2>1 DEF IsCopy
<1>2. \A n, lists : ListOutput(i, n, lists, deferred).name = n
  BY DEF ListOutput
<1>3. \A l \in ToSet(output.lists) : l.name \in ToSet(ListNames)
  BY <1>1, <1>2
<1>4. \/ \E l \in ToSet(output.lists) : l.count > 0 /\ lazy \in ToSet(ListTensors(l))
      \/ \E o \in ToSet(output.logits) : lazy = OwnedTensor(o, o.name)
      \/ \E o \in ToSet(output.named) : lazy = OwnedTensor(o, Exposed(o.name))
  BY <1>1, <1>3, LazyElements
<1>5. ASSUME NEW l \in ToSet(output.lists), lazy \in ToSet(ListTensors(l))
      PROVE  lazy.bytes \in Int
  <2>1. PICK n \in ToSet(ListNames) : l = ListOutput(i, n, result.lists[n], deferred)
    BY <1>1
  <2>2. l.count = Total(result.lists[n]) /\ l.name = n
    BY <2>1 DEF ListOutput
  <2>3. l.count \in Nat
    BY <2>2, TotalIsNumber DEF ResultTyped
  <2>4. lazy = DataTensor(l)
    <3>1. \A m : OffsetTensor(l, m).kind = "offsets"
      BY DEF OffsetTensor
    <3> QED BY <1>5, <2>2, <3>1, TensorsOfList
  <2>5. ListCode[n] \in {3, 8}
    BY DEF ListCode, ListNames, ToSet
  <2>6. CodeSize(ListCode[n]) \in Nat
    BY <2>5, CodeSizes
  <2>7. lazy.bytes = l.count * CodeSize(ListCode[n])
    BY <2>2, <2>4 DEF DataTensor
  <2> HIDE DEF LogitNames
  <2> QED BY <2>3, <2>6, <2>7
<1>6. ASSUME NEW o, BackendTensor(o.tensor)
      PROVE  TensorOutput(i, o.name, o.tensor).bytes \in Int
  <2> DEFINE d == o.tensor.dims
             c == o.tensor.code
  <2>3. d \in Seq(Nat) /\ c \in 0 .. 9
    BY <1>6 DEF BackendTensor
  <2> HIDE DEF d, c
  <2>4. d \in Seq(Int)
    BY <2>3
  <2>5. Product(d) \in Int
    BY <2>4, ProductOfNumbers
  <2>6. CodeSize(c) \in {1, 2, 4, 8}
    BY <2>3, CodeSizes
  <2>1. Product(o.tensor.dims) \in Int /\ CodeSize(o.tensor.code) \in Int
    BY <2>5, <2>6 DEF d, c
  <2>2. TensorOutput(i, o.name, o.tensor).bytes = Product(o.tensor.dims) * CodeSize(o.tensor.code)
    BY DEF TensorOutput
  <2> QED BY <2>1, <2>2
<1>7. \A o, name : OwnedTensor(o, name).bytes = o.bytes
  BY DEF OwnedTensor
<1>8. /\ \A o \in ToSet(Kept(Additional(result, names), names)) : BackendTensor(o.tensor)
      /\ \A o \in ToSet(Kept(Logits(result), names)) : BackendTensor(o.tensor)
  <2>1. IsList(Additional(result, names)) /\ IsList(Logits(result))
    BY OutputsAreLists
  <2>2. \A o \in ToSet(Kept(Additional(result, names), names)) : o \in ToSet(Additional(result, names))
    BY <2>1, SelectedElements DEF Kept
  <2>3. \A o \in ToSet(Kept(Logits(result), names)) : o \in ToSet(Logits(result))
    BY <2>1, SelectedElements DEF Kept
  <2> QED BY <2>2, <2>3, EmittedTyped
<1> QED BY <1>1, <1>4, <1>5, <1>6, <1>7, <1>8

(* What was valid when the response was made can be read.                   *)
LEMMA ValidIsExpected ==
    ASSUME NEW lazy, NEW memoryOf, Valid(lazy, memoryOf), lazy.kind = "raw" => lazy.bytes \in Int
    PROVE  Expected(lazy)
<1> SUFFICES ASSUME lazy.kind = "raw"
             PROVE  lazy.code \in CandleCodes
                    /\ lazy.bytes = Product(lazy.shape) * CodeSize(lazy.code)
  BY DEF Expected
<1> DEFINE b == lazy.bytes
           s == CodeSize(lazy.code)
           p == Product(lazy.shape)
<1>1. lazy.code \in KnownCodes /\ b % s = 0 /\ b \div s = p
  BY DEF Valid
<1>2. b \in Int /\ s \in {1, 2, 4, 8}
  <2>1. lazy.code \in 0 .. 9
    BY <1>1 DEF KnownCodes
  <2> QED BY <2>1, CodeSizes
<1> HIDE DEF b, s, p
<1>3. b = p * s
  BY <1>1, <1>2
<1> QED BY <1>1, <1>3 DEF KnownCodes, CandleCodes, b, s, p

(* A tensor of a response can be read whenever it is: to_tensor never       *)
(* panics on what from_sys accepted.                                        *)
THEOREM ReadingNeverPanics == SetupSpec => []ReadsNeverPanic
<1>1. IInv /\ SinkInv /\ OutputInv => ReadsNeverPanic
  <2> SUFFICES ASSUME OutputInv, NEW t \in Threads, NEW k \in DOMAIN response[t]
               PROVE  Expected(response[t][k].lazy)
    BY DEF ReadsNeverPanic
  <2>1. ResponseOf(t)
    BY DEF OutputInv
  <2>2. stage[t] = "open"
    <3>1. CASE response[t] = <<>>
      BY <3>1
    <3> QED BY <2>1, <3>1 DEF ResponseOf
  <2>3. OpenedOf(t) /\ \E call \in Calls : AnsweredCall(t, call)
    BY <2>1, <2>2 DEF ResponseOf
  <2>4a. PICK call \in Calls : \E results : AnswerOf(t, call, results)
    BY <2>3 DEF AnsweredCall
  <2>4. PICK results : AnswerOf(t, call, results)
    BY <2>4a
  <2>5. PICK i \in FinalIndex(t) :
          LET lazies == LazyTensors(outputs[t][i])
          IN  /\ \A j \in DOMAIN lazies : Valid(lazies[j], heap[t])
              /\ response[t] = [j \in DOMAIN lazies |->
                                   [lazy |-> lazies[j], cell |-> response[t][j].cell]]
    BY <2>3 DEF OpenedOf
  <2> DEFINE lazies == LazyTensors(outputs[t][i])
  <2>6. /\ k \in DOMAIN lazies /\ response[t][k].lazy = lazies[k]
        /\ Valid(lazies[k], heap[t]) /\ lazies[k] \in ToSet(lazies)
    BY <2>5 DEF ToSet
  <2>7. /\ i \in DOMAIN results
        /\ outputs[t] = CopiesOf(results, call.sink)
        /\ ResultTyped(results[i])
    BY <2>4, AnswersAssumption DEF AnswerOf, CopiesOf, FinalIndex
  <2> DEFINE names == NamesOf(SinkTensorsOf(call.sink))
  <2>8. outputs[t][i] = Copied(i, results[i], names, call.sink # {},
                               Len(Emitted(results[i], names)) + 1)
    BY <2>7 DEF CopiesOf
  <2>9. lazies[k].kind = "raw" => lazies[k].bytes \in Int
    BY <2>6, <2>7, <2>8, LazyBytes
  <2> QED BY <2>6, <2>9, ValidIsExpected
<1> QED BY <1>1, ResponsesInvariant, SetupCalls, PTL

-----------------------------------------------------------------------------
(* What the tensors of a response hold: the outputs of the final result.    *)

(* What a caller reads, or would read now, of a lazy tensor.                *)
Shown(lazy, memoryOf) == [name |-> lazy.name, value |-> Decoded(lazy, memoryOf)]

(* A heap as a call leaves it: what copies of results refer to.             *)
HoldsBlocks(memoryOf, results, copied) ==
    \A i \in DOMAIN copied : \A b \in Blocks(copied[i]) :
        /\ b \in DOMAIN memoryOf
        /\ b = Retained =>
               \A j \in DOMAIN results : \A n \in ToSet(ListNames) :
                   memoryOf[b][<<j, n>>] = FlattenSeq(results[j].lists[n])
        /\ b # Retained => memoryOf[b]["all"] = Content(results[b[1]], b)

(* HeapOf is such a heap.                                                   *)
LEMMA HeapHolds ==
    ASSUME NEW results, NEW copied
    PROVE  HoldsBlocks(HeapOf(results, copied), results, copied)
<1> DEFINE blocks == UNION {Blocks(copied[i]) : i \in DOMAIN copied}
           made == HeapOf(results, copied)
<1>1. made = [b \in blocks |->
            IF b = Retained
            THEN [p \in (DOMAIN results) \X ToSet(ListNames) |->
                     FlattenSeq(results[p[1]].lists[p[2]])]
            ELSE [p \in {"all"} |-> Content(results[b[1]], b)]]
  BY DEF HeapOf
<1> HIDE DEF made
<1> SUFFICES ASSUME NEW i \in DOMAIN copied, NEW b \in Blocks(copied[i])
             PROVE  /\ b \in DOMAIN made
                    /\ b = Retained =>
                           \A j \in DOMAIN results : \A n \in ToSet(ListNames) :
                               made[b][<<j, n>>] = FlattenSeq(results[j].lists[n])
                    /\ b # Retained => made[b]["all"] = Content(results[b[1]], b)
  BY DEF HoldsBlocks, made
<1>2. b \in blocks
  OBVIOUS
<1> HIDE DEF blocks
<1>3. b \in DOMAIN made
  BY <1>1, <1>2
<1>4. ASSUME b = Retained, NEW j \in DOMAIN results, NEW n \in ToSet(ListNames)
      PROVE  made[b][<<j, n>>] = FlattenSeq(results[j].lists[n])
  <2>1. made[b] = [p \in (DOMAIN results) \X ToSet(ListNames) |->
                     FlattenSeq(results[p[1]].lists[p[2]])]
    BY <1>1, <1>2, <1>4
  <2> DEFINE p == <<j, n>>
  <2>2. p \in (DOMAIN results) \X ToSet(ListNames) /\ p[1] = j /\ p[2] = n
    OBVIOUS
  <2> HIDE DEF p
  <2>3. made[b][p] = FlattenSeq(results[p[1]].lists[p[2]])
    BY <2>1, <2>2
  <2> QED BY <2>2, <2>3 DEF p
<1>5. ASSUME b # Retained PROVE made[b]["all"] = Content(results[b[1]], b)
  BY <1>1, <1>2, <1>5
<1> QED BY <1>3, <1>4, <1>5

(* What own memory of a response holds.                                     *)
LEMMA OwnBlockHolds ==
    ASSUME NEW results, NEW copied, NEW memoryOf, HoldsBlocks(memoryOf, results, copied),
           NEW i \in DOMAIN copied, NEW kind, NEW name,
           Own(i, kind, name).block \in Blocks(copied[i])
    PROVE  At(memoryOf, Own(i, kind, name)) = Content(results[i], <<i, kind, name>>)
<1> DEFINE b == <<i, kind, name>>
<1>1. Own(i, kind, name).block = b /\ Own(i, kind, name).part = "all"
  BY DEF Own
<1>2. b # Retained /\ b[1] = i
  <2>1. Len(b) = 3 /\ Len(Retained) = 2
    BY DEF Retained
  <2> QED BY <2>1
<1> HIDE DEF b
<1>3. b \in DOMAIN memoryOf /\ memoryOf[b]["all"] = Content(results[b[1]], b)
  BY <1>1, <1>2 DEF HoldsBlocks
<1> QED BY <1>1, <1>2, <1>3 DEF At, b

(* The names that blocks of lists have.                                     *)
LEMMA ListContents ==
    ASSUME NEW result, NEW i, NEW n
    PROVE  /\ Content(result, <<i, "list", <<n>>>>) = FlattenSeq(result.lists[n])
           /\ Content(result, <<i, "offsets", <<n>>>>) = Offsets(result.lists[n])
<1>1. Head(<<n>>) = n
  OBVIOUS
<1> QED BY <1>1 DEF Content

(* The list of a name, as its data tensor shows it.                         *)
LEMMA ListShown ==
    ASSUME NEW results, NEW copied, NEW memoryOf, HoldsBlocks(memoryOf, results, copied),
           NEW i \in DOMAIN copied, i \in DOMAIN results, NEW n \in ToSet(ListNames),
           NEW deferred \in BOOLEAN, copied[i].deferred = deferred,
           NEW l \in ToSet(copied[i].lists), l = ListOutput(i, n, results[i].lists[n], deferred),
           Total(results[i].lists[n]) # 0
    PROVE  Shown(DataTensor(l), memoryOf) =
               [name |-> <<n>>, value |-> FlattenSeq(results[i].lists[n])]
<1> DEFINE lists == results[i].lists[n]
           lazy == DataTensor(l)
<1>1. lazy.kind = "raw" /\ lazy.data = l.data /\ lazy.name = <<n>>
  BY DEF DataTensor, ListOutput
<1>2. l.owned = (~deferred \/ Len(lists) # 1)
  BY DEF ListOutput
<1>3. l.data = IF ~deferred \/ Len(lists) # 1 THEN Own(i, "list", <<n>>) ELSE Borrowed(i, n)
  BY DEF ListOutput
<1> HIDE DEF lazy, lists
<1>4. CASE ~deferred \/ Len(lists) # 1
  <2>1. l.data = Own(i, "list", <<n>>) /\ l.owned
    BY <1>2, <1>3, <1>4
  <2>2. Own(i, "list", <<n>>).block \in Blocks(copied[i])
    <3>1. Own(i, "list", <<n>>).block # Null.block
      BY DEF Own, Null
    <3> QED BY <2>1, <3>1 DEF Blocks
  <2>3. At(memoryOf, l.data) = FlattenSeq(lists)
    <3>1. At(memoryOf, Own(i, "list", <<n>>)) = Content(results[i], <<i, "list", <<n>>>>)
      BY <2>2, OwnBlockHolds
    <3>2. Content(results[i], <<i, "list", <<n>>>>) = FlattenSeq(results[i].lists[n])
      BY ListContents
    <3> QED BY <2>1, <3>1, <3>2 DEF lists
  <2>4. l.data # Null
    <3>1. l.data.block # Null.block
      BY <2>1 DEF Own, Null
    <3> QED BY <3>1
  <2>5. Decoded(lazy, memoryOf) = FlattenSeq(lists)
    BY <1>1, <2>3, <2>4 DEF Decoded
  <2> QED BY <1>1, <2>5 DEF Shown, lazy, lists
<1>5. CASE ~(~deferred \/ Len(lists) # 1)
  <2>1. l.data = Borrowed(i, n) /\ deferred
    BY <1>3, <1>5
  <2>2. Retained \in Blocks(copied[i])
    <3>1. Retained # Null.block
      BY DEF Retained, Null
    <3> QED BY <2>1, <3>1 DEF Blocks
  <2>3. /\ Retained \in DOMAIN memoryOf
        /\ memoryOf[Retained][<<i, n>>] = FlattenSeq(lists)
    BY <2>2 DEF HoldsBlocks, lists
  <2>7. l.data.block = Retained /\ l.data.part = <<i, n>>
    <3>1. Borrowed(i, n).block = Retained /\ Borrowed(i, n).part = <<i, n>>
      BY DEF Borrowed
    <3> QED BY <2>1, <3>1
  <2>4. At(memoryOf, l.data) = FlattenSeq(lists)
    BY <2>3, <2>7 DEF At
  <2>5. l.data # Null
    <3>1. Retained # Null.block
      BY DEF Retained, Null
    <3> QED BY <2>7, <3>1
  <2>6. Decoded(lazy, memoryOf) = FlattenSeq(lists)
    BY <1>1, <2>4, <2>5 DEF Decoded
  <2> QED BY <1>1, <2>6 DEF Shown, lazy, lists
<1> QED BY <1>4, <1>5

(* The ends of its beams, as its offset tensor shows them.                  *)
LEMMA OffsetsOfOne ==
    ASSUME NEW lists \in Seq(Seq(Int)), Len(lists) = 1
    PROVE  Offsets(lists) = <<0, Total(lists)>>
<1> DEFINE n == 1
<1>1. n = 1 /\ n \in Nat /\ n = Len(lists)
  OBVIOUS
<1> HIDE DEF n
<1>2. /\ End(lists, 0) = 0 /\ End(lists, n) = Len(FlattenSeq(lists))
  BY <1>1, EndsOfParts
<1>3. Total(SubSeq(lists, 1, 0)) = 0 /\ Total(SubSeq(lists, 1, 1)) = Total(lists)
  BY <1>1, <1>2 DEF End, Total
<1>4. Offsets(lists) = [i \in 1 .. 2 |-> Total(SubSeq(lists, 1, i - 1))]
  BY DEF Offsets
<1> DEFINE a == Total(SubSeq(lists, 1, 0))
           b == Total(SubSeq(lists, 1, 1))
           g == [i \in 1 .. 2 |-> Total(SubSeq(lists, 1, i - 1))]
<1>5. g[1] = a /\ g[2] = b /\ DOMAIN g = 1 .. 2
  OBVIOUS
<1>8. g = [i \in 1 .. 2 |-> g[i]]
  OBVIOUS
<1> HIDE DEF a, b, g
<1>6. g = <<a, b>>
  BY <1>5, <1>8
<1>7. Offsets(lists) = g
  BY <1>4 DEF g
<1> QED BY <1>3, <1>6, <1>7 DEF a, b

(* An offsets tensor shows where the sequences of its list start.           *)
LEMMA OffsetsShown ==
    ASSUME NEW results, NEW copied, NEW memoryOf, HoldsBlocks(memoryOf, results, copied),
           NEW i \in DOMAIN copied, i \in DOMAIN results, NEW n \in ToSet(ListNames),
           NEW deferred \in BOOLEAN,
           NEW l \in ToSet(copied[i].lists), l = ListOutput(i, n, results[i].lists[n], deferred),
           results[i].lists[n] \in Seq(Seq(Int)), results[i].lists[n] # <<>>
    PROVE  \A m \in OffsetNames[n] :
               Shown(OffsetTensor(l, m), memoryOf) =
                   [name |-> <<m>>, value |-> Offsets(results[i].lists[n])]
<1> SUFFICES ASSUME NEW m \in OffsetNames[n]
             PROVE  Shown(OffsetTensor(l, m), memoryOf) =
                        [name |-> <<m>>, value |-> Offsets(results[i].lists[n])]
  OBVIOUS
<1> DEFINE lists == results[i].lists[n]
           lazy == OffsetTensor(l, m)
<1>1. /\ lazy.kind = "offsets" /\ lazy.data = l.offsets /\ lazy.name = <<m>>
      /\ lazy.sequences = l.sequences /\ lazy.count = Total(lists)
  BY DEF OffsetTensor, ListOutput
<1>2. OffsetNames[n] # {}
  OBVIOUS
<1>3. /\ l.offsets = IF ~deferred \/ Len(lists) # 1 THEN Own(i, "offsets", <<n>>) ELSE Null
      /\ l.sequences = IF ~deferred \/ Len(lists) # 1 THEN Len(lists) ELSE 0
  BY <1>2 DEF ListOutput
<1>4. lists \in Seq(Seq(Int)) /\ Len(lists) # 0
  <2> DEFINE Q == Seq(Int)
  <2>1. lists \in Seq(Q) /\ lists # <<>>
    OBVIOUS
  <2> HIDE DEF lists, Q
  <2>2. Len(lists) # 0
    BY <2>1
  <2> QED BY <2>1, <2>2 DEF Q
<1> HIDE DEF lazy, lists
<1>5. CASE ~deferred \/ Len(lists) # 1
  <2>1. l.offsets = Own(i, "offsets", <<n>>) /\ l.sequences # 0
    BY <1>3, <1>4, <1>5
  <2>2. Own(i, "offsets", <<n>>).block \in Blocks(copied[i])
    <3>1. Own(i, "offsets", <<n>>).block # Null.block
      BY DEF Own, Null
    <3> QED BY <2>1, <3>1 DEF Blocks
  <2>3. At(memoryOf, l.offsets) = Offsets(lists)
    <3>1. At(memoryOf, Own(i, "offsets", <<n>>)) = Content(results[i], <<i, "offsets", <<n>>>>)
      BY <2>2, OwnBlockHolds
    <3>2. Content(results[i], <<i, "offsets", <<n>>>>) = Offsets(results[i].lists[n])
      BY ListContents
    <3> QED BY <2>1, <3>1, <3>2 DEF lists
  <2>4. l.offsets # Null
    <3>1. l.offsets.block # Null.block
      BY <2>1 DEF Own, Null
    <3> QED BY <3>1
  <2>5. Decoded(lazy, memoryOf) = Offsets(lists)
    BY <1>1, <2>1, <2>3, <2>4 DEF Decoded
  <2> QED BY <1>1, <2>5 DEF Shown, lazy, lists
<1>6. CASE ~(~deferred \/ Len(lists) # 1)
  <2>1. l.sequences = 0 /\ Len(lists) = 1
    BY <1>3, <1>6
  <2>2. Decoded(lazy, memoryOf) = <<0, Total(lists)>>
    BY <1>1, <2>1 DEF Decoded
  <2>3. Offsets(lists) = <<0, Total(lists)>>
    BY <1>4, <2>1, OffsetsOfOne
  <2> QED BY <1>1, <2>2, <2>3 DEF Shown, lazy, lists
<1> QED BY <1>5, <1>6

(* The outputs of a result have names of their own.                         *)
LEMMA OutputsNamed ==
    ASSUME NEW result, ResultTyped(result),
           NEW a \in ToSet(result.additional \o Logits(result)),
           NEW b \in ToSet(result.additional \o Logits(result)), a.name = b.name
    PROVE  a = b
<1>1. IsList(result.additional) /\ IsList(Logits(result))
  BY LogitsInOrder DEF ResultTyped
<1>2. ToSet(result.additional \o Logits(result)) = ToSet(result.additional) \cup ToSet(Logits(result))
  BY <1>1, ListsJoined
<1>3. /\ \A o \in ToSet(result.additional) : o.name \notin ToSet(LogitNames)
      /\ \A o \in ToSet(Logits(result)) : o.name \in ToSet(LogitNames)
  BY EmittedTyped DEF ResultTyped
<1>4. CASE a \in ToSet(result.additional) /\ b \in ToSet(result.additional)
  BY <1>4 DEF ResultTyped, ToSet
<1>5. CASE a \in ToSet(Logits(result)) /\ b \in ToSet(Logits(result))
  <2>1. PICK k \in 1 .. 3 : LogitOf(result, k, a)
    BY <1>5, LogitsInOrder DEF ToSet
  <2>2. PICK m \in 1 .. 3 : LogitOf(result, m, b)
    BY <1>5, LogitsInOrder DEF ToSet
  <2>3. a.name = LogitNames[k] /\ b.name = LogitNames[m]
    BY <2>1, <2>2 DEF LogitOf
  <2>4. k = m
    <3>1. \A x, y \in 1 .. 3 : LogitNames[x] = LogitNames[y] => x = y
      BY DEF LogitNames, ContextLogits, GenerationLogits, EncoderOutput
    <3> QED BY <2>3, <3>1
  <2>5. LogitNames[k] \in ToSet(LogitNames)
    BY DEF LogitNames, ToSet
  <2> QED BY <2>1, <2>2, <2>4, <2>5 DEF LogitOf, ResultTyped, IsOption
<1> QED BY <1>2, <1>3, <1>4, <1>5

(* A block of the heap has the value of the output it is named for.         *)
LEMMA ContentOfOutput ==
    ASSUME NEW result, ResultTyped(result), NEW i,
           NEW o \in ToSet(result.additional \o Logits(result))
    PROVE  Content(result, <<i, "tensor", o.name>>) = o.tensor.value
<1> DEFINE all == ToSet(result.additional \o Logits(result))
<1>1. \A a \in all : a.name = o.name => a = o
  BY OutputsNamed
<1>2. Content(result, <<i, "tensor", o.name>>) = (CHOOSE e \in all : e.name = o.name).tensor.value
  BY DEF Content
<1> HIDE DEF all
<1>3. (CHOOSE e \in all : e.name = o.name) = o
  BY <1>1 DEF all
<1> QED BY <1>2, <1>3

(* An output of its own, as its tensor shows it.                            *)
LEMMA OwnedShown ==
    ASSUME NEW results, NEW copied, NEW memoryOf, HoldsBlocks(memoryOf, results, copied),
           NEW i \in DOMAIN copied, i \in DOMAIN results, ResultTyped(results[i]),
           NEW o \in ToSet(results[i].additional \o Logits(results[i])), BackendTensor(o.tensor),
           NEW x \in ToSet(copied[i].named) \cup ToSet(copied[i].logits),
           x = TensorOutput(i, o.name, o.tensor), NEW name
    PROVE  Shown(OwnedTensor(x, name), memoryOf) = TensorPresented(o, name)
<1> DEFINE lazy == OwnedTensor(x, name)
           d == o.tensor.dims
           c == o.tensor.code
           p == Product(d)
           s == CodeSize(c)
           bytes == p * s
<1>1. lazy.kind = "raw" /\ lazy.data = x.data /\ lazy.name = name
  BY DEF OwnedTensor
<1>2. x.data = IF bytes = 0 THEN Null ELSE Own(i, "tensor", o.name)
  BY DEF TensorOutput
<1>3. d \in Seq(Int) /\ c \in 0 .. 9
  BY DEF BackendTensor
<1> HIDE DEF d, c
<1>4. Product(d) \in Int /\ CodeSize(c) \in {1, 2, 4, 8}
  BY <1>3, ProductOfNumbers, CodeSizes
<1>5. bytes = 0 <=> p = 0
  <2>1. p \in Int /\ s \in {1, 2, 4, 8}
    BY <1>4
  <2> HIDE DEF p, s
  <2> QED BY <2>1
<1> HIDE DEF bytes, lazy, p
<1>6. TensorPresented(o, name) = [name |-> name, value |-> IF p = 0 THEN <<>> ELSE o.tensor.value]
  BY DEF TensorPresented, p, d
<1>7. CASE p = 0
  <2>1. x.data = Null
    BY <1>2, <1>5, <1>7
  <2>2. Decoded(lazy, memoryOf) = <<>>
    BY <1>1, <2>1 DEF Decoded
  <2> QED BY <1>1, <1>6, <1>7, <2>2 DEF Shown, lazy
<1>8. CASE p # 0
  <2>1. x.data = Own(i, "tensor", o.name)
    BY <1>2, <1>5, <1>8
  <2>2. Own(i, "tensor", o.name).block # Null.block
    BY DEF Own, Null
  <2>3. Own(i, "tensor", o.name).block \in Blocks(copied[i])
    BY <2>1, <2>2 DEF Blocks
  <2>4. At(memoryOf, x.data) = Content(results[i], <<i, "tensor", o.name>>)
    BY <2>1, <2>3, OwnBlockHolds
  <2>5. Content(results[i], <<i, "tensor", o.name>>) = o.tensor.value
    BY ContentOfOutput
  <2>6. x.data # Null
    BY <2>1, <2>2
  <2>7. Decoded(lazy, memoryOf) = o.tensor.value
    BY <1>1, <2>4, <2>5, <2>6 DEF Decoded
  <2> QED BY <1>1, <1>6, <1>8, <2>7 DEF Shown, lazy
<1> QED BY <1>7, <1>8

(* What a list is presented as.                                             *)
LEMMA ListPresentedIs ==
    ASSUME NEW result, NEW n, result.lists[n] \in Seq(Seq(Int))
    PROVE  /\ Total(result.lists[n]) \in Nat
           /\ result.lists[n] = <<>> => Total(result.lists[n]) = 0
           /\ \A x : x \in ListPresented(result, n) <=>
                  /\ Total(result.lists[n]) # 0
                  /\ \/ x = [name |-> <<n>>, value |-> FlattenSeq(result.lists[n])]
                     \/ \E m \in OffsetNames[n] :
                            x = [name |-> <<m>>, value |-> Offsets(result.lists[n])]
<1> DEFINE lists == result.lists[n]
           all == FlattenSeq(lists)
           offsets == Offsets(lists)
<1>1. lists \in Seq(Seq(Int))
  OBVIOUS
<1> HIDE DEF lists
<1>2. all \in Seq(Int) /\ Total(lists) \in Nat /\ Total(lists) = Len(all)
  BY <1>1, EndsOfParts, TotalIsNumber DEF Total
<1>3. lists = <<>> => Total(lists) = 0
  <2> SUFFICES ASSUME lists = <<>> PROVE Total(lists) = 0
    OBVIOUS
  <2> DEFINE z == 0
  <2>1. z = Len(lists) /\ z = 0
    OBVIOUS
  <2> HIDE DEF z
  <2>2. End(lists, 0) = 0 /\ End(lists, z) = Len(FlattenSeq(lists))
    BY <1>1, <2>1, EndsOfParts
  <2> QED BY <2>1, <2>2 DEF Total
<1>4. ListPresented(result, n) =
        IF all = <<>> THEN {}
        ELSE {[name |-> <<n>>, value |-> all]}
             \cup {[name |-> <<m>>, value |-> offsets] : m \in OffsetNames[n]}
  BY DEF ListPresented, lists
<1> HIDE DEF all, offsets
<1>5. all = <<>> <=> Total(lists) = 0
  BY <1>2
<1>6. \A x : x \in ListPresented(result, n) <=>
                  /\ Total(lists) # 0
                  /\ \/ x = [name |-> <<n>>, value |-> all]
                     \/ \E m \in OffsetNames[n] : x = [name |-> <<m>>, value |-> offsets]
  BY <1>4, <1>5
<1> QED BY <1>2, <1>3, <1>6 DEF lists, all, offsets

(* What is presented is that of the first final result.                     *)
PresentedOf(x, result, names) ==
    \/ \E n \in ToSet(ListNames) : x \in ListPresented(result, n)
    \/ \E o \in ToSet(Kept(Logits(result), names)) : x = TensorPresented(o, o.name)
    \/ \E o \in ToSet(Kept(Additional(result, names), names)) :
           x = TensorPresented(o, Exposed(o.name))

(* What Presented gathers is of the one final result.                       *)
LEMMA PresentedIs ==
    ASSUME NEW results, IsList(results), NEW names, NEW i \in DOMAIN results,
           results[i].is_final, \A j \in 1 .. i - 1 : ~results[j].is_final
    PROVE  \A x : x \in Presented(results, names) <=> PresentedOf(x, results[i], names)
<1>1. DOMAIN results = 1 .. Len(results) /\ Len(results) \in Nat
  BY IsListDomain
<1>2. \A k \in DOMAIN results :
        /\ results[k].is_final /\ \A j \in 1 .. k - 1 : ~results[j].is_final
        => k = i
  <2> SUFFICES ASSUME NEW k \in DOMAIN results, results[k].is_final,
                      \A j \in 1 .. k - 1 : ~results[j].is_final
               PROVE  k = i
    OBVIOUS
  <2>1. k \in Nat /\ i \in Nat /\ k >= 1 /\ i >= 1
    BY <1>1
  <2>2. ~(k < i)
    BY <2>1
  <2>3. ~(i < k)
    BY <2>1
  <2> QED BY <2>1, <2>2, <2>3
<1>3. (CHOOSE k \in DOMAIN results :
          results[k].is_final /\ \A j \in 1 .. k - 1 : ~results[j].is_final) = i
  BY <1>2
<1>4. FinalResult(results) = results[i]
  BY <1>3 DEF FinalResult
<1> QED BY <1>4 DEF Presented, PresentedOf

(* A response presents the outputs of the final result that no tensor of    *)
(* the sink took, with their values.                                        *)
LEMMA ResponsePresents ==
    ASSUME NEW results, IsList(results), \A k \in DOMAIN results : ResultTyped(results[k]),
           NEW option, NEW i \in DOMAIN results,
           results[i].is_final, \A j \in 1 .. i - 1 : ~results[j].is_final,
           NEW copied, copied = CopiesOf(results, option),
           NEW memoryOf, memoryOf = HeapOf(results, copied)
    PROVE  \A x : (\E lazy \in ToSet(LazyTensors(copied[i])) : x = Shown(lazy, memoryOf))
                  <=> x \in Presented(results, NamesOf(SinkTensorsOf(option)))
<1> DEFINE names == NamesOf(SinkTensorsOf(option))
           deferred == (option # {})
           result == results[i]
           output == copied[i]
           additional == Additional(result, names)
           logits == Logits(result)
<1>1. ResultTyped(result)
  OBVIOUS
<1>2. HoldsBlocks(memoryOf, results, copied)
  BY HeapHolds
<1>3. i \in DOMAIN copied /\ output = Copied(i, result, names, deferred, Len(Emitted(result, names)) + 1)
  BY DEF CopiesOf
<1>4. output.deferred = deferred /\ deferred \in BOOLEAN
  <2>1. Copied(i, result, names, deferred, Len(Emitted(result, names)) + 1).deferred = deferred
    BY DEF Copied
  <2> QED BY <1>3, <2>1
<1> HIDE DEF names, deferred, result, output
<1>5. IsCopy(output, i, result, names, deferred)
  BY <1>1, <1>3, CopiedElements
<1>6. /\ IsList(output.lists) /\ IsList(output.named) /\ IsList(output.logits)
      /\ \A l \in ToSet(output.lists) :
             \E n \in ToSet(ListNames) :
                 result.lists[n] # <<>> /\ l = ListOutput(i, n, result.lists[n], deferred)
      /\ \A n \in ToSet(ListNames) :
             result.lists[n] # <<>> =>
                 ListOutput(i, n, result.lists[n], deferred) \in ToSet(output.lists)
  BY <1>5 DEF IsCopy
<1>7. /\ \A x \in ToSet(output.named) :
             \E o \in ToSet(Kept(additional, names)) : x = TensorOutput(i, o.name, o.tensor)
      /\ \A o \in ToSet(Kept(additional, names)) :
             TensorOutput(i, o.name, o.tensor) \in ToSet(output.named)
      /\ \A x \in ToSet(output.logits) :
             \E o \in ToSet(Kept(logits, names)) : x = TensorOutput(i, o.name, o.tensor)
      /\ \A o \in ToSet(Kept(logits, names)) :
             TensorOutput(i, o.name, o.tensor) \in ToSet(output.logits)
  BY <1>5 DEF IsCopy
<1>8. \A n, lists : ListOutput(i, n, lists, deferred).name = n
                    /\ ListOutput(i, n, lists, deferred).count = Total(lists)
  BY DEF ListOutput
<1>9. \A l \in ToSet(output.lists) : l.name \in ToSet(ListNames)
  BY <1>6, <1>8
<1>10. \A x : x \in ToSet(LazyTensors(output)) <=>
                  \/ \E l \in ToSet(output.lists) : l.count > 0 /\ x \in ToSet(ListTensors(l))
                  \/ \E o \in ToSet(output.logits) : x = OwnedTensor(o, o.name)
                  \/ \E o \in ToSet(output.named) : x = OwnedTensor(o, Exposed(o.name))
  BY <1>6, <1>9, LazyElements
<1>11. \A x : x \in Presented(results, names) <=>
               \/ \E n \in ToSet(ListNames) : x \in ListPresented(result, n)
               \/ \E o \in ToSet(Kept(logits, names)) : x = TensorPresented(o, o.name)
               \/ \E o \in ToSet(Kept(additional, names)) :
                      x = TensorPresented(o, Exposed(o.name))
  <2>1. \A x : x \in Presented(results, names) <=> PresentedOf(x, result, names)
    BY PresentedIs DEF result
  <2> QED BY <2>1 DEF PresentedOf
<1>12. ASSUME NEW n \in ToSet(ListNames), result.lists[n] # <<>>,
              Total(result.lists[n]) # 0, NEW l, l = ListOutput(i, n, result.lists[n], deferred)
       PROVE  /\ Shown(DataTensor(l), memoryOf) =
                     [name |-> <<n>>, value |-> FlattenSeq(result.lists[n])]
              /\ \A m \in OffsetNames[n] :
                     Shown(OffsetTensor(l, m), memoryOf) =
                         [name |-> <<m>>, value |-> Offsets(result.lists[n])]
  <2>1. l \in ToSet(copied[i].lists) /\ results[i].lists[n] \in Seq(Seq(Int))
    BY <1>1, <1>6, <1>12 DEF ResultTyped, output, result
  <2>2. l = ListOutput(i, n, results[i].lists[n], deferred) /\ copied[i].deferred = deferred
        /\ results[i].lists[n] # <<>> /\ Total(results[i].lists[n]) # 0
    BY <1>4, <1>12 DEF output, result
  <2>3. Shown(DataTensor(l), memoryOf) =
                     [name |-> <<n>>, value |-> FlattenSeq(results[i].lists[n])]
    BY <1>2, <1>3, <1>4, <2>1, <2>2, ListShown
  <2>4. \A m \in OffsetNames[n] :
            Shown(OffsetTensor(l, m), memoryOf) =
                [name |-> <<m>>, value |-> Offsets(results[i].lists[n])]
    <3>1. i \in DOMAIN copied /\ deferred \in BOOLEAN
      BY <1>3, <1>4
    <3>2. l = ListOutput(i, n, results[i].lists[n], deferred) /\ results[i].lists[n] # <<>>
      BY <2>2
    <3> QED BY <1>2, <2>1, <3>1, <3>2, OffsetsShown
  <2> QED BY <2>3, <2>4 DEF result
<1>13. ASSUME NEW o, o \in ToSet(Kept(additional, names)) \/ o \in ToSet(Kept(logits, names)),
              NEW name
       PROVE  Shown(OwnedTensor(TensorOutput(i, o.name, o.tensor), name), memoryOf)
                  = TensorPresented(o, name)
  <2> DEFINE x == TensorOutput(i, o.name, o.tensor)
  <2>1. IsList(additional) /\ IsList(logits) /\ IsList(result.additional)
        /\ ToSet(additional) \subseteq ToSet(result.additional)
    BY <1>1, OutputsAreLists DEF ResultTyped
  <2>2. o \in ToSet(additional) \/ o \in ToSet(logits)
    BY <1>13, <2>1, SelectedElements DEF Kept
  <2>3. BackendTensor(o.tensor)
    BY <1>1, <2>2, EmittedTyped
  <2>4. o \in ToSet(result.additional \o logits)
    BY <2>1, <2>2, ListsJoined
  <2>5. x \in ToSet(copied[i].named) \cup ToSet(copied[i].logits)
    BY <1>7, <1>13 DEF output
  <2>6. o \in ToSet(results[i].additional \o Logits(results[i])) /\ ResultTyped(results[i])
    BY <1>1, <2>4 DEF result
  <2> HIDE DEF x
  <2>7. Shown(OwnedTensor(x, name), memoryOf) = TensorPresented(o, name)
    BY <1>2, <1>3, <2>3, <2>5, <2>6, OwnedShown DEF x
  <2> QED BY <2>7 DEF x
<1>14. \A n \in ToSet(ListNames) : result.lists[n] \in Seq(Seq(Int))
  BY <1>1 DEF ResultTyped
<1>15. ASSUME NEW n \in ToSet(ListNames)
       PROVE  /\ Total(result.lists[n]) \in Nat
              /\ result.lists[n] = <<>> => Total(result.lists[n]) = 0
              /\ \A x : x \in ListPresented(result, n) <=>
                  /\ Total(result.lists[n]) # 0
                  /\ \/ x = [name |-> <<n>>, value |-> FlattenSeq(result.lists[n])]
                     \/ \E m \in OffsetNames[n] :
                            x = [name |-> <<m>>, value |-> Offsets(result.lists[n])]
  BY <1>14, ListPresentedIs
<1>16. ASSUME NEW lazy \in ToSet(LazyTensors(output))
       PROVE  Shown(lazy, memoryOf) \in Presented(results, names)
  <2>1. ASSUME NEW l \in ToSet(output.lists), l.count > 0, lazy \in ToSet(ListTensors(l))
        PROVE  Shown(lazy, memoryOf) \in Presented(results, names)
    <3>1. PICK n \in ToSet(ListNames) :
            result.lists[n] # <<>> /\ l = ListOutput(i, n, result.lists[n], deferred)
      BY <1>6
    <3>2. l.name = n /\ Total(result.lists[n]) # 0
      BY <1>8, <1>15, <2>1, <3>1
    <3>3. lazy = DataTensor(l) \/ \E m \in OffsetNames[n] : lazy = OffsetTensor(l, m)
      BY <2>1, <3>2, TensorsOfList
    <3>4. /\ Shown(DataTensor(l), memoryOf) =
                     [name |-> <<n>>, value |-> FlattenSeq(result.lists[n])]
          /\ \A m \in OffsetNames[n] :
                     Shown(OffsetTensor(l, m), memoryOf) =
                         [name |-> <<m>>, value |-> Offsets(result.lists[n])]
      BY <1>12, <3>1, <3>2
    <3>5. Shown(lazy, memoryOf) \in ListPresented(result, n)
      BY <1>15, <3>2, <3>3, <3>4
    <3> QED BY <1>11, <3>5
  <2>2. ASSUME NEW x \in ToSet(output.logits), lazy = OwnedTensor(x, x.name)
        PROVE  Shown(lazy, memoryOf) \in Presented(results, names)
    <3>1. PICK o \in ToSet(Kept(logits, names)) : x = TensorOutput(i, o.name, o.tensor)
      BY <1>7
    <3>2. x.name = o.name
      BY <3>1 DEF TensorOutput
    <3>3. Shown(lazy, memoryOf) = TensorPresented(o, o.name)
      BY <1>13, <2>2, <3>1, <3>2
    <3> QED BY <1>11, <3>3
  <2>3. ASSUME NEW x \in ToSet(output.named), lazy = OwnedTensor(x, Exposed(x.name))
        PROVE  Shown(lazy, memoryOf) \in Presented(results, names)
    <3>1. PICK o \in ToSet(Kept(additional, names)) : x = TensorOutput(i, o.name, o.tensor)
      BY <1>7
    <3>2. x.name = o.name
      BY <3>1 DEF TensorOutput
    <3>3. Shown(lazy, memoryOf) = TensorPresented(o, Exposed(o.name))
      BY <1>13, <2>3, <3>1, <3>2
    <3> QED BY <1>11, <3>3
  <2> QED BY <1>10, <2>1, <2>2, <2>3
<1>17. ASSUME NEW x \in Presented(results, names)
       PROVE  \E lazy \in ToSet(LazyTensors(output)) : x = Shown(lazy, memoryOf)
  <2>1. ASSUME NEW n \in ToSet(ListNames), x \in ListPresented(result, n)
        PROVE  \E lazy \in ToSet(LazyTensors(output)) : x = Shown(lazy, memoryOf)
    <3> DEFINE l == ListOutput(i, n, result.lists[n], deferred)
    <3>1. Total(result.lists[n]) # 0 /\ result.lists[n] # <<>> /\ Total(result.lists[n]) \in Nat
      BY <1>15, <2>1
    <3>2. l \in ToSet(output.lists) /\ l.name = n /\ l.count > 0
      BY <1>6, <1>8, <3>1
    <3> HIDE DEF l
    <3>3. \A y : y \in ToSet(ListTensors(l)) => y \in ToSet(LazyTensors(output))
      BY <1>10, <3>2
    <3>4. /\ DataTensor(l) \in ToSet(ListTensors(l))
          /\ \A m \in OffsetNames[n] : OffsetTensor(l, m) \in ToSet(ListTensors(l))
      BY <3>2, TensorsOfList
    <3>5. /\ Shown(DataTensor(l), memoryOf) =
                     [name |-> <<n>>, value |-> FlattenSeq(result.lists[n])]
          /\ \A m \in OffsetNames[n] :
                     Shown(OffsetTensor(l, m), memoryOf) =
                         [name |-> <<m>>, value |-> Offsets(result.lists[n])]
      BY <1>12, <3>1 DEF l
    <3>6. \/ x = [name |-> <<n>>, value |-> FlattenSeq(result.lists[n])]
          \/ \E m \in OffsetNames[n] :
                 x = [name |-> <<m>>, value |-> Offsets(result.lists[n])]
      BY <1>15, <2>1
    <3> QED BY <3>3, <3>4, <3>5, <3>6
  <2>2. ASSUME NEW o \in ToSet(Kept(logits, names)), x = TensorPresented(o, o.name)
        PROVE  \E lazy \in ToSet(LazyTensors(output)) : x = Shown(lazy, memoryOf)
    <3> DEFINE y == TensorOutput(i, o.name, o.tensor)
    <3>1. y \in ToSet(output.logits) /\ y.name = o.name
      BY <1>7 DEF TensorOutput
    <3>2. Shown(OwnedTensor(y, o.name), memoryOf) = x
      BY <1>13, <2>2
    <3> HIDE DEF y
    <3> QED BY <1>10, <3>1, <3>2
  <2>3. ASSUME NEW o \in ToSet(Kept(additional, names)), x = TensorPresented(o, Exposed(o.name))
        PROVE  \E lazy \in ToSet(LazyTensors(output)) : x = Shown(lazy, memoryOf)
    <3> DEFINE y == TensorOutput(i, o.name, o.tensor)
    <3>1. y \in ToSet(output.named) /\ y.name = o.name
      BY <1>7 DEF TensorOutput
    <3>2. Shown(OwnedTensor(y, Exposed(o.name)), memoryOf) = x
      BY <1>13, <2>3
    <3> HIDE DEF y
    <3> QED BY <1>10, <3>1, <3>2
  <2> QED BY <1>11, <2>1, <2>2, <2>3
<1> QED BY <1>16, <1>17 DEF output, names

-----------------------------------------------------------------------------
(* Executor::run keeps its promise.                                         *)

(* What the caller of thread t holds.                                       *)
GotBy(t) == IF stage[t] = "open" THEN {TensorsNow(t)} ELSE {}

(* What the backend has, and what the caller has, told from the call and    *)
(* from its answer.                                                         *)
GivenFrom(p, requests, into) ==
    IF p = "submitted" THEN {[request |-> Meant(r), into |-> into, asked |-> r] : r \in requests}
    ELSE {}

(* What it holds is told by the answer.                                     *)
GotFrom(s, answers) ==
    IF s = "open" THEN {Presented(a.results, NamesOf(a.tensors)) : a \in answers} ELSE {}

(* A caller holds the outputs of the final result of its answer.            *)
LEMMA HasPresented ==
    ASSUME OutputInv, NEW t \in Threads, stage[t] = "open"
    PROVE  \E a : answer[t] = {a} /\ TensorsNow(t) = Presented(a.results, NamesOf(a.tensors))
<1>1. OpenedOf(t) /\ \E call \in Calls : AnsweredCall(t, call)
  BY DEF OutputInv, ResponseOf
<1>2a. PICK call \in Calls : \E results : AnswerOf(t, call, results)
  BY <1>1 DEF AnsweredCall
<1>2. PICK results : AnswerOf(t, call, results)
  BY <1>2a
<1>3. PICK i \in FinalIndex(t) :
          LET lazies == LazyTensors(outputs[t][i])
          IN  /\ \A k \in DOMAIN lazies :
                     response[t][k].cell \in {{}, {Decoded(lazies[k], heap[t])}}
              /\ response[t] = [k \in DOMAIN lazies |->
                                   [lazy |-> lazies[k], cell |-> response[t][k].cell]]
  BY <1>1 DEF OpenedOf
<1> DEFINE lazies == LazyTensors(outputs[t][i])
           tensors == SinkTensorsOf(call.sink)
           names == NamesOf(tensors)
           copied == CopiesOf(results, call.sink)
<1>4. /\ IsList(results) /\ \A k \in DOMAIN results : ResultTyped(results[k])
      /\ answer[t] = {[results |-> results, tensors |-> tensors]}
      /\ outputs[t] = copied /\ heap[t] = HeapOf(results, copied)
  BY <1>2, AnswersAssumption DEF AnswerOf
<1>5. /\ DOMAIN copied = DOMAIN results
      /\ \A k \in DOMAIN results : copied[k].is_final = results[k].is_final
  BY DEF CopiesOf, Copied
<1>6. /\ i \in DOMAIN results /\ results[i].is_final
      /\ \A j \in 1 .. i - 1 : ~results[j].is_final
  <2>1. i \in DOMAIN copied /\ copied[i].is_final /\ \A j \in 1 .. i - 1 : ~copied[j].is_final
    BY <1>4 DEF FinalIndex
  <2>2. \A j \in 1 .. i - 1 : j \in DOMAIN results
    BY <1>4, <1>5, <2>1, IsListDomain
  <2> HIDE DEF copied
  <2> QED BY <1>5, <2>1, <2>2
<1> HIDE DEF copied
<1>7. \A x : (\E lazy \in ToSet(LazyTensors(copied[i])) : x = Shown(lazy, heap[t]))
                <=> x \in Presented(results, names)
  <2>1. copied = CopiesOf(results, call.sink)
    BY DEF copied
  <2> QED BY <1>4, <1>6, <2>1, ResponsePresents
<1>8. lazies = LazyTensors(copied[i])
  BY <1>4
<1> HIDE DEF lazies
<1>9. /\ DOMAIN response[t] = DOMAIN lazies
      /\ \A k \in DOMAIN lazies :
             /\ response[t][k].lazy = lazies[k]
             /\ response[t][k].cell \in {{}, {Decoded(lazies[k], heap[t])}}
  BY <1>3 DEF lazies
<1>10. ASSUME NEW k \in DOMAIN lazies
       PROVE  [name |-> response[t][k].lazy.name,
               value |-> IF response[t][k].cell # {} THEN The(response[t][k].cell)
                         ELSE Decoded(response[t][k].lazy, heap[t])]
                  = Shown(lazies[k], heap[t])
  <2> DEFINE d == Decoded(lazies[k], heap[t])
  <2>1. The({d}) = d
    BY DEF The
  <2>2. response[t][k].cell \in {{}, {d}} /\ response[t][k].lazy = lazies[k]
    BY <1>9
  <2>3. (IF response[t][k].cell # {} THEN The(response[t][k].cell)
         ELSE Decoded(response[t][k].lazy, heap[t])) = d
    BY <2>1, <2>2
  <2> QED BY <2>2, <2>3 DEF Shown
<1>11. TensorsNow(t) = {Shown(lazies[k], heap[t]) : k \in DOMAIN lazies}
  <2> DEFINE item(k) == [name |-> response[t][k].lazy.name,
                         value |-> IF response[t][k].cell # {} THEN The(response[t][k].cell)
                                   ELSE Decoded(response[t][k].lazy, heap[t])]
  <2>1. TensorsNow(t) = {item(k) : k \in DOMAIN response[t]}
    BY DEF TensorsNow
  <2>2. \A k \in DOMAIN lazies : item(k) = Shown(lazies[k], heap[t])
    BY <1>10
  <2> HIDE DEF item
  <2> QED BY <1>9, <2>1, <2>2
<1>12. \A x : x \in TensorsNow(t) <=> \E lazy \in ToSet(lazies) : x = Shown(lazy, heap[t])
  BY <1>11 DEF ToSet
<1>13. TensorsNow(t) = Presented(results, names)
  <2>1. \A x : x \in TensorsNow(t) <=> x \in Presented(results, names)
    BY <1>7, <1>8, <1>12
  <2> QED BY <2>1
<1> DEFINE a == [results |-> results, tensors |-> tensors]
<1>14. a.results = results /\ NamesOf(a.tensors) = names /\ answer[t] = {a}
  BY <1>4
<1> HIDE DEF a, tensors, names
<1> QED BY <1>13, <1>14

(* So the variables of the promise are functions of those of the calls.     *)
LEMMA PromisedVars ==
    IInv /\ SinkInv /\ OutputInv =>
        \A t \in Threads : /\ GivenTo(t) = GivenFrom(pc[t], asked[t], sink[t])
                           /\ GotBy(t) = GotFrom(stage[t], answer[t])
<1> SUFFICES ASSUME IInv, SinkInv, OutputInv, NEW t \in Threads
             PROVE  /\ GivenTo(t) = GivenFrom(pc[t], asked[t], sink[t])
                    /\ GotBy(t) = GotFrom(stage[t], answer[t])
  OBVIOUS
<1>1. GivenTo(t) = GivenFrom(pc[t], asked[t], sink[t])
  <2>1. CASE pc[t] # "submitted"
    BY <2>1 DEF GivenTo, GivenFrom
  <2>2. CASE pc[t] = "submitted"
    <3>1. PICK call \in Calls : CallAccepted(call) /\ asked[t] = {WithSink(call)}
      BY <2>2 DEF IInv, OneRequest, HasRequest
    <3>2. \E b \in Buffers : held[t] = {b}
      BY <2>2 DEF IInv, RequestTypeOK
    <3>3. read[t] = {ReadAlone(WithSink(call))}
      BY <2>2, <3>1, <3>2 DEF IInv, HoldsItsRequest
    <3>4. ReadAlone(WithSink(call)) = Meant(WithSink(call))
      BY <3>1, CallReadBack
    <3>5. GivenTo(t) = {[request |-> r, into |-> sink[t], asked |-> a] : r \in read[t], a \in asked[t]}
      BY <2>2 DEF GivenTo
    <3>6. GivenFrom(pc[t], asked[t], sink[t]) =
            {[request |-> Meant(r), into |-> sink[t], asked |-> r] : r \in asked[t]}
      BY <2>2 DEF GivenFrom
    <3> QED BY <3>1, <3>3, <3>4, <3>5, <3>6
  <2> QED BY <2>1, <2>2
<1>2. GotBy(t) = GotFrom(stage[t], answer[t])
  <2>1. CASE stage[t] = "open"
    <3>1. PICK a : answer[t] = {a} /\ TensorsNow(t) = Presented(a.results, NamesOf(a.tensors))
      BY <2>1, HasPresented
    <3> QED BY <2>1, <3>1 DEF GotBy, GotFrom
  <2>2. CASE stage[t] # "open"
    BY <2>2 DEF GotBy, GotFrom
  <2> QED BY <2>1, <2>2
<1> QED BY <1>1, <1>2

(* The steps of the promise.                                                *)
LEMMA PromiseSteps ==
    ASSUME NEW t \in Threads,
           \A u \in Threads \ {t} : GivenTo(u)' = GivenTo(u) /\ GotBy(u)' = GotBy(u),
           \/ GivenTo(t)' = GivenTo(t) /\ GotBy(t)' = GotBy(t)
           \/ /\ GivenTo(t) = {} /\ GotBy(t) = {} /\ GotBy(t)' = {}
              /\ \E call \in Calls : CallAccepted(call) /\ GivenTo(t)' = {TaskOf(call)}
           \/ /\ GotBy(t) = {} /\ GivenTo(t)' = GivenTo(t)
              /\ \E task \in GivenTo(t) : \E results \in Answers(task.asked, task.into) :
                     GotBy(t)' = {Presented(results, NamesOf(SinkTensorsOf(task.into)))}
           \/ GivenTo(t) # {} /\ GivenTo(t)' = {} /\ GotBy(t)' = GotBy(t)
           \/ GivenTo(t) = {} /\ GivenTo(t)' = {} /\ GotBy(t) # {} /\ GotBy(t)' = {}
    PROVE  [Promise!PromiseNext]_(Promise!promiseVars)
<1> DEFINE given == [u \in Threads |-> GivenTo(u)]
           got == [u \in Threads |-> GotBy(u)]
<1>1. CASE GivenTo(t)' = GivenTo(t) /\ GotBy(t)' = GotBy(t)
  <2>1. given' = given /\ got' = got
    BY <1>1
  <2> QED BY <2>1 DEF Promise!promiseVars, GotBy
<1>2. CASE /\ GivenTo(t) = {} /\ GotBy(t) = {} /\ GotBy(t)' = {}
           /\ \E call \in Calls : CallAccepted(call) /\ GivenTo(t)' = {TaskOf(call)}
  <2>1. PICK call \in Calls : CallAccepted(call) /\ GivenTo(t)' = {TaskOf(call)}
    BY <1>2
  <2>2. given' = [given EXCEPT ![t] = {TaskOf(call)}]
    BY <2>1
  <2>3. got' = got /\ got[t] = {} /\ given[t] = {}
    BY <1>2
  <2>4. TaskOf(call) \in {TaskOf(c) : c \in {d \in Calls : CallAccepted(d)}}
    BY <2>1
  <2>5. Promise!Give(t)
    BY <2>2, <2>3, <2>4 DEF Promise!Give, GotBy
  <2> QED BY <2>5 DEF Promise!PromiseNext
<1>3. CASE /\ GotBy(t) = {} /\ GivenTo(t)' = GivenTo(t)
           /\ \E task \in GivenTo(t) : \E results \in Answers(task.asked, task.into) :
                  GotBy(t)' = {Presented(results, NamesOf(SinkTensorsOf(task.into)))}
  <2>0. PICK task \in GivenTo(t) : \E results \in Answers(task.asked, task.into) :
          GotBy(t)' = {Presented(results, NamesOf(SinkTensorsOf(task.into)))}
    BY <1>3
  <2>1. PICK results \in Answers(task.asked, task.into) :
          GotBy(t)' = {Presented(results, NamesOf(SinkTensorsOf(task.into)))}
    BY <2>0
  <2> DEFINE outcome == Presented(results, NamesOf(SinkTensorsOf(task.into)))
  <2>2. outcome \in {Presented(r, NamesOf(SinkTensorsOf(task.into))) :
                        r \in Answers(task.asked, task.into)}
    OBVIOUS
  <2>3. got' = [got EXCEPT ![t] = {outcome}]
    BY <2>1
  <2>4. given' = given /\ got[t] = {} /\ task \in given[t]
    BY <1>3
  <2> HIDE DEF outcome
  <2>5. Promise!Answer(t)
    BY <2>2, <2>3, <2>4 DEF Promise!Answer, GotBy
  <2> QED BY <2>5 DEF Promise!PromiseNext
<1>4. CASE GivenTo(t) # {} /\ GivenTo(t)' = {} /\ GotBy(t)' = GotBy(t)
  <2>1. given' = [given EXCEPT ![t] = {}] /\ given[t] # {} /\ got' = got
    BY <1>4
  <2>2. Promise!Settle(t)
    BY <2>1 DEF Promise!Settle, GotBy
  <2> QED BY <2>2 DEF Promise!PromiseNext
<1>5. CASE GivenTo(t) = {} /\ GivenTo(t)' = {} /\ GotBy(t) # {} /\ GotBy(t)' = {}
  <2>1. got' = [got EXCEPT ![t] = {}] /\ given[t] = {} /\ got[t] # {} /\ given' = given
    BY <1>5
  <2>2. Promise!Release(t)
    BY <2>1 DEF Promise!Release, GotBy
  <2> QED BY <2>2 DEF Promise!PromiseNext
<1> QED BY <1>1, <1>2, <1>3, <1>4, <1>5

(* Calls whose variables stay as they are leave the promise as it is.       *)
LEMMA PromiseAlone ==
    ASSUME \A u \in Threads : GivenTo(u)' = GivenTo(u) /\ GotBy(u)' = GotBy(u)
    PROVE  [Promise!PromiseNext]_(Promise!promiseVars)
<1> DEFINE given == [u \in Threads |-> GivenTo(u)]
           got == [u \in Threads |-> GotBy(u)]
<1>1. given' = given /\ got' = got
  OBVIOUS
<1> QED BY <1>1 DEF Promise!promiseVars, GotBy

(* What a step of a thread leaves of the calls of the others.               *)
LEMMA OtherCallsAlone ==
    ASSUME IInv, SinkInv, OutputInv, NEW t \in Threads, RunStep(t) \/ ResponseStep(t),
           NEW u \in Threads, u # t
    PROVE  /\ pc'[u] = pc[u] /\ asked'[u] = asked[u] /\ sink'[u] = sink[u]
           /\ stage'[u] = stage[u] /\ answer'[u] = answer[u]
<1>1. stage = [v \in Threads |-> stage[v]] /\ answer = [v \in Threads |-> answer[v]]
  BY DEF OutputInv, OutputsAreFunctions
<1>2. CASE Prepares(t)
  <2>1. RequestStep(t)
    BY <1>2 DEF Prepares, RequestStep
  <2> QED BY <1>2, <2>1, OthersAlone DEF Prepares, outputVars
<1>3. CASE Return(t)
  <2>1. /\ \E next : stage' = [stage EXCEPT ![t] = next]
        /\ answer' = answer \/ \E next : answer' = [answer EXCEPT ![t] = next]
    BY <1>3 DEF Return, AwaitError, ReturnError, ReturnResponses
  <2>2. UNCHANGED <<pc, asked, sink>>
    BY <1>3 DEF Return, requestVars
  <2> QED BY <1>1, <2>1, <2>2
<1>4. CASE Open(t) \/ OpenError(t)
  <2>1. /\ \E next : stage' = [stage EXCEPT ![t] = next]
        /\ UNCHANGED <<pc, asked, sink, answer>>
    BY <1>4 DEF Open, OpenError, requestVars
  <2> QED BY <1>1, <2>1
<1>5. CASE Conclude(t)
  <2>1. RequestStep(t)
    BY <1>5 DEF Conclude, RequestStep
  <2>2. /\ \E next : stage' = [stage EXCEPT ![t] = next]
        /\ answer' = answer \/ \E next : answer' = [answer EXCEPT ![t] = next]
    BY <1>5 DEF Conclude
  <2> QED BY <1>1, <2>1, <2>2, OthersAlone
<1>6. CASE Close(t)
  <2>1. /\ stage' = [stage EXCEPT ![t] = "none"]
        /\ answer' = [answer EXCEPT ![t] = {}]
        /\ UNCHANGED <<pc, asked, sink>>
    BY <1>6 DEF Close, requestVars
  <2> QED BY <1>1, <2>1
<1>7. CASE \E k \in DOMAIN response[t] : ReadTensorOf(t, k)
  BY <1>7 DEF ReadTensorOf, requestVars
<1> QED BY <1>2, <1>3, <1>4, <1>5, <1>6, <1>7 DEF RunStep, ResponseStep

(* Every step of a call, or of a caller with its response, is one of the    *)
(* promise.                                                                 *)
LEMMA PromiseKept ==
    IInv /\ SinkInv /\ OutputInv /\ IInv' /\ SinkInv' /\ OutputInv' /\ [ExecutorNext]_executorVars
        => [Promise!PromiseNext]_(Promise!promiseVars)
<1>1. IInv' /\ SinkInv' /\ OutputInv' =>
        (\A t \in Threads : /\ GivenTo(t) = GivenFrom(pc[t], asked[t], sink[t])
                            /\ GotBy(t) = GotFrom(stage[t], answer[t]))'
  BY PromisedVars, PTL
<1> SUFFICES ASSUME IInv, SinkInv, OutputInv, IInv', SinkInv', OutputInv',
                    [ExecutorNext]_executorVars
             PROVE  [Promise!PromiseNext]_(Promise!promiseVars)
  OBVIOUS
<1>2. \A t \in Threads : /\ GivenTo(t) = GivenFrom(pc[t], asked[t], sink[t])
                         /\ GotBy(t) = GotFrom(stage[t], answer[t])
  BY PromisedVars
<1>3. \A t \in Threads : /\ GivenTo(t)' = GivenFrom(pc'[t], asked'[t], sink'[t])
                         /\ GotBy(t)' = GotFrom(stage'[t], answer'[t])
  BY <1>1 DEF GivenFrom, GotFrom
<1>4. CASE UNCHANGED <<pc, asked, sink, stage, answer>>
  <2>1. \A u \in Threads : GivenTo(u)' = GivenTo(u) /\ GotBy(u)' = GotBy(u)
    BY <1>2, <1>3, <1>4
  <2> QED BY <2>1, PromiseAlone
<1>5. ASSUME NEW t \in Threads, RunStep(t) \/ ResponseStep(t)
      PROVE  [Promise!PromiseNext]_(Promise!promiseVars)
  <2>1. \A u \in Threads \ {t} : GivenTo(u)' = GivenTo(u) /\ GotBy(u)' = GotBy(u)
    BY <1>2, <1>3, <1>5, OtherCallsAlone
  <2>2. /\ GivenTo(t) = GivenFrom(pc[t], asked[t], sink[t])
        /\ GotBy(t) = GotFrom(stage[t], answer[t])
        /\ GivenTo(t)' = GivenFrom(pc'[t], asked'[t], sink'[t])
        /\ GotBy(t)' = GotFrom(stage'[t], answer'[t])
    BY <1>2, <1>3
  <2>3. /\ pc = [u \in Threads |-> pc[u]]
        /\ stage = [u \in Threads |-> stage[u]] /\ answer = [u \in Threads |-> answer[u]]
        /\ asked = [u \in Threads |-> asked[u]] /\ sink = [u \in Threads |-> sink[u]]
    BY DEF OutputInv, OutputsAreFunctions, IInv, RequestTypeOK, VarsAreFunctions, SinkInv
  <2>4. ResponseOf(t)
    BY DEF OutputInv
  <2>5. CASE GivenTo(t)' = GivenTo(t) /\ GotBy(t)' = GotBy(t)
    BY <2>1, <2>5, PromiseSteps
  <2>6. CASE Prepares(t)
    <3>1. UNCHANGED <<stage, answer>>
      BY <2>6 DEF Prepares, outputVars
    <3>2. CASE Submit(t)
      <4>1. PICK call \in Calls : CallOf(t, call)
        BY <3>2 DEF Submit, SinkInv, HasRequest
      <4>2. /\ CallAccepted(call)
            /\ asked'[t] = {WithSink(call)} /\ sink'[t] = call.sink
        BY <3>2, <4>1 DEF Submit, CallOf
      <4>3. pc[t] = "prepared" /\ pc'[t] \in {"submitted", "threw"}
        BY <2>3, <3>2 DEF Submit
      <4>4. stage[t] = "none"
        BY <2>4, <4>3 DEF ResponseOf
      <4>5. GivenTo(t) = {} /\ GotBy(t) = {} /\ GotBy(t)' = {}
        BY <2>2, <3>1, <4>3, <4>4 DEF GivenFrom, GotFrom
      <4>6. CASE pc'[t] = "threw"
        <5>1. GivenTo(t)' = {}
          BY <2>2, <4>6 DEF GivenFrom
        <5> QED BY <2>5, <4>5, <5>1
      <4>7. CASE pc'[t] = "submitted"
        <5>1. GivenTo(t)' = {[request |-> Meant(r), into |-> call.sink, asked |-> r] :
                                r \in {WithSink(call)}}
          BY <2>2, <4>2, <4>7 DEF GivenFrom
        <5>2. GivenTo(t)' = {TaskOf(call)}
          BY <5>1 DEF TaskOf
        <5> QED BY <2>1, <4>2, <4>5, <5>2, PromiseSteps
      <4> QED BY <4>3, <4>6, <4>7
    <3>3. CASE ~Submit(t)
      <4>1. pc[t] # "submitted" /\ pc'[t] # "submitted"
        BY <2>3, <2>6, <3>3 DEF Prepares, Refuse, Accept, Checkout, Prepare, ReturnRefused
      <4>2. GivenTo(t)' = GivenTo(t) /\ GotBy(t)' = GotBy(t)
        BY <2>2, <3>1, <4>1 DEF GivenFrom, GotFrom
      <4> QED BY <2>5, <4>2
    <3> QED BY <3>2, <3>3
  <2>7. CASE Return(t)
    <3>1. UNCHANGED <<pc, asked, sink>>
      BY <2>7 DEF Return, requestVars
    <3>2. stage[t] = "none" /\ stage'[t] \in {"failed", "returned"}
      BY <2>3, <2>7 DEF Return, AwaitError, ReturnError, ReturnResponses
    <3>3. GivenTo(t)' = GivenTo(t) /\ GotBy(t)' = GotBy(t)
      BY <2>2, <3>1, <3>2 DEF GivenFrom, GotFrom
    <3> QED BY <2>5, <3>3
  <2>8. CASE OpenError(t)
    <3>1. UNCHANGED <<pc, asked, sink>>
      BY <2>8 DEF OpenError, requestVars
    <3>2. stage[t] = "returned" /\ stage'[t] = "failed"
      BY <2>3, <2>8 DEF OpenError
    <3>3. GivenTo(t)' = GivenTo(t) /\ GotBy(t)' = GotBy(t)
      BY <2>2, <3>1, <3>2 DEF GivenFrom, GotFrom
    <3> QED BY <2>5, <3>3
  <2>9. CASE Open(t)
    <3>1. UNCHANGED <<pc, asked, sink, answer>>
      BY <2>9 DEF Open, requestVars
    <3>2. stage[t] = "returned" /\ stage'[t] = "open" /\ pc[t] = "submitted"
      BY <2>3, <2>4, <2>9 DEF Open, ResponseOf
    <3>3a. PICK call \in Calls : \E results : AnswerOf(t, call, results) /\ CallOf(t, call)
      BY <2>4, <3>2 DEF ResponseOf, AnsweredCall
    <3>3. PICK results : AnswerOf(t, call, results) /\ CallOf(t, call)
      BY <3>3a
    <3>4. /\ asked[t] = {WithSink(call)} /\ sink[t] = call.sink
          /\ results \in Answers(WithSink(call), call.sink)
          /\ answer[t] = {[results |-> results, tensors |-> SinkTensorsOf(call.sink)]}
      BY <3>3 DEF CallOf, AnswerOf
    <3>5. GotBy(t) = {} /\ GivenTo(t)' = GivenTo(t)
      BY <2>2, <3>1, <3>2 DEF GivenFrom, GotFrom
    <3>6. GotBy(t)' = {Presented(results, NamesOf(SinkTensorsOf(call.sink)))}
      <4> DEFINE a == [results |-> results, tensors |-> SinkTensorsOf(call.sink)]
      <4>1. a.results = results /\ a.tensors = SinkTensorsOf(call.sink)
        OBVIOUS
      <4>2. answer'[t] = {a}
        BY <3>1, <3>4
      <4> HIDE DEF a
      <4>3. GotBy(t)' = {Presented(a.results, NamesOf(a.tensors))}
        BY <2>2, <3>2, <4>2 DEF GotFrom
      <4> QED BY <4>1, <4>3
    <3>7. TaskOf(call) \in GivenTo(t)
      BY <2>2, <3>2, <3>4 DEF GivenFrom, TaskOf
    <3>8. TaskOf(call).asked = WithSink(call) /\ TaskOf(call).into = call.sink
      BY DEF TaskOf
    <3>9. \E task \in GivenTo(t) : \E r \in Answers(task.asked, task.into) :
              GotBy(t)' = {Presented(r, NamesOf(SinkTensorsOf(task.into)))}
      BY <3>4, <3>6, <3>7, <3>8
    <3> QED BY <2>1, <3>5, <3>9, PromiseSteps
  <2>10. CASE Conclude(t)
    <3>1. /\ pc'[t] = "idle" /\ pc[t] \in {"submitted", "threw"}
          /\ stage[t] = "open" => stage'[t] = "open" /\ answer' = answer
          /\ stage[t] # "open" => stage'[t] = "none"
      BY <2>3, <2>10 DEF Conclude, Finish
    <3>2. GivenTo(t)' = {} /\ GotBy(t)' = GotBy(t)
      BY <2>2, <3>1 DEF GivenFrom, GotFrom
    <3>3. CASE GivenTo(t) = {}
      BY <2>5, <3>2, <3>3
    <3>4. CASE GivenTo(t) # {}
      BY <2>1, <3>2, <3>4, PromiseSteps
    <3> QED BY <3>3, <3>4
  <2>11. CASE Close(t)
    <3>1. UNCHANGED <<pc, asked, sink>>
      BY <2>11 DEF Close, requestVars
    <3>2. pc[t] = "idle" /\ stage[t] = "open" /\ stage'[t] = "none"
      BY <2>3, <2>11 DEF Close
    <3>3. GivenTo(t) = {} /\ GivenTo(t)' = {} /\ GotBy(t)' = {}
      BY <2>2, <3>1, <3>2 DEF GivenFrom, GotFrom
    <3>4. GotBy(t) # {}
      BY <3>2 DEF GotBy
    <3> QED BY <2>1, <3>3, <3>4, PromiseSteps
  <2>12. CASE \E k \in DOMAIN response[t] : ReadTensorOf(t, k)
    <3>1. UNCHANGED <<pc, asked, sink, stage, answer>>
      BY <2>12 DEF ReadTensorOf, requestVars
    <3> QED BY <1>4, <3>1
  <2> QED BY <1>5, <2>6, <2>7, <2>8, <2>9, <2>10, <2>11, <2>12 DEF RunStep, ResponseStep
<1>6. CASE DropExecutor
  BY <1>4, <1>6 DEF DropExecutor, DropPools, outputVars
<1>7. CASE UNCHANGED executorVars
  BY <1>4, <1>7 DEF executorVars, requestVars, outputVars
<1> QED BY <1>5, <1>6, <1>7 DEF ExecutorNext

(* Calls of run keep the promise: the backend has the request the caller    *)
(* meant, and the response has the outputs of one answer to it, with their  *)
(* values, from run until the caller drops it, however the threads of an    *)
(* executor interleave and whether the executor is dropped before it.       *)
THEOREM CallsKeepPromise == SetupSpec => KeepsPromise
<1>1. ExecutorInit => Promise!PromiseInit
  BY DEF ExecutorInit, RequestInit, Promise!PromiseInit, GivenTo
<1>2. IInv /\ SinkInv /\ OutputInv /\ IInv' /\ SinkInv' /\ OutputInv' /\ [ExecutorNext]_executorVars
        => [Promise!PromiseNext]_(Promise!promiseVars)
  BY PromiseKept
<1> QED BY <1>1, <1>2, ResponsesInvariant, SetupCalls, PTL
        DEF ExecutorSpec, KeepsPromise, Promise!PromiseSpec

-----------------------------------------------------------------------------
(* What the sink of a call holds when run has returned a response.          *)

(* What memory holds after the outputs at positions up to k.                *)
Writing(list, tensors, k, it) ==
    it = [s \in SUBSET (1 .. k) |->
             IF s = {} THEN Nothing
             ELSE WrittenTo(it[s \ {Max(s)}], list[Max(s)], tensors)]

(* There is such a memory for every list of outputs.                        *)
LEMMA WritingsExist ==
    ASSUME NEW list, NEW tensors
    PROVE  \A k \in Nat : \E it : Writing(list, tensors, k, it)
<1> DEFINE Has == {k \in Nat : \E it : Writing(list, tensors, k, it)}
<1>1. 0 \in Has
  <2> DEFINE it == [s \in SUBSET (1 .. 0) |-> Nothing]
  <2>1. \A s \in SUBSET (1 .. 0) : s = {}
    OBVIOUS
  <2>2. Writing(list, tensors, 0, it)
    BY <2>1 DEF Writing
  <2> QED BY <2>2
<1>2. ASSUME NEW k \in Nat, k \in Has PROVE k + 1 \in Has
  <2>1. PICK it : Writing(list, tensors, k, it)
    BY <1>2
  <2> DEFINE next == [s \in SUBSET (1 .. k + 1) |->
                         IF k + 1 \in s THEN WrittenTo(it[s \ {k + 1}], list[k + 1], tensors)
                         ELSE it[s]]
  <2>2. ASSUME NEW s \in SUBSET (1 .. k + 1)
        PROVE  next[s] = IF s = {} THEN Nothing
                         ELSE WrittenTo(next[s \ {Max(s)}], list[Max(s)], tensors)
    <3>1. CASE k + 1 \in s
      <4>1. Max(s) = k + 1
        BY <3>1, LargestPosition
      <4>2. s \ {k + 1} \in SUBSET (1 .. k + 1) /\ k + 1 \notin s \ {k + 1}
        OBVIOUS
      <4>3. next[s \ {k + 1}] = it[s \ {k + 1}]
        BY <4>2
      <4> QED BY <3>1, <4>1, <4>3
    <3>2. CASE s = {}
      <4>1. s \in SUBSET (1 .. k)
        BY <3>2
      <4>2. it[s] = Nothing
        BY <2>1, <3>2, <4>1 DEF Writing
      <4> QED BY <3>2, <4>2
    <3>3. CASE k + 1 \notin s /\ s # {}
      <4>1. s \in SUBSET (1 .. k)
        BY <3>3
      <4>2. it[s] = WrittenTo(it[s \ {Max(s)}], list[Max(s)], tensors)
        BY <2>1, <3>3, <4>1 DEF Writing
      <4>3. s \ {Max(s)} \in SUBSET (1 .. k + 1) /\ k + 1 \notin s \ {Max(s)}
        BY <3>3
      <4> QED BY <3>3, <4>2, <4>3
    <3> QED BY <3>1, <3>2, <3>3
  <2>3. Writing(list, tensors, k + 1, next)
    BY <2>2 DEF Writing
  <2> HIDE DEF next
  <2> QED BY <2>3
<1> HIDE DEF Has
<1>3. Nat \subseteq Has
  BY <1>1, <1>2, SetInduction
<1> QED BY <1>3 DEF Has

(* Filling writes the outputs that the sink takes in that order.            *)
LEMMA FillingIsFold ==
    ASSUME NEW results, NEW tensors, NEW n \in Nat, DOMAIN TakenOf(results, tensors) = 1 .. n
    PROVE  \E it : /\ Writing(TakenOf(results, tensors), tensors, n, it)
                   /\ Filling(results, tensors) = it[1 .. n]
<1>1. \E it : Writing(TakenOf(results, tensors), tensors, n, it)
  BY WritingsExist
<1> QED BY <1>1 DEF Filling, FoldLeft, MapThenFoldSet, Writing

(* An output goes to one tensor of the sink at most.                        *)
LEMMA TargetIsOne ==
    ASSUME NEW names, DOMAIN names \subseteq Int, NEW name
    PROVE  \A i, j \in TargetOf(name, names) : i = j
  BY DEF TargetOf

(* The bytes of a tensor of the sink that are those of a value.             *)
HoldsValue(mem, tensor, value) ==
    \A b \in 0 .. SinkBytes(tensor) - 1 :
        /\ tensor.start + b \in DOMAIN mem
        /\ mem[tensor.start + b] = [value |-> value, byte |-> b]

(* The size of a tensor of a sink                                           *)
LEMMA SinkBytesIsNumber ==
    ASSUME NEW tensor \in SinkTensor
    PROVE  SinkBytes(tensor) \in Int
<1>1. tensor.dims \in Seq(Int) /\ tensor.code \in 0 .. 8
  BY DEF SinkTensor, CodeBytes
<1>2. CodeBytes[tensor.code] \in Int
  BY <1>1 DEF CodeBytes
<1>3. Product(tensor.dims) \in Int
  BY <1>1, ProductOfNumbers
<1> QED BY <1>2, <1>3 DEF SinkBytes

(* An output overwrites all of its tensor, and nothing of another.          *)
LEMMA WrittenStep ==
    ASSUME NEW tensors \in Seq(SinkTensor), SinkLaidOut(tensors), NEW o, NEW mem,
           NEW g, TargetOf(o.name, NamesOf(tensors)) = {g}
    PROVE  /\ HoldsValue(WrittenTo(mem, o, tensors), tensors[g], o.tensor.value)
           /\ \A i \in DOMAIN tensors : \A value :
                  i # g /\ HoldsValue(mem, tensors[i], value) =>
                      HoldsValue(WrittenTo(mem, o, tensors), tensors[i], value)
<1> DEFINE new == WrittenTo(mem, o, tensors)
           target == {a \in 0 .. MaxAddress : a \in Covered(SinkRange(tensors[g]))}
<1>1. The(TargetOf(o.name, NamesOf(tensors))) = g
  BY DEF The
<1>2. new = [a \in DOMAIN mem \cup target |->
                IF a \in target THEN [value |-> o.tensor.value, byte |-> a - tensors[g].start]
                ELSE mem[a]]
  BY <1>1 DEF WrittenTo
<1>3. g \in DOMAIN tensors
  BY DEF TargetOf, NamesOf
<1>4. /\ DOMAIN tensors \subseteq Int /\ MaxAddress \in Nat
      /\ \A i \in DOMAIN tensors : /\ tensors[i] \in SinkTensor
                                   /\ tensors[i].start \in Nat
                                   /\ SinkBytes(tensors[i]) \in Int
  <2>1. DOMAIN tensors \subseteq Int /\ \A i \in DOMAIN tensors : tensors[i] \in SinkTensor
    <3> DEFINE S == SinkTensor
    <3>1. tensors \in Seq(S)
      OBVIOUS
    <3> HIDE DEF S
    <3>2. DOMAIN tensors \subseteq Int /\ \A i \in DOMAIN tensors : tensors[i] \in S
      BY <3>1
    <3> QED BY <3>2 DEF S
  <2>2. \A s \in SinkTensor : s.start \in Nat
    BY DEF SinkTensor
  <2> QED BY <2>1, <2>2, SinkBytesIsNumber, RequestAssumption
<1>5. \A a \in Int : a \in target <=>
          /\ 0 <= a /\ a <= MaxAddress
          /\ tensors[g].start <= a /\ a < tensors[g].start + SinkBytes(tensors[g])
  BY <1>3, <1>4 DEF Covered, SinkRange, MemoryRange
<1>6. \A i \in DOMAIN tensors : tensors[i].start + SinkBytes(tensors[i]) <= MaxAddress
  BY DEF SinkLaidOut, RangeFits
<1>7. ASSUME NEW i \in DOMAIN tensors, i # g
      PROVE  ~ (/\ tensors[i].start < tensors[g].start + SinkBytes(tensors[g])
                /\ tensors[g].start < tensors[i].start + SinkBytes(tensors[i]))
  <2> DEFINE ranges == [k \in DOMAIN tensors |-> SinkRange(tensors[k])]
  <2>1. OutputsDisjoint(ranges) /\ DOMAIN ranges = DOMAIN tensors
    BY DEF SinkLaidOut
  <2>2. \A k \in DOMAIN tensors : /\ ranges[k].start = tensors[k].start
                                  /\ ranges[k].end = tensors[k].start + SinkBytes(tensors[k])
    BY DEF SinkRange, MemoryRange
  <2>3. i < g \/ g < i
    BY <1>3, <1>4, <1>7
  <2>4. ~Overlaps(ranges[i], ranges[g]) \/ ~Overlaps(ranges[g], ranges[i])
    BY <1>3, <2>1, <2>3 DEF OutputsDisjoint
  <2> HIDE DEF ranges
  <2> QED BY <1>3, <2>2, <2>4 DEF Overlaps
<1> HIDE DEF new, target
<1>8. HoldsValue(new, tensors[g], o.tensor.value)
  <2> SUFFICES ASSUME NEW b \in 0 .. SinkBytes(tensors[g]) - 1
               PROVE  /\ tensors[g].start + b \in DOMAIN new
                      /\ new[tensors[g].start + b] = [value |-> o.tensor.value, byte |-> b]
    BY DEF HoldsValue
  <2> DEFINE a == tensors[g].start + b
  <2>1. a \in Int /\ a \in target /\ a - tensors[g].start = b
    BY <1>3, <1>4, <1>5, <1>6
  <2> HIDE DEF a
  <2>2. a \in DOMAIN new /\ new[a] = [value |-> o.tensor.value, byte |-> b]
    BY <1>2, <2>1
  <2> QED BY <2>2 DEF a
<1>9. ASSUME NEW i \in DOMAIN tensors, NEW value, i # g, HoldsValue(mem, tensors[i], value)
      PROVE  HoldsValue(new, tensors[i], value)
  <2> SUFFICES ASSUME NEW b \in 0 .. SinkBytes(tensors[i]) - 1
               PROVE  /\ tensors[i].start + b \in DOMAIN new
                      /\ new[tensors[i].start + b] = [value |-> value, byte |-> b]
    BY DEF HoldsValue
  <2> DEFINE a == tensors[i].start + b
  <2>1. a \in DOMAIN mem /\ mem[a] = [value |-> value, byte |-> b]
    BY <1>9 DEF HoldsValue
  <2>2. a \in Int /\ a \notin target
    <3>1. tensors[i].start \in Nat /\ SinkBytes(tensors[i]) \in Int
      BY <1>4
    <3>2. /\ tensors[i].start <= a /\ a \in Int
          /\ a < tensors[i].start + SinkBytes(tensors[i])
      BY <3>1
    <3>3. tensors[g].start \in Nat /\ SinkBytes(tensors[g]) \in Int
      BY <1>3, <1>4
    <3>4. ~ (tensors[g].start <= a /\ a < tensors[g].start + SinkBytes(tensors[g]))
      BY <1>7, <1>9, <3>1, <3>2, <3>3
    <3> QED BY <1>5, <3>2, <3>4
  <2> HIDE DEF a
  <2>3. a \in DOMAIN new /\ new[a] = [value |-> value, byte |-> b]
    BY <1>2, <2>1, <2>2
  <2> QED BY <2>3 DEF a
<1> QED BY <1>8, <1>9 DEF new

(* The outputs that a sink takes go to one of its tensors each.             *)
LEMMA TakenGoSomewhere ==
    ASSUME NEW results, IsList(results), \A i \in DOMAIN results : ResultTyped(results[i]),
           NEW tensors
    PROVE  \E n \in Nat : /\ n = Len(TakenOf(results, tensors))
                          /\ DOMAIN TakenOf(results, tensors) = 1 .. n
                          /\ \A k \in 1 .. n :
                                 TargetOf(TakenOf(results, tensors)[k].name, NamesOf(tensors)) # {}
<1> DEFINE names == NamesOf(tensors)
           seqs == [i \in DOMAIN results |-> Taken(Emitted(results[i], names), names)]
           list == TakenOf(results, tensors)
           c == Len(results)
<1>1. c \in Nat /\ DOMAIN results = 1 .. c
  BY IsListDomain
<1>2. ASSUME NEW i \in 1 .. c
      PROVE  /\ IsList(seqs[i])
             /\ \A o \in ToSet(seqs[i]) : TargetOf(o.name, names) # {}
  <2>1. IsList(Emitted(results[i], names))
    BY <1>1, OutputsAreLists
  <2> DEFINE kept == {o \in ToSet(Emitted(results[i], names)) : IsTaken(o, names)}
  <2>2. seqs[i] = Selected(Emitted(results[i], names), kept)
    BY <1>1 DEF Taken
  <2>3. \A o \in kept : TargetOf(o.name, names) # {}
    BY DEF IsTaken
  <2> HIDE DEF kept, seqs
  <2> QED BY <2>1, <2>2, <2>3, SelectedElements
<1>3. list = FlattenSeq(seqs) /\ seqs = [i \in 1 .. c |-> seqs[i]]
  BY <1>1 DEF TakenOf
<1> HIDE DEF seqs, list, c, names
<1>4. c = Len(seqs) /\ \E S : seqs \in Seq(Seq(S))
  BY <1>1, <1>2, <1>3, PartsOver
<1>5. PICK S : seqs \in Seq(Seq(S))
  BY <1>4
<1>6. /\ IsList(list)
      /\ \A x : x \in ToSet(list) <=> \E m \in 1 .. c : x \in ToSet(seqs[m])
  BY <1>3, <1>4, <1>5, JoinedElements
<1>7. Len(list) \in Nat /\ DOMAIN list = 1 .. Len(list)
  BY <1>6, IsListDomain
<1>8. ASSUME NEW k \in 1 .. Len(list) PROVE TargetOf(list[k].name, names) # {}
  <2>1. list[k] \in ToSet(list)
    BY <1>7 DEF ToSet
  <2> QED BY <1>2, <1>6, <2>1
<1> QED BY <1>7, <1>8 DEF list, names

(* A tensor holds the last output that goes to it.                          *)
LEMMA LastWins ==
    ASSUME NEW tensors \in Seq(SinkTensor), SinkLaidOut(tensors), NEW n \in Nat,
           NEW list, \A k \in 1 .. n : TargetOf(list[k].name, NamesOf(tensors)) # {},
           NEW it, Writing(list, tensors, n, it)
    PROVE  \A j \in 1 .. n : \A i \in TargetOf(list[j].name, NamesOf(tensors)) :
               (\A m \in j + 1 .. n : i \notin TargetOf(list[m].name, NamesOf(tensors)))
                   => HoldsValue(it[1 .. n], tensors[i], list[j].tensor.value)
<1> DEFINE goes(k) == TargetOf(list[k].name, NamesOf(tensors))
           Newest(j, i, k) == \A m \in j + 1 .. k : i \notin goes(m)
           Has == {k \in Nat : k <= n =>
                      \A j \in 1 .. k : \A i \in goes(j) :
                          Newest(j, i, k) => HoldsValue(it[1 .. k], tensors[i], list[j].tensor.value)}
<1>1. DOMAIN NamesOf(tensors) = DOMAIN tensors /\ DOMAIN NamesOf(tensors) \subseteq Int
  <2>1. DOMAIN tensors = 1 .. Len(tensors) /\ Len(tensors) \in Nat
    <3> DEFINE S == SinkTensor
    <3>1. tensors \in Seq(S)
      OBVIOUS
    <3> HIDE DEF S
    <3> QED BY <3>1
  <2> QED BY <2>1 DEF NamesOf
<1>2. 0 \in Has
  OBVIOUS
<1>3. ASSUME NEW k \in Nat, k \in Has PROVE k + 1 \in Has
  <2> SUFFICES ASSUME k + 1 <= n, NEW j \in 1 .. k + 1, NEW i \in goes(j), Newest(j, i, k + 1)
               PROVE  HoldsValue(it[1 .. k + 1], tensors[i], list[j].tensor.value)
    OBVIOUS
  <2>1. it[1 .. k + 1] = WrittenTo(it[1 .. k], list[k + 1], tensors)
    <3> DEFINE s == 1 .. k + 1
    <3>1. s \in SUBSET (1 .. n) /\ k + 1 \in s
      OBVIOUS
    <3>2. Max(s) = k + 1
      BY <3>1, LargestPosition
    <3>3. s \ {k + 1} = 1 .. k
      OBVIOUS
    <3> HIDE DEF s
    <3>4. it[s] = WrittenTo(it[s \ {Max(s)}], list[Max(s)], tensors)
      BY <3>1 DEF Writing
    <3>5. it[s] = WrittenTo(it[1 .. k], list[k + 1], tensors)
      BY <3>2, <3>3, <3>4
    <3> QED BY <3>5 DEF s
  <2>2. PICK g : goes(k + 1) = {g}
    <3>1. goes(k + 1) # {}
      OBVIOUS
    <3>2. \A a, b \in goes(k + 1) : a = b
      BY <1>1, TargetIsOne
    <3> QED BY <3>1, <3>2
  <2>3. i \in DOMAIN tensors
    BY <1>1 DEF TargetOf
  <2> DEFINE new == WrittenTo(it[1 .. k], list[k + 1], tensors)
  <2>4. /\ HoldsValue(new, tensors[g], list[k + 1].tensor.value)
        /\ \A x \in DOMAIN tensors : \A value :
               x # g /\ HoldsValue(it[1 .. k], tensors[x], value) => HoldsValue(new, tensors[x], value)
    BY <2>2, WrittenStep
  <2>5. CASE j = k + 1
    <3>1. i = g
      BY <2>2, <2>5
    <3> QED BY <2>1, <2>4, <2>5, <3>1
  <2>6. CASE j # k + 1
    <3>1. j \in 1 .. k /\ k + 1 \in j + 1 .. k + 1
      BY <2>6
    <3>2. i \notin goes(k + 1)
      BY <3>1
    <3>3. Newest(j, i, k)
      OBVIOUS
    <3>4. HoldsValue(it[1 .. k], tensors[i], list[j].tensor.value)
      BY <1>3, <3>1, <3>3
    <3> QED BY <2>1, <2>2, <2>3, <2>4, <3>2, <3>4
  <2> QED BY <2>5, <2>6
<1>4. n \in Has
  <2> HIDE DEF Has
  <2>1. Nat \subseteq Has
    BY <1>2, <1>3, SetInduction
  <2> QED BY <2>1
<1> QED BY <1>4

(* Such a name is looked up by the rest of it.                              *)
LEMMA LookedUp ==
    ASSUME NEW full, NEW prefix \in {"context", "generation"}, NEW name \in Stripped(full, prefix)
    PROVE  /\ Len(full) > 1 /\ Head(full) = prefix /\ Tail(full) = name
           /\ Stripped(full, prefix) = {name} /\ LookupName(full) = name
<1>1. Len(full) > 1 /\ Head(full) = prefix /\ Tail(full) = name
  BY DEF Stripped
<1>2. Stripped(full, prefix) = {name}
  BY <1>1 DEF Stripped
<1> QED BY <1>1, <1>2 DEF LookupName

(* Names with the same prefix and the same rest are the same.               *)
LEMMA SameName ==
    ASSUME NEW S, NEW a \in Seq(S), NEW T, NEW b \in Seq(T), Len(a) > 1, Len(b) > 1,
           Head(a) = Head(b), Tail(a) = Tail(b)
    PROVE  a = b
<1>1. Len(a) = Len(b)
  <2>1. Len(Tail(a)) = Len(a) - 1 /\ Len(Tail(b)) = Len(b) - 1
    OBVIOUS
  <2> QED BY <2>1
<1>2. ASSUME NEW i \in 1 .. Len(a) PROVE a[i] = b[i]
  <2>1. CASE i = 1
    <3>1. a[1] = Head(a) /\ b[1] = Head(b)
      OBVIOUS
    <3> QED BY <2>1, <3>1
  <2>2. CASE i # 1
    <3>1. PICK k \in 1 .. Len(a) - 1 : i = k + 1
      <4>1. i - 1 \in 1 .. Len(a) - 1 /\ i = (i - 1) + 1
        BY <2>2
      <4> QED BY <4>1
    <3>2. Tail(a)[k] = a[k + 1] /\ Tail(b)[k] = b[k + 1]
      BY <1>1
    <3> QED BY <3>1, <3>2
  <2> QED BY <2>1, <2>2
<1>3. a = [i \in 1 .. Len(a) |-> a[i]] /\ b = [i \in 1 .. Len(b) |-> b[i]]
  OBVIOUS
<1> QED BY <1>1, <1>2, <1>3

(* Which outputs of a result may go to one tensor of a sink: both logits.   *)
LEMMA OutputsApart ==
    ASSUME NEW result, ResultTyped(result), NamedByBackend(result), NEW names
    PROVE  \A k, m \in DOMAIN Emitted(result, names) :
               k < m /\ TargetOf(Emitted(result, names)[k].name, names)
                            \cap TargetOf(Emitted(result, names)[m].name, names) # {}
                   => /\ Emitted(result, names)[k].name = ContextLogits
                      /\ Emitted(result, names)[m].name = GenerationLogits
<1> DEFINE first == Additional(result, names)
           rest == Logits(result)
           list == Emitted(result, names)
<1>1. IsList(first) /\ IsList(rest) /\ ToSet(first) \subseteq ToSet(result.additional)
  BY OutputsAreLists
<1>2. /\ DOMAIN list = 1 .. Len(first) + Len(rest) /\ Len(first) \in Nat /\ Len(rest) \in Nat
      /\ \A i \in DOMAIN list :
             IF i <= Len(first) THEN i \in DOMAIN first /\ list[i] = first[i]
             ELSE i - Len(first) \in DOMAIN rest /\ list[i] = rest[i - Len(first)]
  BY <1>1, ListsJoined DEF Emitted
<1> SUFFICES ASSUME NEW k \in DOMAIN list, NEW m \in DOMAIN list, k < m,
                    NEW i \in TargetOf(list[k].name, names) \cap TargetOf(list[m].name, names)
             PROVE  list[k].name = ContextLogits /\ list[m].name = GenerationLogits
  OBVIOUS
<1> DEFINE a == list[k].name
           b == list[m].name
<1>3. i \in DOMAIN names /\ names[i] \in {a, LookupName(a)} /\ names[i] \in {b, LookupName(b)}
  BY DEF TargetOf, Matches
<1>4. /\ LookupName(ContextLogits) = <<"logits">> /\ LookupName(GenerationLogits) = <<"logits">>
      /\ LookupName(EncoderOutput) = EncoderOutput
  BY DEF LookupName, Stripped, ContextLogits, GenerationLogits, EncoderOutput
<1>5. ASSUME NEW j \in DOMAIN first
      PROVE  /\ first[j].name \in Seq(STRING) /\ first[j].name \notin ToSet(LogitNames)
             /\ \E prefix \in {"context", "generation"} :
                    \E name \in Stripped(first[j].name, prefix) :
                        /\ Stripped(name, "context") = {} /\ Stripped(name, "generation") = {}
                        /\ name # EncoderOutput
  <2>1. first[j] \in ToSet(result.additional)
    BY <1>1 DEF ToSet
  <2> QED BY <2>1 DEF NamedByBackend, ResultTyped
<1>6. ASSUME NEW j \in DOMAIN rest
      PROVE  rest[j].name \in ToSet(LogitNames)
  <2>1. rest[j] \in ToSet(rest)
    BY DEF ToSet
  <2> QED BY <2>1, EmittedTyped
<1>7. ToSet(LogitNames) = {ContextLogits, GenerationLogits, EncoderOutput}
  BY DEF ToSet, LogitNames
<1>8. CASE m <= Len(first)
  <2>1. k \in DOMAIN first /\ m \in DOMAIN first /\ a = first[k].name /\ b = first[m].name
    BY <1>2, <1>8
  <2>2. a # b
    <3> DEFINE all == result.additional
               kept == {o \in ToSet(all) : ~SkipsGeneration(o.name, names)}
    <3>1. IsList(all) /\ first = Selected(all, kept)
      BY DEF ResultTyped, Additional
    <3> HIDE DEF kept
    <3>2. PICK pos : Picks(all, kept, first, pos, Len(all))
      BY <3>1, SelectedFrom DEF IsList
    <3>3. /\ DOMAIN first = 1 .. Len(first) /\ DOMAIN all = 1 .. Len(all) /\ Len(all) \in Nat
      BY <1>1, <3>1, IsListDomain
    <3>4. /\ first[k] = all[pos[k]] /\ first[m] = all[pos[m]] /\ pos[k] < pos[m]
          /\ pos[k] \in DOMAIN all /\ pos[m] \in DOMAIN all
      BY <2>1, <3>2, <3>3 DEF Picks
    <3>5. pos[k] # pos[m]
      BY <3>3, <3>4
    <3> QED BY <2>1, <3>4, <3>5 DEF ResultTyped
  <2>3. PICK pa \in {"context", "generation"} : \E x \in Stripped(a, pa) :
          Stripped(x, "context") = {} /\ Stripped(x, "generation") = {}
    BY <1>5, <2>1
  <2>4. PICK x \in Stripped(a, pa) : Stripped(x, "context") = {} /\ Stripped(x, "generation") = {}
    BY <2>3
  <2>5. PICK pb \in {"context", "generation"} : \E y \in Stripped(b, pb) :
          Stripped(y, "context") = {} /\ Stripped(y, "generation") = {}
    BY <1>5, <2>1
  <2>6. PICK y \in Stripped(b, pb) : Stripped(y, "context") = {} /\ Stripped(y, "generation") = {}
    BY <2>5
  <2>11. /\ Len(a) > 1 /\ Head(a) = pa /\ Tail(a) = x /\ Stripped(a, pa) = {x} /\ LookupName(a) = x
         /\ Len(b) > 1 /\ Head(b) = pb /\ Tail(b) = y /\ Stripped(b, pb) = {y} /\ LookupName(b) = y
    BY LookedUp
  <2>12. a # y /\ b # x
    BY <2>4, <2>6
  <2>13. names[i] = x /\ x = y
    BY <1>3, <2>2, <2>11, <2>12
  <2>7. pa = "generation" \/ pb = "generation"
    <3> SUFFICES ASSUME pa = pb PROVE FALSE
      OBVIOUS
    <3>1. a \in Seq(STRING) /\ b \in Seq(STRING)
      BY <1>5, <2>1
    <3> DEFINE S == STRING
    <3> HIDE DEF S
    <3>2. a \in Seq(S) /\ b \in Seq(S)
      BY <3>1 DEF S
    <3> QED BY <2>2, <2>11, <2>13, <3>2, SameName
  <2>8. SkipsGeneration(a, names) \/ SkipsGeneration(b, names)
    BY <1>3, <2>7, <2>11, <2>13 DEF SkipsGeneration
  <2>9. \A o \in ToSet(first) : ~SkipsGeneration(o.name, names)
    BY SelectedElements DEF ResultTyped, Additional
  <2>10. first[k] \in ToSet(first) /\ first[m] \in ToSet(first)
    BY <2>1 DEF ToSet
  <2> QED BY <2>1, <2>8, <2>9, <2>10
<1>9. CASE k <= Len(first) /\ ~(m <= Len(first))
  <2>1. k \in DOMAIN first /\ a = first[k].name
    BY <1>2, <1>9
  <2>2. b \in ToSet(LogitNames)
    BY <1>2, <1>6, <1>9
  <2>3. PICK pa \in {"context", "generation"} : \E x \in Stripped(a, pa) :
          /\ Stripped(x, "context") = {} /\ Stripped(x, "generation") = {}
          /\ x # EncoderOutput
    BY <1>5, <2>1
  <2>4. PICK x \in Stripped(a, pa) :
          /\ Stripped(x, "context") = {} /\ Stripped(x, "generation") = {}
          /\ x # EncoderOutput
    BY <2>3
  <2>5. /\ Len(a) > 1 /\ Head(a) = pa /\ Tail(a) = x /\ LookupName(a) = x
        /\ a \in Seq(STRING) /\ a \notin ToSet(LogitNames)
    BY <1>5, <2>1, LookedUp
  <2>6. \A x1, x2 : /\ Stripped(<<x1, x2>>, x1) = {<<x2>>} /\ Len(<<x1, x2>>) = 2
                     /\ Head(<<x1, x2>>) = x1 /\ Tail(<<x1, x2>>) = <<x2>>
    <3>1. \A x1, x2 : Len(<<x1, x2>>) = 2 /\ <<x1, x2>>[1] = x1 /\ <<x1, x2>>[2] = x2
      OBVIOUS
    <3>2. \A x1, x2 : Head(<<x1, x2>>) = x1
      BY <3>1
    <3>3. \A x1, x2 : Tail(<<x1, x2>>) = <<x2>>
      OBVIOUS
    <3> SUFFICES ASSUME NEW x1, NEW x2
                 PROVE  /\ Stripped(<<x1, x2>>, x1) = {<<x2>>} /\ Len(<<x1, x2>>) = 2
                        /\ Head(<<x1, x2>>) = x1 /\ Tail(<<x1, x2>>) = <<x2>>
      OBVIOUS
    <3> DEFINE two == <<x1, x2>>
    <3>4. Len(two) = 2 /\ Head(two) = x1 /\ Tail(two) = <<x2>>
      BY <3>1, <3>2, <3>3
    <3> HIDE DEF two
    <3>5. Stripped(two, x1) = {<<x2>>}
      <4>1. Len(two) > 1 /\ Head(two) = x1
        BY <3>4
      <4>2. Stripped(two, x1) = {Tail(two)}
        BY <4>1, Zenon DEF Stripped
      <4> QED BY <3>4, <4>2, Zenon
    <3> QED BY <3>4, <3>5 DEF two
  <2>7. x \notin ToSet(LogitNames)
    <3>1. Stripped(ContextLogits, "context") # {} /\ Stripped(GenerationLogits, "generation") # {}
      BY <2>6 DEF ContextLogits, GenerationLogits
    <3> QED BY <1>7, <2>4, <3>1
  <2>8. LookupName(b) = <<"logits">> /\ names[i] = <<"logits">>
    BY <1>3, <1>4, <1>7, <2>2, <2>5, <2>7
  <2>9. a # <<"logits">>
    <3>1. Len(<<"logits">>) = 1
      OBVIOUS
    <3> QED BY <2>5, <3>1
  <2>10. x = <<"logits">>
    BY <1>3, <2>5, <2>8, <2>9
  <2> DEFINE c == <<pa, "logits">>
             S == STRING
             T == {pa, "logits"}
  <2>11. c \in Seq(T) /\ Len(c) > 1 /\ Head(c) = pa /\ Tail(c) = x
    BY <2>6, <2>10
  <2>12. c \in {ContextLogits, GenerationLogits}
    BY DEF ContextLogits, GenerationLogits
  <2> HIDE DEF S, T, c
  <2>13. a \in Seq(S)
    BY <2>5 DEF S
  <2>14. a = c
    BY <2>5, <2>11, <2>13, SameName
  <2> QED BY <1>7, <2>5, <2>12, <2>14
<1>10. CASE ~(k <= Len(first))
  <2>1. /\ k - Len(first) \in DOMAIN rest /\ list[k] = rest[k - Len(first)]
        /\ m - Len(first) \in DOMAIN rest /\ list[m] = rest[m - Len(first)]
        /\ k - Len(first) < m - Len(first)
    BY <1>2, <1>10
  <2>2. PICK p, q \in 1 .. 3 : /\ p < q /\ LogitOf(result, p, list[k])
                               /\ LogitOf(result, q, list[m])
    BY <2>1, LogitsInOrder
  <2>3. a = LogitNames[p] /\ b = LogitNames[q]
    BY <2>2 DEF LogitOf
  <2>4. q # 3
    <3> SUFFICES ASSUME q = 3 PROVE FALSE
      OBVIOUS
    <3>1. b = EncoderOutput /\ a \in {ContextLogits, GenerationLogits}
      BY <2>2, <2>3 DEF LogitNames
    <3>2. names[i] = EncoderOutput
      BY <1>3, <1>4, <3>1
    <3> QED BY <1>3, <1>4, <3>1, <3>2 DEF ContextLogits, GenerationLogits, EncoderOutput
  <2>5. p = 1 /\ q = 2
    BY <2>2, <2>4
  <2> QED BY <2>3, <2>5 DEF LogitNames
<1> QED BY <1>2, <1>8, <1>9, <1>10

(* A sink holds all of the last output that goes to each of its tensors.    *)
LEMMA WholeOutputs ==
    ASSUME NEW results, IsList(results), \A i \in DOMAIN results : ResultTyped(results[i]),
           NEW tensors \in Seq(SinkTensor), SinkLaidOut(tensors), AllWritten(results, tensors),
           NEW i \in DOMAIN tensors
    PROVE  \E k \in DOMAIN TakenOf(results, tensors) :
               /\ i \in TargetOf(TakenOf(results, tensors)[k].name, NamesOf(tensors))
               /\ \A m \in k + 1 .. Len(TakenOf(results, tensors)) :
                      i \notin TargetOf(TakenOf(results, tensors)[m].name, NamesOf(tensors))
               /\ HoldsValue(Filling(results, tensors), tensors[i],
                             TakenOf(results, tensors)[k].tensor.value)
<1> DEFINE list == TakenOf(results, tensors)
           names == NamesOf(tensors)
           goes(k) == i \in TargetOf(list[k].name, names)
<1>1. PICK n \in Nat : /\ n = Len(list) /\ DOMAIN list = 1 .. n
                       /\ \A k \in 1 .. n : TargetOf(list[k].name, names) # {}
  BY TakenGoSomewhere
<1>2. PICK it : Writing(list, tensors, n, it) /\ Filling(results, tensors) = it[1 .. n]
  BY <1>1, FillingIsFold
<1>3. PICK first \in 1 .. n : goes(first)
  <2>1. i \in UNION {TargetOf(o.name, names) : o \in ToSet(list)}
    BY DEF AllWritten
  <2> QED BY <1>1, <2>1 DEF ToSet
<1> DEFINE S == {d \in Nat : d <= n /\ goes(n - d)}
<1>4. n - first \in S
  <2>1. n - (n - first) = first /\ n - first \in Nat /\ n - first <= n
    BY <1>3
  <2> QED BY <1>3, <2>1
<1>5. Min(S) \in S /\ \A y \in S : Min(S) <= y
  BY <1>4, LeastOf
<1> DEFINE d == Min(S)
<1>6. d \in Nat /\ d <= n - first /\ goes(n - d) /\ \A y \in Nat : y < d => ~(y <= n /\ goes(n - y))
  <2> HIDE DEF goes
  <2>1. d \in Nat /\ goes(n - d) /\ d <= n - first
    BY <1>4, <1>5
  <2>2. ASSUME NEW y \in Nat, y < d, y <= n, goes(n - y) PROVE FALSE
    <3>1. y \in S
      BY <2>2
    <3>2. d <= y
      BY <1>5, <3>1
    <3> HIDE DEF d
    <3> QED BY <2>1, <2>2, <3>2
  <2> QED BY <2>1, <2>2
<1> HIDE DEF S, d
<1> DEFINE k == n - d
<1>7. k \in 1 .. n /\ goes(k)
  BY <1>3, <1>6
<1>8. ASSUME NEW m \in k + 1 .. n PROVE ~goes(m)
  <2> HIDE DEF goes
  <2>1. n - m \in Nat /\ n - m < d /\ n - m <= n /\ n - (n - m) = m
    BY <1>6, <1>7
  <2> QED BY <1>6, <2>1
<1>9. HoldsValue(it[1 .. n], tensors[i], list[k].tensor.value)
  <2> HIDE DEF k, list, names
  <2> QED BY <1>1, <1>2, <1>7, <1>8, LastWins DEF names
<1> HIDE DEF k, list
<1> QED BY <1>1, <1>2, <1>7, <1>8, <1>9 DEF list

(* What DeliveredWhole says of one answer                                   *)
Delivered(results, tensors, mem) ==
    LET names == NamesOf(tensors)
        taken == TakenOf(results, tensors)
        Goes(k, i) == i \in TargetOf(taken[k].name, names)
    IN  /\ \A i \in DOMAIN tensors : \E k \in DOMAIN taken :
              /\ Goes(k, i)
              /\ \A m \in k + 1 .. Len(taken) : ~Goes(m, i)
              /\ \A n \in 0 .. SinkBytes(tensors[i]) - 1 :
                    mem[tensors[i].start + n] = [value |-> taken[k].tensor.value, byte |-> n]
        /\ \A j \in DOMAIN results :
              LET list == Emitted(results[j], names)
              IN  \A k, m \in DOMAIN list :
                      k < m /\ TargetOf(list[k].name, names) \cap TargetOf(list[m].name, names) # {}
                          => /\ list[k].name = ContextLogits
                             /\ list[m].name = GenerationLogits

(* When run has returned a response, every tensor of the sink holds all the *)
(* bytes of the last output that goes to it; and, where outputs are named   *)
(* as the backend names them, the outputs of a result share a tensor only   *)
(* if both logits go to one called logits: no output silently overwrites    *)
(* another, for all sinks whose ranges the executor accepts.                *)
THEOREM SinksDelivered ==
    ASSUME BackendNames
    PROVE  SetupSpec => []DeliveredWhole
<1>1. ASSUME OutputInv, NEW t \in Threads, NEW a \in answer[t], stage[t] = "open"
      PROVE  Delivered(a.results, a.tensors, filled[t])
  <2>1. OpenedOf(t) /\ \E call \in Calls : AnsweredCall(t, call)
    BY <1>1 DEF OutputInv, ResponseOf
  <2>2a. PICK call \in Calls : \E results : AnswerOf(t, call, results) /\ CallAccepted(call)
    BY <2>1 DEF AnsweredCall
  <2>2. PICK results : AnswerOf(t, call, results) /\ CallAccepted(call)
    BY <2>2a
  <2> DEFINE tensors == SinkTensorsOf(call.sink)
  <2>3. /\ results \in Answers(WithSink(call), call.sink)
        /\ IsList(results) /\ \A k \in DOMAIN results : ResultTyped(results[k])
        /\ answer[t] = {[results |-> results, tensors |-> tensors]}
        /\ filled[t] = Filling(results, tensors)
    BY <2>2, AnswersAssumption DEF AnswerOf
  <2>4. a.results = results /\ a.tensors = tensors /\ AllWritten(results, tensors)
    BY <1>1, <2>1, <2>3 DEF OpenedOf
  <2>5. DOMAIN tensors # {} => tensors \in Seq(SinkTensor) /\ SinkLaidOut(tensors)
    <3>1. CASE call.sink = {}
      <4>1. tensors = <<>>
        BY <3>1 DEF SinkTensorsOf
      <4> QED BY <4>1
    <3>2. CASE call.sink # {}
      <4>1. tensors = The(call.sink) /\ The(call.sink) \in call.sink
        BY <3>2, CallsAssumption, OptionIs DEF SinkTensorsOf, CallTyped
      <4> QED BY <2>2, <4>1, CallsAssumption DEF CallTyped, CallAccepted
    <3> QED BY <3>1, <3>2
  <2> HIDE DEF tensors
  <2>6. ASSUME NEW i \in DOMAIN tensors
        PROVE  \E k \in DOMAIN TakenOf(results, tensors) :
                  /\ i \in TargetOf(TakenOf(results, tensors)[k].name, NamesOf(tensors))
                  /\ \A m \in k + 1 .. Len(TakenOf(results, tensors)) :
                         i \notin TargetOf(TakenOf(results, tensors)[m].name, NamesOf(tensors))
                  /\ \A n \in 0 .. SinkBytes(tensors[i]) - 1 :
                        filled[t][tensors[i].start + n]
                            = [value |-> TakenOf(results, tensors)[k].tensor.value, byte |-> n]
    <3>1. \E k \in DOMAIN TakenOf(results, tensors) :
               /\ i \in TargetOf(TakenOf(results, tensors)[k].name, NamesOf(tensors))
               /\ \A m \in k + 1 .. Len(TakenOf(results, tensors)) :
                      i \notin TargetOf(TakenOf(results, tensors)[m].name, NamesOf(tensors))
               /\ HoldsValue(filled[t], tensors[i], TakenOf(results, tensors)[k].tensor.value)
      BY <2>3, <2>4, <2>5, WholeOutputs
    <3> QED BY <3>1 DEF HoldsValue
  <2>7. ASSUME NEW j \in DOMAIN results
        PROVE  \A k, m \in DOMAIN Emitted(results[j], NamesOf(tensors)) :
                   k < m /\ TargetOf(Emitted(results[j], NamesOf(tensors))[k].name, NamesOf(tensors))
                                \cap TargetOf(Emitted(results[j], NamesOf(tensors))[m].name,
                                              NamesOf(tensors)) # {}
                       => /\ Emitted(results[j], NamesOf(tensors))[k].name = ContextLogits
                          /\ Emitted(results[j], NamesOf(tensors))[m].name = GenerationLogits
    <3>1. NamedByBackend(results[j]) /\ ResultTyped(results[j])
      BY <2>3 DEF BackendNames
    <3> QED BY <3>1, OutputsApart
  <2>8. Delivered(results, tensors, filled[t])
    BY <2>6, <2>7 DEF Delivered
  <2> QED BY <2>4, <2>8
<1>2. OutputInv => DeliveredWhole
  BY <1>1 DEF DeliveredWhole, Delivered
<1> QED BY <1>2, ResponsesInvariant, SetupCalls, PTL

-----------------------------------------------------------------------------
(* What WordListBuffer lays out, whatever words it is given.                *)
LEMMA WordsLaidOut ==
    ASSUME NEW S, NEW words \in Seq(Seq(S)), NEW n, n = Len(words), n # 0
    PROVE  /\ WordBuffer(words).tokens = FlattenSeq(words)
           /\ Len(WordBuffer(words).offsets) = n + 1
           /\ \A i \in 1 .. n : /\ WordBuffer(words).offsets[i] = End(words, i - 1)
                                /\ WordBuffer(words).offsets[i + 1] = End(words, i)
<1> DEFINE offsets == [i \in 1 .. n + 1 |-> End(words, i - 1)]
<1>1. n \in Nat /\ words # <<>>
  OBVIOUS
<1>2. WordBuffer(words) = [tokens |-> FlattenSeq(words), offsets |-> offsets]
  BY <1>1 DEF WordBuffer, End
<1>3. \A i \in 0 .. n : End(words, i) \in Nat
  BY EndsOfParts
<1>4. Len(offsets) = n + 1
  <2>1. \A i \in 1 .. n + 1 : i - 1 \in 0 .. n
    BY <1>1
  <2>2. offsets \in [1 .. n + 1 -> Nat]
    BY <1>3, <2>1
  <2>3. n + 1 \in Nat
    BY <1>1
  <2> HIDE DEF offsets
  <2> QED BY <2>2, <2>3, SeqDef, LenProperties
<1>5. ASSUME NEW i \in 1 .. n
      PROVE  offsets[i] = End(words, i - 1) /\ offsets[i + 1] = End(words, i)
  <2>1. i \in 1 .. n + 1 /\ i + 1 \in 1 .. n + 1 /\ i + 1 - 1 = i
    BY <1>1
  <2>2. offsets[i] = End(words, i - 1)
    BY <2>1
  <2>3. offsets[i + 1] = End(words, i + 1 - 1)
    BY <2>1
  <2> QED BY <2>1, <2>2, <2>3
<1> HIDE DEF offsets
<1> QED BY <1>2, <1>4, <1>5

(* Choices come back as they were, and are only refused if one is empty.    *)
LEMMA ChoicesReadBack ==
    ASSUME NEW words, IsWords(words)
    PROVE  LET buffer == WordBuffer(words)
               view == ChoiceView(buffer)
           IN  /\ ReadWords(view, buffer) = words
               /\ <<>> \notin ToSet(words) => WordsReadable(view, buffer)
<1> DEFINE buffer == WordBuffer(words)
           view == ChoiceView(buffer)
           n == Len(words)
<1>0. words \in Seq(Seq(Int))
  BY DEF IsWords
<1>1. CASE words = <<>>
  <2>1. Len(words) = 0 /\ Len(<<>>) = 0
    BY <1>1
  <2>2. FlattenSeq(words) = <<>>
    BY <1>1, <2>1 DEF FlattenSeq
  <2>3. view = [tokens |-> 0, offsets |-> 0]
    BY <1>1, <2>1, <2>2 DEF WordBuffer, ChoiceView
  <2> HIDE DEF view, buffer
  <2> QED BY <1>1, <2>3 DEF WordsReadable, ReadWords, view, buffer
<1>2. CASE words # <<>>
  <2>1. n \in Nat /\ n # 0 /\ n = Len(words)
    BY <1>0, <1>2, EmptySeq
  <2> HIDE DEF n
  <2>2. /\ buffer.tokens = FlattenSeq(words)
        /\ Len(buffer.offsets) = n + 1
        /\ \A i \in 1 .. n : /\ buffer.offsets[i] = End(words, i - 1)
                             /\ buffer.offsets[i + 1] = End(words, i)
    BY <1>0, <2>1, WordsLaidOut
  <2>3. view = [tokens |-> Len(buffer.tokens), offsets |-> n + 1]
    BY <2>2 DEF ChoiceView
  <2>4. <<>> \notin ToSet(words) => WordsReadable(view, buffer)
    <3> SUFFICES ASSUME <<>> \notin ToSet(words) PROVE WordsReadable(view, buffer)
      OBVIOUS
    <3>1. WordsValid(words)
      BY DEF WordsValid, ToSet
    <3>2. /\ WordsReadable(WordView(buffer), buffer)
          /\ WordView(buffer).offsets = Len(words) + 1
      BY <1>0, <1>2, <3>1, WordsReadBack
    <3>3. WordView(buffer).offsets # 0
      BY <2>1, <3>2
    <3> HIDE DEF buffer, view
    <3>4. buffer.tokens # <<>>
      BY <3>3 DEF WordView
    <3>5. WordView(buffer) = view
      BY <3>4 DEF WordView, ChoiceView, view
    <3> QED BY <3>2, <3>5
  <2> HIDE DEF buffer, view
  <2>5. ReadWords(view, buffer) = words
    <3> DEFINE Slot(i) == SubSeq(buffer.tokens, buffer.offsets[i] + 1, buffer.offsets[i + 1])
               got == [i \in 1 .. n |-> Slot(i)]
    <3>1. view.offsets = n + 1 /\ n + 1 - 1 = n /\ n + 1 # 0
      BY <2>1, <2>3
    <3>2. ReadWords(view, buffer) = got
      <4>1. ReadWords(view, buffer) = IF view.offsets = 0 THEN <<>>
                                      ELSE [i \in 1 .. view.offsets - 1 |-> Slot(i)]
        BY DEF ReadWords
      <4>2. 1 .. view.offsets - 1 = 1 .. n /\ view.offsets # 0
        BY <2>1, <3>1
      <4> HIDE DEF Slot
      <4> QED BY <4>1, <4>2, Zenon
    <3>3. ASSUME NEW i \in 1 .. n PROVE got[i] = words[i]
      <4>1. Slot(i) = Between(FlattenSeq(words), End(words, i - 1), End(words, i))
        BY <2>2 DEF Between
      <4>2. PICK k \in Nat : k = i - 1
        BY <2>1
      <4>3. i = k + 1 /\ i <= n
        BY <2>1, <4>2
      <4>4. Between(FlattenSeq(words), End(words, k), End(words, i)) = Nth(words, i)
        BY <1>0, <2>1, <4>3, PartBetweenEnds
      <4>5. Slot(i) = words[i]
        BY <4>1, <4>2, <4>4 DEF Nth
      <4> HIDE DEF Slot
      <4> QED BY <4>5
    <3>4. words = [i \in 1 .. n |-> words[i]]
      BY <1>0, <2>1
    <3> HIDE DEF got
    <3>5. got = [i \in 1 .. n |-> got[i]]
      BY DEF got
    <3> QED BY <3>2, <3>3, <3>4, <3>5
  <2> QED BY <2>4, <2>5 DEF view, buffer
<1> QED BY <1>1, <1>2

-----------------------------------------------------------------------------
(* What the eagle setters make of a DecodingConfig.                         *)

(* What they leave alone, and the types.                                    *)
SetFrom(d, e) ==
    /\ DecodingTyped(e)
    /\ e.mode = d.mode /\ e.lookahead = d.lookahead /\ e.medusa_choices = d.medusa_choices

(* A setter enables eagle, and only changes its fields.                     *)
LEMMA SettingSets ==
    ASSUME NEW d, DecodingTyped(d), NEW setting, SettingTyped(setting)
    PROVE  SetFrom(d, SetEagle(d, setting)) /\ SetEagle(d, setting).eagle_enabled = TRUE
<1> DEFINE new == NewDecoding
           part == NewDecoding.eagle
<1>1. ASSUME NEW choices, IsWords(choices), NEW eagle, PartTyped(eagle, part), NEW e,
             e = [[d EXCEPT !.eagle_enabled = TRUE] EXCEPT !.eagle_choices = choices,
                                                           !.eagle = eagle]
      PROVE  SetFrom(d, e) /\ e.eagle_enabled = TRUE
  <2>1. /\ LikeNew(e, new) /\ e.eagle_enabled = TRUE
        /\ e.eagle_choices = choices /\ e.eagle = eagle
        /\ e.mode = d.mode /\ e.lookahead = d.lookahead /\ e.medusa_choices = d.medusa_choices
    BY <1>1 DEF DecodingTyped, LikeNew, NewDecoding
  <2> HIDE DEF part
  <2> QED BY <1>1, <2>1 DEF SetFrom, DecodingTyped, part
<1>2. IsWords(d.eagle_choices) /\ PartTyped(d.eagle, part)
  BY DEF DecodingTyped
<1> DEFINE enabled == [d EXCEPT !.eagle_enabled = TRUE]
<1>3. enabled.eagle = d.eagle /\ enabled.eagle_choices = d.eagle_choices
  BY DEF DecodingTyped, LikeNew, NewDecoding
<1>4. CASE setting.of = "choices"
  <2>1. IsWords(setting.to)
    BY <1>4 DEF SettingTyped, NewDecoding, Part
  <2>2. SetEagle(d, setting) = [enabled EXCEPT !.eagle_choices = setting.to]
    BY <1>4 DEF SetEagle
  <2>3. SetEagle(d, setting) = [enabled EXCEPT !.eagle_choices = setting.to, !.eagle = d.eagle]
    BY <1>3, <2>2 DEF DecodingTyped, LikeNew, NewDecoding
  <2> QED BY <1>1, <1>2, <2>1, <2>3
<1>5. ASSUME NEW eagle, PartTyped(eagle, part),
             SetEagle(d, setting) = [enabled EXCEPT !.eagle = eagle]
      PROVE  SetFrom(d, SetEagle(d, setting)) /\ SetEagle(d, setting).eagle_enabled = TRUE
  <2>1. SetEagle(d, setting) = [enabled EXCEPT !.eagle_choices = d.eagle_choices, !.eagle = eagle]
    BY <1>3, <1>5 DEF DecodingTyped, LikeNew, NewDecoding
  <2> QED BY <1>1, <1>2, <1>5, <2>1
<1>6. ASSUME NEW flags, NEW eagle, eagle = [d.eagle EXCEPT !.flags = flags]
      PROVE  PartTyped(eagle, part)
  <2>1. /\ LikeNew(eagle, part) /\ eagle.options = d.eagle.options /\ eagle.lists = d.eagle.lists
    BY <1>2, <1>6 DEF PartTyped, LikeNew, NewDecoding, Part
  <2> HIDE DEF part
  <2> QED BY <1>2, <2>1 DEF PartTyped
<1>7. CASE setting.of = "on"
  <2>1. SetEagle(d, setting) = [enabled EXCEPT !.eagle.flags = @ \cup {setting.to}]
    BY <1>7 DEF SetEagle
  <2>2. SetEagle(d, setting)
            = [enabled EXCEPT !.eagle = [d.eagle EXCEPT !.flags = @ \cup {setting.to}]]
    BY <1>3, <2>1
  <2> QED BY <1>5, <1>6, <2>2
<1>8. CASE setting.of = "off"
  <2>1. SetEagle(d, setting) = [enabled EXCEPT !.eagle.flags = @ \ {setting.to}]
    BY <1>8 DEF SetEagle
  <2>2. SetEagle(d, setting)
            = [enabled EXCEPT !.eagle = [d.eagle EXCEPT !.flags = @ \ {setting.to}]]
    BY <1>3, <2>1
  <2> QED BY <1>5, <1>6, <2>2
<1>9. CASE setting.of \notin {"choices", "on", "off"}
  <2>1. SetEagle(d, setting) = [enabled EXCEPT !.eagle.options[setting.of] = {setting.to}]
    BY <1>9 DEF SetEagle
  <2> DEFINE options == [d.eagle.options EXCEPT ![setting.of] = {setting.to}]
             eagle == [d.eagle EXCEPT !.options = options]
  <2>2. SetEagle(d, setting) = [enabled EXCEPT !.eagle = eagle]
    BY <1>3, <2>1
  <2>3. /\ LikeNew(options, part.options) /\ DOMAIN options = DOMAIN d.eagle.options
        /\ \A o \in DOMAIN options : options[o] = {setting.to} \/ options[o] = d.eagle.options[o]
    BY <1>2 DEF PartTyped, LikeNew
  <2>4. \A o \in DOMAIN options : IsOption(options[o])
    BY <1>2, <2>3 DEF PartTyped, IsOption
  <2> HIDE DEF options
  <2>5. /\ LikeNew(eagle, part) /\ eagle.options = options /\ eagle.lists = d.eagle.lists
    BY <1>2 DEF PartTyped, LikeNew, NewDecoding, Part
  <2> HIDE DEF part, eagle
  <2>6. PartTyped(eagle, part)
    BY <1>2, <2>3, <2>4, <2>5 DEF PartTyped
  <2> QED BY <1>5, <2>2, <2>6
<1> QED BY <1>4, <1>7, <1>8, <1>9

(* The config with what the setters at positions up to k do to it.          *)
Setting(d, settings, k, it) ==
    it = [s \in SUBSET (1 .. k) |->
             IF s = {} THEN d ELSE SetEagle(it[s \ {Max(s)}], settings[Max(s)])]

(* There is such a config for every list of setters.                        *)
LEMMA SettingsExist ==
    ASSUME NEW d, NEW settings
    PROVE  \A k \in Nat : \E it : Setting(d, settings, k, it)
<1> DEFINE Has == {k \in Nat : \E it : Setting(d, settings, k, it)}
<1>1. 0 \in Has
  <2> DEFINE it == [s \in SUBSET (1 .. 0) |-> d]
  <2>1. \A s \in SUBSET (1 .. 0) : s = {}
    OBVIOUS
  <2>2. Setting(d, settings, 0, it)
    BY <2>1 DEF Setting
  <2> QED BY <2>2
<1>2. ASSUME NEW k \in Nat, k \in Has PROVE k + 1 \in Has
  <2>1. PICK it : Setting(d, settings, k, it)
    BY <1>2
  <2> DEFINE next == [s \in SUBSET (1 .. k + 1) |->
                         IF k + 1 \in s THEN SetEagle(it[s \ {k + 1}], settings[k + 1])
                         ELSE it[s]]
  <2>2. ASSUME NEW s \in SUBSET (1 .. k + 1)
        PROVE  next[s] = IF s = {} THEN d ELSE SetEagle(next[s \ {Max(s)}], settings[Max(s)])
    <3>1. CASE k + 1 \in s
      <4>1. Max(s) = k + 1
        BY <3>1, LargestPosition
      <4>2. s \ {k + 1} \in SUBSET (1 .. k + 1) /\ k + 1 \notin s \ {k + 1}
        OBVIOUS
      <4>3. next[s \ {k + 1}] = it[s \ {k + 1}]
        BY <4>2
      <4> QED BY <3>1, <4>1, <4>3
    <3>2. CASE s = {}
      <4>1. s \in SUBSET (1 .. k)
        BY <3>2
      <4>2. it[s] = d
        BY <2>1, <3>2, <4>1 DEF Setting
      <4> QED BY <3>2, <4>2
    <3>3. CASE k + 1 \notin s /\ s # {}
      <4>1. s \in SUBSET (1 .. k)
        BY <3>3
      <4>2. it[s] = SetEagle(it[s \ {Max(s)}], settings[Max(s)])
        BY <2>1, <3>3, <4>1 DEF Setting
      <4>3. s \ {Max(s)} \in SUBSET (1 .. k + 1) /\ k + 1 \notin s \ {Max(s)}
        BY <3>3
      <4> QED BY <3>3, <4>2, <4>3
    <3> QED BY <3>1, <3>2, <3>3
  <2>3. Setting(d, settings, k + 1, next)
    BY <2>2 DEF Setting
  <2> HIDE DEF next
  <2> QED BY <2>3
<1> HIDE DEF Has
<1>3. Nat \subseteq Has
  BY <1>1, <1>2, SetInduction
<1> QED BY <1>3 DEF Has

(* WithEagle calls the setters in that order.                               *)
LEMMA SettingIsFold ==
    ASSUME NEW d, NEW settings, NEW n \in Nat, DOMAIN settings = 1 .. n
    PROVE  \E it : Setting(d, settings, n, it) /\ WithEagle(d, settings) = it[1 .. n]
<1>1. \E it : Setting(d, settings, n, it)
  BY SettingsExist
<1> QED BY <1>1 DEF WithEagle, FoldLeft, MapThenFoldSet, Setting

(* What the setters at some of the positions make of it.                    *)
SetBy(d, e, positions) ==
    /\ SetFrom(d, e)
    /\ positions = {} => e = d
    /\ positions # {} => e.eagle_enabled = TRUE

(* Eagle is enabled exactly if one of its setters was called.               *)
LEMMA EagleEnabled ==
    ASSUME NEW d, DecodingTyped(d), ~d.eagle_enabled, NEW settings, IsList(settings),
           \A i \in DOMAIN settings : SettingTyped(settings[i])
    PROVE  /\ SetFrom(d, WithEagle(d, settings))
           /\ WithEagle(d, settings).eagle_enabled <=> settings # <<>>
<1> DEFINE n == Len(settings)
<1>1. n \in Nat /\ DOMAIN settings = 1 .. n /\ (n = 0 <=> settings = <<>>)
  <2>1. PICK S : settings \in Seq(S)
    BY DEF IsList
  <2> QED BY <2>1, EmptySeq
<1> HIDE DEF n
<1>2. PICK it : Setting(d, settings, n, it) /\ WithEagle(d, settings) = it[1 .. n]
  BY <1>1, SettingIsFold
<1> DEFINE Has == {k \in Nat : k <= n => \A s \in SUBSET (1 .. k) : SetBy(d, it[s], s)}
<1>3. 0 \in Has
  <2>1. ASSUME NEW s \in SUBSET (1 .. 0) PROVE s = {} /\ it[s] = d
    <3>1. s = {} /\ s \in SUBSET (1 .. n)
      OBVIOUS
    <3> QED BY <1>2, <3>1 DEF Setting
  <2>2. SetFrom(d, d)
    BY DEF SetFrom
  <2> QED BY <2>1, <2>2 DEF SetBy
<1>4. ASSUME NEW k \in Nat, k \in Has PROVE k + 1 \in Has
  <2> SUFFICES ASSUME k + 1 <= n, NEW s \in SUBSET (1 .. k + 1) PROVE SetBy(d, it[s], s)
    OBVIOUS
  <2>1. k <= n
    BY <1>1
  <2>2. CASE k + 1 \in s
    <3>1. Max(s) = k + 1
      BY <2>2, LargestPosition
    <3>2. s \in SUBSET (1 .. n) /\ s # {} /\ k + 1 \in DOMAIN settings
      BY <1>1, <2>2
    <3>3. it[s] = SetEagle(it[s \ {k + 1}], settings[k + 1])
      BY <1>2, <3>1, <3>2 DEF Setting
    <3>4. s \ {k + 1} \in SUBSET (1 .. k)
      OBVIOUS
    <3>5. SetFrom(d, it[s \ {k + 1}])
      BY <1>4, <2>1, <3>4 DEF SetBy
    <3> DEFINE before == it[s \ {k + 1}]
               after == SetEagle(before, settings[k + 1])
    <3>6. SetFrom(before, after) /\ after.eagle_enabled = TRUE
      BY <3>2, <3>5, SettingSets DEF SetFrom
    <3> HIDE DEF before, after
    <3>7. SetFrom(d, after)
      BY <3>5, <3>6 DEF SetFrom, before
    <3> QED BY <3>2, <3>3, <3>6, <3>7 DEF after, before, SetBy
  <2>3. CASE k + 1 \notin s
    <3>1. s \in SUBSET (1 .. k)
      BY <2>3
    <3> QED BY <1>4, <2>1, <3>1
  <2> QED BY <2>2, <2>3
<1>5. n \in Has
  <2> HIDE DEF Has
  <2>1. Nat \subseteq Has
    BY <1>3, <1>4, SetInduction
  <2> QED BY <1>1, <2>1
<1>6. 1 .. n \in SUBSET (1 .. n) /\ (1 .. n = {} <=> n = 0)
  BY <1>1
<1>7. SetBy(d, it[1 .. n], 1 .. n)
  BY <1>1, <1>5, <1>6
<1> HIDE DEF Has
<1>8. SetFrom(d, it[1 .. n])
  BY <1>7 DEF SetBy
<1>9. CASE settings = <<>>
  <2>1. it[1 .. n] = d
    BY <1>1, <1>6, <1>7, <1>9 DEF SetBy
  <2> QED BY <1>2, <1>8, <1>9, <2>1
<1>10. CASE settings # <<>>
  <2>1. it[1 .. n].eagle_enabled = TRUE
    BY <1>1, <1>6, <1>7, <1>10 DEF SetBy
  <2> QED BY <1>2, <1>8, <1>10, <2>1
<1> QED BY <1>9, <1>10

-----------------------------------------------------------------------------
(* The parts of a configuration, on their way to the shim and back.         *)

(* What a part is made of.                                                  *)
IsPart(new) == DOMAIN new = {"values", "flags", "options", "lists"}

(* Every constructor makes one.                                             *)
LEMMA NewParts ==
    /\ IsPart(NewScheduler) /\ IsPart(NewDynamicBatch.rest) /\ IsPart(NewKvCache)
    /\ IsPart(NewRuntimeDefaults) /\ IsPart(NewParallel.rest) /\ IsPart(NewOrchestrator)
    /\ IsPart(NewPeftCache) /\ IsPart(NewDecoding.eagle) /\ IsPart(NewPerformance)
    /\ IsPart(NewSpeculative) /\ IsPart(NewGuided(0).rest) /\ IsPart(NewCacheTransceiver)
    /\ IsPart(NewBuilder.own) /\ IsPart(NewBuilder.scheduler)
    /\ IsPart(NewBuilder.kv_cache) /\ IsPart(NewBuilder.performance)
<1>1. ASSUME NEW values, NEW flags, NEW options, NEW lists
      PROVE  IsPart(Part(values, flags, options, lists))
  BY DEF IsPart, Part
<1>2. /\ IsPart(NewScheduler) /\ IsPart(NewKvCache) /\ IsPart(NewRuntimeDefaults)
      /\ IsPart(NewOrchestrator) /\ IsPart(NewPeftCache) /\ IsPart(NewPerformance)
      /\ IsPart(NewSpeculative) /\ IsPart(NewCacheTransceiver)
  BY <1>1 DEF NewScheduler, NewKvCache, NewRuntimeDefaults, NewOrchestrator, NewPeftCache,
              NewPerformance, NewSpeculative, NewCacheTransceiver
<1>3. IsPart(NewDynamicBatch.rest) /\ IsPart(NewParallel.rest)
  BY <1>1 DEF NewDynamicBatch, NewParallel
<1>4. IsPart(NewDecoding.eagle) /\ IsPart(NewGuided(0).rest)
  BY <1>1 DEF NewDecoding, NewGuided
<1>5. IsPart(NewBuilder.own)
  BY <1>1 DEF NewBuilder
<1>6. /\ IsPart(NewBuilder.scheduler) /\ IsPart(NewBuilder.kv_cache)
      /\ IsPart(NewBuilder.performance)
  BY <1>2 DEF NewBuilder
<1> QED BY <1>2, <1>3, <1>4, <1>5, <1>6

(* A list comes back, but for an empty one.                                 *)
LEMMA TableReadBack ==
    ASSUME NEW list, IsList(list)
    PROVE  NonEmpty(SubSeq(list, 1, Len(list))) = {list} \ {<<>>}
<1>1. SubSeq(list, 1, Len(list)) = list
  BY WholeList
<1>2. NonEmpty(list) = {list} \ {<<>>}
  BY DEF NonEmpty
<1> QED BY <1>1, <1>2

(* A part is read as it was meant.                                          *)
LEMMA PartReadBack ==
    ASSUME NEW new, IsPart(new), NEW p, PartTyped(p, new)
    PROVE  ReadPart(EncodedPart(p)) = MeantPart(p)
<1> DEFINE L == DOMAIN p.lists
           lists == [l \in L |-> NonEmpty(SubSeq(p.lists[l], 1, Len(p.lists[l])))]
           meant == [l \in L |-> {p.lists[l]} \ {<<>>}]
<1>1. p = [values |-> p.values, flags |-> p.flags, options |-> p.options, lists |-> p.lists]
  BY DEF PartTyped, LikeNew, IsPart
<1>2. GivenAll(Flags(p.options)) = p.options
  <2>1. p.options = [o \in DOMAIN new.options |-> p.options[o]]
    BY DEF PartTyped, LikeNew
  <2>2. \A o \in DOMAIN new.options : IsOption(p.options[o])
    BY <2>1 DEF PartTyped
  <2> QED BY <2>1, <2>2, FlagsReadBack
<1>3. ReadPart(EncodedPart(p))
          = [values |-> p.values, flags |-> p.flags, options |-> GivenAll(Flags(p.options)),
             lists |-> lists]
  BY DEF ReadPart, EncodedPart, ReadList
<1>4. lists = meant
  <2>1. \A l \in L : NonEmpty(SubSeq(p.lists[l], 1, Len(p.lists[l]))) = {p.lists[l]} \ {<<>>}
    BY TableReadBack DEF PartTyped
  <2> QED BY <2>1
<1>5. MeantPart(p) = [values |-> p.values, flags |-> p.flags, options |-> p.options,
                      lists |-> meant]
  <2>1. MeantPart(p) = [p EXCEPT !.lists = meant]
    BY DEF MeantPart
  <2> HIDE DEF meant
  <2> QED BY <1>1, <2>1
<1> QED BY <1>2, <1>3, <1>4, <1>5

(* So is an optional one.                                                   *)
LEMMA PartsReadBack ==
    ASSUME NEW new, IsPart(new), NEW option, PartsTyped(option, new)
    PROVE  SectionOf(PartSection(option), ReadPart) = {MeantPart(p) : p \in option}
<1>1. CASE option = {}
  BY <1>1 DEF SectionOf, PartSection, Section
<1>2. CASE option # {}
  <2>1. PICK p : option = {p} /\ The(option) = p
    BY <1>2, OptionIs DEF PartsTyped
  <2>2. ReadPart(EncodedPart(p)) = MeantPart(p)
    BY <2>1, PartReadBack DEF PartsTyped
  <2>3. SectionOf(PartSection(option), ReadPart) = {ReadPart(EncodedPart(p))}
    BY <1>2, <2>1 DEF SectionOf, PartSection, Section
  <2> QED BY <2>1, <2>2, <2>3
<1> QED BY <1>1, <1>2

(* The sections that have lists or parts of their own, as the shim reads    *)
(* them and as they are meant.                                              *)
DynamicBatchRead(option, table) ==
    SectionOf(Section(option, EncodedDynamicBatch, {}),
        LAMBDA d : [table |-> NonEmpty(SubSeq(table, 1, d.table)), rest |-> ReadPart(d.rest)])

ParallelRead(option) ==
    SectionOf(Section(option, EncodedParallel, {}),
        LAMBDA p : [orchestrator |-> SectionOf(p.orchestrator, ReadPart),
                    rest |-> ReadPart(p.rest)])

GuidedRead(option, vocab) ==
    SectionOf(Section(option, EncodedGuided, {}),
        LAMBDA g : [vocab |-> SubSeq(vocab, 1, g.vocab), rest |-> ReadPart(g.rest)])

(* The batch sizes come back, but for an empty table.                       *)
LEMMA DynamicBatchReadBack ==
    ASSUME NEW option, IsOption(option), \A d \in option : DynamicBatchTyped(d),
           NEW table, table = IF option = {} THEN <<>> ELSE The(option).table
    PROVE  DynamicBatchRead(option, table)
               = {[table |-> {d.table} \ {<<>>}, rest |-> MeantPart(d.rest)] : d \in option}
<1>1. CASE option = {}
  BY <1>1 DEF DynamicBatchRead, SectionOf, Section
<1>2. CASE option # {}
  <2>1. PICK d : option = {d} /\ The(option) = d
    BY <1>2, OptionIs
  <2>2. IsList(d.table) /\ PartTyped(d.rest, NewDynamicBatch.rest)
    BY <2>1 DEF DynamicBatchTyped
  <2>3. ReadPart(EncodedPart(d.rest)) = MeantPart(d.rest)
    BY <2>2, NewParts, PartReadBack
  <2>4. NonEmpty(SubSeq(d.table, 1, Len(d.table))) = {d.table} \ {<<>>}
    BY <2>2, TableReadBack
  <2>5. DynamicBatchRead(option, table) = {[table |-> NonEmpty(SubSeq(d.table, 1, Len(d.table))),
                                     rest |-> ReadPart(EncodedPart(d.rest))]}
    BY <1>2, <2>1 DEF DynamicBatchRead, SectionOf, Section, EncodedDynamicBatch
  <2> QED BY <2>1, <2>3, <2>4, <2>5
<1> QED BY <1>1, <1>2

(* The parallel section comes back, with its orchestrator.                  *)
LEMMA ParallelReadBack ==
    ASSUME NEW option, IsOption(option), \A p \in option : ParallelTyped(p)
    PROVE  ParallelRead(option)
               = {[orchestrator |-> {MeantPart(o) : o \in p.orchestrator},
                   rest |-> MeantPart(p.rest)] : p \in option}
<1>1. CASE option = {}
  BY <1>1 DEF ParallelRead, SectionOf, Section
<1>2. CASE option # {}
  <2>1. PICK p : option = {p} /\ The(option) = p
    BY <1>2, OptionIs
  <2>2. PartsTyped(p.orchestrator, NewOrchestrator) /\ PartTyped(p.rest, NewParallel.rest)
    BY <2>1 DEF ParallelTyped
  <2>3. ReadPart(EncodedPart(p.rest)) = MeantPart(p.rest)
    BY <2>2, NewParts, PartReadBack
  <2>4. SectionOf(PartSection(p.orchestrator), ReadPart)
            = {MeantPart(o) : o \in p.orchestrator}
    BY <2>2, NewParts, PartsReadBack
  <2>5. ParallelRead(option) = {[orchestrator |-> SectionOf(PartSection(p.orchestrator), ReadPart),
                                 rest |-> ReadPart(EncodedPart(p.rest))]}
    BY <1>2, <2>1 DEF ParallelRead, SectionOf, Section, EncodedParallel
  <2> QED BY <2>1, <2>3, <2>4, <2>5
<1> QED BY <1>1, <1>2

(* The guided decoding section comes back, with the vocabulary.             *)
LEMMA GuidedReadBack ==
    ASSUME NEW option, IsOption(option), \A g \in option : GuidedTyped(g),
           NEW vocab, vocab = IF option = {} THEN <<>> ELSE The(option).vocab
    PROVE  GuidedRead(option, vocab)
               = {[vocab |-> g.vocab, rest |-> MeantPart(g.rest)] : g \in option}
<1>1. CASE option = {}
  BY <1>1 DEF GuidedRead, SectionOf, Section
<1>2. CASE option # {}
  <2>1. PICK g : option = {g} /\ The(option) = g
    BY <1>2, OptionIs
  <2>2. IsList(g.vocab) /\ PartTyped(g.rest, NewGuided(0).rest)
    BY <2>1 DEF GuidedTyped
  <2>3. ReadPart(EncodedPart(g.rest)) = MeantPart(g.rest)
    BY <2>2, NewParts, PartReadBack
  <2>4. SubSeq(g.vocab, 1, Len(g.vocab)) = g.vocab
    BY <2>2, WholeList
  <2>5. GuidedRead(option, vocab) = {[vocab |-> SubSeq(g.vocab, 1, Len(g.vocab)),
                               rest |-> ReadPart(EncodedPart(g.rest))]}
    BY <1>2, <2>1 DEF GuidedRead, SectionOf, Section, EncodedGuided
  <2> QED BY <2>1, <2>3, <2>4, <2>5
<1> QED BY <1>1, <1>2

(* The limits of the cache, with the defaults of the runtime where the      *)
(* caller set none.                                                         *)
LEMMA KvCacheReadBack ==
    ASSUME NEW b, PartTyped(b.kv_cache, NewKvCache),
           PartsTyped(b.runtime_defaults, NewRuntimeDefaults)
    PROVE  ReadKvCache([kv_cache |-> EncodedPart(b.kv_cache),
                        runtime_defaults |-> PartSection(b.runtime_defaults)])
               = MeantKvCache(b)
<1> DEFINE kv == MeantPart(b.kv_cache)
           c == [kv_cache |-> EncodedPart(b.kv_cache),
                 runtime_defaults |-> PartSection(b.runtime_defaults)]
           windows == UNION {MeantPart(d).lists["max_attention_window"] : d \in b.runtime_defaults}
           sinks == UNION {MeantPart(d).options["sink_token_length"] : d \in b.runtime_defaults}
<1>1. ReadPart(EncodedPart(b.kv_cache)) = kv
  BY NewParts, PartReadBack
<1>2. MeantKvCache(b)
          = [kv EXCEPT
                !.lists["max_attention_window"] =
                    IF kv.lists["max_attention_window"] # {} THEN kv.lists["max_attention_window"]
                    ELSE windows,
                !.options["sink_token_length"] =
                    IF kv.options["sink_token_length"] # {} THEN kv.options["sink_token_length"]
                    ELSE sinks]
  BY DEF MeantKvCache
<1>3. /\ kv = [f \in DOMAIN kv |-> kv[f]] /\ DOMAIN kv = {"values", "flags", "options", "lists"}
      /\ kv.lists = [l \in DOMAIN kv.lists |-> kv.lists[l]]
      /\ "max_attention_window" \in DOMAIN kv.lists
      /\ kv.options = [o \in DOMAIN kv.options |-> kv.options[o]]
      /\ "sink_token_length" \in DOMAIN kv.options
  <2>1. /\ b.kv_cache = [f \in {"values", "flags", "options", "lists"} |-> b.kv_cache[f]]
        /\ b.kv_cache.lists = [l \in DOMAIN NewKvCache.lists |-> b.kv_cache.lists[l]]
        /\ b.kv_cache.options = [o \in DOMAIN NewKvCache.options |-> b.kv_cache.options[o]]
    BY NewParts DEF PartTyped, LikeNew, IsPart
  <2>2. /\ "max_attention_window" \in DOMAIN NewKvCache.lists
        /\ "sink_token_length" \in DOMAIN NewKvCache.options
    BY DEF NewKvCache, Part
  <2>3. /\ DOMAIN kv = {"values", "flags", "options", "lists"} /\ kv.options = b.kv_cache.options
        /\ kv.lists = [l \in DOMAIN b.kv_cache.lists |-> {b.kv_cache.lists[l]} \ {<<>>}]
        /\ kv = [f \in DOMAIN kv |-> kv[f]]
    BY <2>1 DEF MeantPart
  <2> HIDE DEF kv
  <2> QED BY <2>1, <2>2, <2>3
<1> HIDE DEF kv
<1>4. CASE b.runtime_defaults = {}
  <2>1. ReadKvCache(c) = kv
    BY <1>1, <1>4 DEF ReadKvCache, PartSection, Section
  <2>2. windows = {} /\ sinks = {}
    BY <1>4
  <2> HIDE DEF windows, sinks
  <2>3. MeantKvCache(b)
            = [kv EXCEPT !.lists["max_attention_window"] = kv.lists["max_attention_window"],
                         !.options["sink_token_length"] = kv.options["sink_token_length"]]
    BY <1>2, <2>2
  <2>4. [kv EXCEPT !.lists["max_attention_window"] = kv.lists["max_attention_window"],
                   !.options["sink_token_length"] = kv.options["sink_token_length"]] = kv
    BY <1>3
  <2> QED BY <2>1, <2>3, <2>4
<1>5. CASE b.runtime_defaults # {}
  <2>1. PICK d : b.runtime_defaults = {d} /\ The(b.runtime_defaults) = d
    BY <1>5, OptionIs DEF PartsTyped
  <2>2. ReadPart(EncodedPart(d)) = MeantPart(d)
    BY <2>1, NewParts, PartReadBack DEF PartsTyped
  <2>3. ReadKvCache(c) = FilledKvCache(kv, MeantPart(d))
    <3>1. c.runtime_defaults.has /\ c.runtime_defaults.fields = EncodedPart(d)
      BY <1>5, <2>1 DEF PartSection, Section
    <3>2. c.kv_cache = EncodedPart(b.kv_cache)
      OBVIOUS
    <3> HIDE DEF c
    <3> QED BY <1>1, <2>2, <3>1, <3>2 DEF ReadKvCache
  <2>4. /\ windows = MeantPart(d).lists["max_attention_window"]
        /\ sinks = MeantPart(d).options["sink_token_length"]
    BY <2>1
  <2> HIDE DEF windows, sinks
  <2> DEFINE w == kv.lists["max_attention_window"]
             s == kv.options["sink_token_length"]
  <2>5. PICK defaults : defaults = MeantPart(d)
    OBVIOUS
  <2>6. FilledKvCache(kv, defaults)
            = [kv EXCEPT !.lists["max_attention_window"] = Else(w, windows),
                         !.options["sink_token_length"] = Else(s, sinks)]
    BY <1>3, <2>4, <2>5 DEF FilledKvCache
  <2>7. /\ Else(w, windows) = IF w # {} THEN w ELSE windows
        /\ Else(s, sinks) = IF s # {} THEN s ELSE sinks
    BY DEF Else
  <2>8. MeantKvCache(b) = [kv EXCEPT !.lists["max_attention_window"] = Else(w, windows),
                                     !.options["sink_token_length"] = Else(s, sinks)]
    BY <1>2, <2>7
  <2> QED BY <2>3, <2>5, <2>6, <2>8
<1> QED BY <1>4, <1>5

(* The decoding section comes back, with eagle if a setter enabled it.      *)
LEMMA DecodingReadBack ==
    ASSUME NEW d, DecodingTyped(d), NEW eagle, d.eagle_enabled <=> eagle # <<>>,
           NEW lists, lists.medusa = WordBuffer(d.medusa_choices),
           lists.eagle = WordBuffer(IF d.eagle_enabled THEN d.eagle_choices ELSE <<>>)
    PROVE  ReadDecoding(EncodedDecoding(d), lists) = MeantDecoding(d, eagle)
<1> DEFINE c == EncodedDecoding(d)
           Read(e) == [choices |-> NonEmpty(ReadWords(e.choices, lists.eagle)),
                       rest |-> ReadPart(e.rest)]
<1>1. Given(c.mode) = d.mode
  <2>1. c.mode = Flagged(d.mode)
    BY DEF EncodedDecoding
  <2> QED BY <2>1, GivenBackOption DEF DecodingTyped
<1>2. SectionOf(c.lookahead, LAMBDA l : l) = d.lookahead
  <2>1. CASE d.lookahead = {}
    <3>1. ~c.lookahead.has
      BY <2>1 DEF EncodedDecoding, Section
    <3> HIDE DEF c
    <3> QED BY <2>1, <3>1 DEF SectionOf
  <2>2. CASE d.lookahead # {}
    <3>1. c.lookahead.has /\ c.lookahead.fields = The(d.lookahead)
      BY <2>2 DEF EncodedDecoding, Section
    <3>2. d.lookahead = {The(d.lookahead)}
      BY <2>2, OptionIs DEF DecodingTyped
    <3> HIDE DEF c
    <3> QED BY <3>1, <3>2 DEF SectionOf
  <2> QED BY <2>1, <2>2
<1>3. NonEmpty(ReadWords(c.medusa_choices, lists.medusa)) = {d.medusa_choices} \ {<<>>}
  <2>1. c.medusa_choices = ChoiceView(lists.medusa)
    BY DEF EncodedDecoding
  <2>2. ReadWords(ChoiceView(lists.medusa), lists.medusa) = d.medusa_choices
    BY ChoicesReadBack DEF DecodingTyped
  <2> HIDE DEF c
  <2> QED BY <2>1, <2>2 DEF NonEmpty
<1>4. SectionOf(c.eagle, Read)
          = IF eagle = <<>> THEN {}
            ELSE {[choices |-> {d.eagle_choices} \ {<<>>}, rest |-> MeantPart(d.eagle)]}
  <2>1. CASE eagle = <<>>
    <3>1. ~d.eagle_enabled
      BY <2>1
    <3>2. ~c.eagle.has
      BY <3>1 DEF EncodedDecoding, Section
    <3> HIDE DEF c, Read
    <3> QED BY <2>1, <3>2 DEF SectionOf
  <2>2. CASE eagle # <<>>
    <3>1. d.eagle_enabled /\ lists.eagle = WordBuffer(d.eagle_choices)
      BY <2>2
    <3>2. The({d}) = d /\ {d} # {}
      BY DEF The
    <3>3. /\ c.eagle.has
          /\ c.eagle.fields = [choices |-> ChoiceView(WordBuffer(d.eagle_choices)),
                               rest |-> EncodedPart(d.eagle)]
      BY <3>1, <3>2 DEF EncodedDecoding, Section
    <3>4. SectionOf(c.eagle, Read) = {Read(c.eagle.fields)}
      <4> HIDE DEF c, Read
      <4> QED BY <3>3 DEF SectionOf
    <3>5. ReadWords(ChoiceView(lists.eagle), lists.eagle) = d.eagle_choices
      BY <3>1, ChoicesReadBack DEF DecodingTyped
    <3>6. ReadPart(EncodedPart(d.eagle)) = MeantPart(d.eagle)
      BY NewParts, PartReadBack DEF DecodingTyped
    <3>7. Read(c.eagle.fields) = [choices |-> {d.eagle_choices} \ {<<>>},
                                  rest |-> MeantPart(d.eagle)]
      <4>1. Read(c.eagle.fields)
                = [choices |-> NonEmpty(ReadWords(c.eagle.fields.choices, lists.eagle)),
                   rest |-> ReadPart(c.eagle.fields.rest)]
        OBVIOUS
      <4>2. /\ c.eagle.fields.choices = ChoiceView(lists.eagle)
            /\ c.eagle.fields.rest = EncodedPart(d.eagle)
        BY <3>1, <3>3
      <4>3. NonEmpty(d.eagle_choices) = {d.eagle_choices} \ {<<>>}
        BY DEF NonEmpty
      <4> HIDE DEF c, Read
      <4> QED BY <3>5, <3>6, <4>1, <4>2, <4>3
    <3> HIDE DEF c, Read
    <3> QED BY <2>2, <3>4, <3>7
  <2> QED BY <2>1, <2>2
<1>5. ReadDecoding(c, lists)
          = [mode |-> Given(c.mode), lookahead |-> SectionOf(c.lookahead, LAMBDA l : l),
             medusa_choices |-> NonEmpty(ReadWords(c.medusa_choices, lists.medusa)),
             eagle |-> SectionOf(c.eagle, Read)]
  <2> HIDE DEF c
  <2> QED BY DEF ReadDecoding
<1> HIDE DEF c, Read
<1>6. ReadDecoding(c, lists)
          = [mode |-> d.mode, lookahead |-> d.lookahead,
             medusa_choices |-> {d.medusa_choices} \ {<<>>},
             eagle |-> IF eagle = <<>> THEN {}
                       ELSE {[choices |-> {d.eagle_choices} \ {<<>>}, rest |-> MeantPart(d.eagle)]}]
  BY <1>1, <1>2, <1>3, <1>4, <1>5
<1> QED BY <1>6 DEF MeantDecoding, c

-----------------------------------------------------------------------------
(* The whole configuration.                                                 *)

(* A part of the builder itself, with other options that are options.       *)
LEMMA OptionsTyped ==
    ASSUME NEW new, IsPart(new), NEW p, PartTyped(p, new),
           NEW o, NEW option, IsOption(option), NEW q,
           q = [p EXCEPT !.options[o] = option]
    PROVE  PartTyped(q, new)
<1> DEFINE options == [p.options EXCEPT ![o] = option]
<1>1. q = [p EXCEPT !.options = options]
  BY DEF PartTyped, LikeNew, IsPart
<1>2. /\ LikeNew(options, new.options) /\ DOMAIN options = DOMAIN p.options
      /\ \A f \in DOMAIN options : options[f] = option \/ options[f] = p.options[f]
  BY DEF PartTyped, LikeNew
<1> HIDE DEF options
<1>3. \A f \in DOMAIN options : IsOption(options[f])
  BY <1>2 DEF PartTyped
<1>4. LikeNew(q, new) /\ q.options = options /\ q.lists = p.lists
  BY <1>1 DEF PartTyped, LikeNew, IsPart
<1> QED BY <1>2, <1>3, <1>4 DEF PartTyped

(* What the engine provides leaves the types alone.                         *)
LEMMA DefaultedTyped ==
    ASSUME NEW b, BuilderTyped(b), NEW e, IsList(e.outputs)
    PROVE  /\ BuilderTyped(Defaulted(b, e))
           /\ Defaulted(b, e).decoding = b.decoding /\ Defaulted(b, e).guided = b.guided
           /\ Defaulted(b, e).outputs = IF b.outputs = <<>> THEN InferredOutputs(e) ELSE b.outputs
<1> DEFINE size == Else(b.own.options["max_batch_size"], {e.max_batch_size})
           tokens == Else(b.own.options["max_num_tokens"], {e.max_num_tokens})
           list == IF b.outputs = <<>> THEN InferredOutputs(e) ELSE b.outputs
           first == [b.own EXCEPT !.options["max_batch_size"] = size]
           own == [first EXCEPT !.options["max_num_tokens"] = tokens]
           d == Defaulted(b, e)
<1>1. /\ PartTyped(b.own, NewBuilder.own)
      /\ \A o \in DOMAIN NewBuilder.own.options : IsOption(b.own.options[o])
      /\ DOMAIN b.own.options = DOMAIN NewBuilder.own.options
      /\ DOMAIN b.own = {"values", "flags", "options", "lists"}
  BY NewParts DEF BuilderTyped, PartTyped, LikeNew, IsPart
<1>2. /\ "max_batch_size" \in DOMAIN NewBuilder.own.options
      /\ "max_num_tokens" \in DOMAIN NewBuilder.own.options
  BY DEF NewBuilder, Part
<1>3. IsOption(size) /\ IsOption(tokens)
  BY <1>1, <1>2 DEF Else, IsOption
<1>4. IsList(list)
  <2>1. IsList(InferredOutputs(e))
    BY SelectedElements DEF InferredOutputs
  <2> QED BY <2>1 DEF BuilderTyped
<1>5. DOMAIN b = DOMAIN NewBuilder /\ b = [f \in DOMAIN NewBuilder |-> b[f]]
  BY DEF BuilderTyped, LikeNew
<1>6. "own" \in DOMAIN NewBuilder /\ "outputs" \in DOMAIN NewBuilder
  BY DEF NewBuilder
<1>7. d = [b EXCEPT !.own = own, !.outputs = list]
  <2> HIDE DEF list
  <2>1. d = [b EXCEPT !.own.options["max_batch_size"] = size,
                      !.own.options["max_num_tokens"] = Else(first.options["max_num_tokens"],
                                                             {e.max_num_tokens}),
                      !.outputs = list]
    BY <1>1, <1>2, <1>5, <1>6 DEF Defaulted, list
  <2>2. first.options["max_num_tokens"] = b.own.options["max_num_tokens"]
    BY <1>1, <1>2
  <2> HIDE DEF size, d
  <2>3. d = [b EXCEPT !.own.options["max_batch_size"] = size,
                      !.own.options["max_num_tokens"] = tokens, !.outputs = list]
    BY <2>1, <2>2
  <2> HIDE DEF tokens
  <2> QED BY <1>1, <1>2, <1>5, <1>6, <2>3
<1>8. PartTyped(own, NewBuilder.own)
  <2>1. PartTyped(first, NewBuilder.own)
    BY <1>1, <1>3, NewParts, OptionsTyped
  <2> HIDE DEF first, size, tokens
  <2> QED BY <1>3, <2>1, NewParts, OptionsTyped
<1> HIDE DEF own, list, d
<1>9. LikeNew(d, NewBuilder) /\ d.own = own /\ d.outputs = list
      /\ \A f \in DOMAIN NewBuilder \ {"own", "outputs"} : d[f] = b[f]
  BY <1>5, <1>6, <1>7 DEF LikeNew
<1>10. /\ d.decoding = b.decoding /\ d.guided = b.guided /\ d.dynamic_batch = b.dynamic_batch
       /\ d.parallel = b.parallel /\ d.runtime_defaults = b.runtime_defaults
       /\ d.peft_cache = b.peft_cache /\ d.speculative = b.speculative
       /\ d.cache_transceiver = b.cache_transceiver /\ d.scheduler = b.scheduler
       /\ d.kv_cache = b.kv_cache /\ d.performance = b.performance
  BY <1>9 DEF NewBuilder
<1>11. BuilderTyped(d)
  BY <1>4, <1>8, <1>9, <1>10 DEF BuilderTyped
<1> QED BY <1>9, <1>10, <1>11 DEF d, list

(* So do the eagle setters.                                                 *)
LEMMA BuilderOfTyped ==
    ASSUME NEW setup, SetupTyped(setup)
    PROVE  /\ BuilderTyped(BuilderOf(setup))
           /\ \A d \in BuilderOf(setup).decoding : d.eagle_enabled <=> setup.eagle # <<>>
           /\ BuilderOf(setup).guided = setup.builder.guided
           /\ BuilderOf(setup).outputs = setup.builder.outputs
<1> DEFINE b == setup.builder
           decodings == {WithEagle(d, setup.eagle) : d \in b.decoding}
           q == BuilderOf(setup)
<1>1. q = [b EXCEPT !.decoding = decodings]
  BY DEF BuilderOf
<1>2. ASSUME NEW d \in decodings PROVE DecodingTyped(d) /\ (d.eagle_enabled <=> setup.eagle # <<>>)
  <2>1. PICK from \in b.decoding : d = WithEagle(from, setup.eagle)
    OBVIOUS
  <2>2. DecodingTyped(from) /\ ~from.eagle_enabled
    BY <2>1 DEF SetupTyped, BuilderTyped
  <2>3. /\ SetFrom(from, WithEagle(from, setup.eagle))
        /\ WithEagle(from, setup.eagle).eagle_enabled <=> setup.eagle # <<>>
    BY <2>2, EagleEnabled DEF SetupTyped
  <2> QED BY <2>1, <2>3 DEF SetFrom
<1>3. IsOption(decodings)
  BY DEF SetupTyped, BuilderTyped, IsOption
<1>4. "decoding" \in DOMAIN NewBuilder
  BY DEF NewBuilder
<1> HIDE DEF decodings, q
<1>5. LikeNew(q, NewBuilder) /\ q.decoding = decodings
      /\ \A f \in DOMAIN NewBuilder \ {"decoding"} : q[f] = b[f]
  BY <1>1, <1>4 DEF LikeNew, SetupTyped, BuilderTyped
<1>6. /\ q.own = b.own /\ q.outputs = b.outputs /\ q.guided = b.guided
      /\ q.dynamic_batch = b.dynamic_batch
      /\ q.parallel = b.parallel /\ q.runtime_defaults = b.runtime_defaults
      /\ q.peft_cache = b.peft_cache /\ q.speculative = b.speculative
      /\ q.cache_transceiver = b.cache_transceiver /\ q.scheduler = b.scheduler
      /\ q.kv_cache = b.kv_cache /\ q.performance = b.performance
  BY <1>5 DEF NewBuilder
<1>7. BuilderTyped(b)
  BY DEF SetupTyped
<1> HIDE DEF b
<1>8. BuilderTyped(q)
  BY <1>2, <1>3, <1>5, <1>6, <1>7 DEF BuilderTyped
<1> QED BY <1>2, <1>5, <1>6, <1>8 DEF q, b

(* What the shim reads of a builder.                                        *)
ReadOf(b) == ConfigRead(ConfigEncoded(b), ConfigLists(b))

(* A configuration is read as it was meant, section by section.             *)
LEMMA ConfigReadBack ==
    ASSUME NEW b, BuilderTyped(b), NEW eagle,
           \A d \in b.decoding : d.eagle_enabled <=> eagle # <<>>
    PROVE  ReadOf(b) = BuilderMeant(b, eagle)
<1> DEFINE fields == {"own", "scheduler", "dynamic_batch", "kv_cache", "parallel", "peft_cache",
                      "decoding", "performance", "speculative", "guided", "cache_transceiver",
                      "outputs"}
           got == ReadOf(b)
           meant == BuilderMeant(b, eagle)
           c == ConfigEncoded(b)
           lists == ConfigLists(b)
<1>1. got = [f \in fields |-> got[f]]
  BY DEF ReadOf, ConfigRead
<1>2. meant = [f \in fields |-> meant[f]]
  BY DEF BuilderMeant
<1>3. /\ got.own = meant.own /\ got.scheduler = meant.scheduler
      /\ got.performance = meant.performance
  <2>1. /\ PartTyped(b.own, NewBuilder.own) /\ PartTyped(b.scheduler, NewBuilder.scheduler)
        /\ PartTyped(b.performance, NewBuilder.performance)
    BY DEF BuilderTyped
  <2>2. /\ ReadPart(EncodedPart(b.own)) = MeantPart(b.own)
        /\ ReadPart(EncodedPart(b.scheduler)) = MeantPart(b.scheduler)
        /\ ReadPart(EncodedPart(b.performance)) = MeantPart(b.performance)
    BY <2>1, NewParts, PartReadBack
  <2>3. /\ got.own = ReadPart(EncodedPart(b.own))
        /\ got.scheduler = ReadPart(EncodedPart(b.scheduler))
        /\ got.performance = ReadPart(EncodedPart(b.performance))
    BY DEF ReadOf, ConfigRead, ConfigEncoded
  <2>4. /\ meant.own = MeantPart(b.own) /\ meant.scheduler = MeantPart(b.scheduler)
        /\ meant.performance = MeantPart(b.performance)
    BY DEF BuilderMeant
  <2> HIDE DEF got, meant
  <2> QED BY <2>2, <2>3, <2>4
<1>4. /\ got.peft_cache = meant.peft_cache /\ got.speculative = meant.speculative
      /\ got.cache_transceiver = meant.cache_transceiver
  <2>1. /\ SectionOf(PartSection(b.peft_cache), ReadPart) = {MeantPart(p) : p \in b.peft_cache}
        /\ SectionOf(PartSection(b.speculative), ReadPart) = {MeantPart(p) : p \in b.speculative}
        /\ SectionOf(PartSection(b.cache_transceiver), ReadPart)
               = {MeantPart(p) : p \in b.cache_transceiver}
    BY NewParts, PartsReadBack DEF BuilderTyped
  <2>2. /\ got.peft_cache = SectionOf(PartSection(b.peft_cache), ReadPart)
        /\ got.speculative = SectionOf(PartSection(b.speculative), ReadPart)
        /\ got.cache_transceiver = SectionOf(PartSection(b.cache_transceiver), ReadPart)
    BY DEF ReadOf, ConfigRead, ConfigEncoded
  <2>3. /\ meant.peft_cache = {MeantPart(p) : p \in b.peft_cache}
        /\ meant.speculative = {MeantPart(p) : p \in b.speculative}
        /\ meant.cache_transceiver = {MeantPart(p) : p \in b.cache_transceiver}
    BY DEF BuilderMeant
  <2> HIDE DEF got, meant
  <2> QED BY <2>1, <2>2, <2>3
<1>5. got.dynamic_batch = meant.dynamic_batch
  <2>1. got.dynamic_batch = DynamicBatchRead(b.dynamic_batch, lists.table)
    BY DEF ReadOf, ConfigRead, ConfigEncoded, DynamicBatchRead
  <2>2. DynamicBatchRead(b.dynamic_batch, lists.table)
            = {[table |-> {d.table} \ {<<>>}, rest |-> MeantPart(d.rest)] : d \in b.dynamic_batch}
    <3>1. lists.table = IF b.dynamic_batch = {} THEN <<>> ELSE The(b.dynamic_batch).table
      BY DEF ConfigLists
    <3> HIDE DEF lists
    <3> QED BY <3>1, DynamicBatchReadBack DEF BuilderTyped
  <2>3. meant.dynamic_batch
            = {[table |-> {d.table} \ {<<>>}, rest |-> MeantPart(d.rest)] : d \in b.dynamic_batch}
    BY DEF BuilderMeant
  <2> HIDE DEF got, meant, lists
  <2> QED BY <2>1, <2>2, <2>3
<1>6. got.parallel = meant.parallel
  <2>1. got.parallel = ParallelRead(b.parallel)
    BY DEF ReadOf, ConfigRead, ConfigEncoded, ParallelRead
  <2>2. ParallelRead(b.parallel)
            = {[orchestrator |-> {MeantPart(o) : o \in p.orchestrator},
                rest |-> MeantPart(p.rest)] : p \in b.parallel}
    BY ParallelReadBack DEF BuilderTyped
  <2>3. meant.parallel = {[orchestrator |-> {MeantPart(o) : o \in p.orchestrator},
                           rest |-> MeantPart(p.rest)] : p \in b.parallel}
    BY DEF BuilderMeant
  <2> HIDE DEF got, meant
  <2> QED BY <2>1, <2>2, <2>3
<1>7. got.guided = meant.guided
  <2>1. got.guided = GuidedRead(b.guided, lists.vocab)
    BY DEF ReadOf, ConfigRead, ConfigEncoded, GuidedRead
  <2>2. GuidedRead(b.guided, lists.vocab)
            = {[vocab |-> g.vocab, rest |-> MeantPart(g.rest)] : g \in b.guided}
    <3>1. lists.vocab = IF b.guided = {} THEN <<>> ELSE The(b.guided).vocab
      BY DEF ConfigLists
    <3> HIDE DEF lists
    <3> QED BY <3>1, GuidedReadBack DEF BuilderTyped
  <2>3. meant.guided = {[vocab |-> g.vocab, rest |-> MeantPart(g.rest)] : g \in b.guided}
    BY DEF BuilderMeant
  <2> HIDE DEF got, meant, lists
  <2> QED BY <2>1, <2>2, <2>3
<1>8. got.kv_cache = meant.kv_cache
  <2> DEFINE kv == [kv_cache |-> EncodedPart(b.kv_cache),
                    runtime_defaults |-> PartSection(b.runtime_defaults)]
  <2>1. /\ PartTyped(b.kv_cache, NewKvCache)
        /\ PartsTyped(b.runtime_defaults, NewRuntimeDefaults)
    <3>1. PartTyped(b.kv_cache, NewBuilder.kv_cache)
      BY DEF BuilderTyped
    <3>2. NewBuilder.kv_cache = NewKvCache
      BY DEF NewBuilder
    <3> QED BY <3>1, <3>2 DEF BuilderTyped
  <2>2. ReadKvCache(kv) = MeantKvCache(b)
    BY <2>1, KvCacheReadBack
  <2>3. got.kv_cache = ReadKvCache(c)
    BY DEF ReadOf, ConfigRead
  <2>4. ReadKvCache(c) = ReadKvCache(kv)
    <3>1. c.kv_cache = kv.kv_cache /\ c.runtime_defaults = kv.runtime_defaults
      BY DEF ConfigEncoded
    <3> HIDE DEF c, kv
    <3> QED BY <3>1 DEF ReadKvCache
  <2>5. meant.kv_cache = MeantKvCache(b)
    BY DEF BuilderMeant
  <2> HIDE DEF got, meant, kv, c
  <2> QED BY <2>2, <2>3, <2>4, <2>5
<1>9. got.decoding = meant.decoding
  <2>1. got.decoding = SectionOf(c.decoding, LAMBDA d : ReadDecoding(d, lists))
    BY DEF ReadOf, ConfigRead
  <2>2. meant.decoding = {MeantDecoding(d, eagle) : d \in b.decoding}
    BY DEF BuilderMeant
  <2> HIDE DEF got, meant
  <2>3. CASE b.decoding = {}
    <3>1. ~c.decoding.has
      BY <2>3 DEF ConfigEncoded, Section
    <3> HIDE DEF c, lists
    <3>2. got.decoding = {}
      BY <2>1, <3>1 DEF SectionOf
    <3> QED BY <2>2, <2>3, <3>2
  <2>4. CASE b.decoding # {}
    <3>1. PICK d : b.decoding = {d} /\ The(b.decoding) = d
      BY <2>4, OptionIs DEF BuilderTyped
    <3>2. DecodingTyped(d) /\ (d.eagle_enabled <=> eagle # <<>>)
      BY <3>1 DEF BuilderTyped
    <3>3. /\ lists.medusa = WordBuffer(d.medusa_choices)
          /\ lists.eagle = WordBuffer(IF d.eagle_enabled THEN d.eagle_choices ELSE <<>>)
      BY <2>4, <3>1 DEF ConfigLists
    <3>4. c.decoding.has /\ c.decoding.fields = EncodedDecoding(d)
      BY <2>4, <3>1 DEF ConfigEncoded, Section
    <3> HIDE DEF c, lists
    <3>5. ReadDecoding(EncodedDecoding(d), lists) = MeantDecoding(d, eagle)
      BY <3>2, <3>3, DecodingReadBack
    <3>6. got.decoding = {ReadDecoding(c.decoding.fields, lists)}
      BY <2>1, <3>4 DEF SectionOf
    <3> QED BY <2>2, <3>1, <3>4, <3>5, <3>6
  <2> QED BY <2>3, <2>4
<1>10. got.outputs = meant.outputs
  <2>1. got.outputs = SubSeq(b.outputs, 1, Len(b.outputs))
    BY DEF ReadOf, ConfigRead, ConfigEncoded, ConfigLists
  <2>2. meant.outputs = b.outputs
    BY DEF BuilderMeant
  <2> HIDE DEF got, meant
  <2> QED BY <2>1, <2>2, WholeList DEF BuilderTyped
<1> HIDE DEF got, meant
<1>11. \A f \in fields : got[f] = meant[f]
  BY <1>3, <1>4, <1>5, <1>6, <1>7, <1>8, <1>9, <1>10
<1> HIDE DEF fields
<1> QED BY <1>1, <1>2, <1>11 DEF got, meant

(* What makes the shim throw: a choice without tokens, an empty name.       *)
LEMMA ConfigRefused ==
    ASSUME NEW b, BuilderTyped(b), ~ConfigReadable(ConfigEncoded(b), ConfigLists(b))
    PROVE  \/ \E d \in b.decoding : <<>> \in ToSet(d.medusa_choices) \cup ToSet(d.eagle_choices)
           \/ \E g \in b.guided : <<>> \in ToSet(g.vocab)
           \/ <<>> \in ToSet(b.outputs)
<1> SUFFICES ASSUME \A d \in b.decoding : /\ <<>> \notin ToSet(d.medusa_choices)
                                          /\ <<>> \notin ToSet(d.eagle_choices),
                    \A g \in b.guided : <<>> \notin ToSet(g.vocab),
                    <<>> \notin ToSet(b.outputs)
             PROVE  ConfigReadable(ConfigEncoded(b), ConfigLists(b))
  OBVIOUS
<1> DEFINE c == ConfigEncoded(b)
           lists == ConfigLists(b)
<1>1. ASSUME NEW names, IsList(names), <<>> \notin ToSet(names)
      PROVE  OutputsReadable(Len(names), names)
  <2>1. DOMAIN names = 1 .. Len(names)
    BY <1>1 DEF IsList
  <2> QED BY <1>1, <2>1 DEF OutputsReadable, ToSet
<1>2. OutputsReadable(c.outputs, lists.outputs)
  <2>1. c.outputs = Len(b.outputs) /\ lists.outputs = b.outputs
    BY DEF ConfigEncoded, ConfigLists
  <2> HIDE DEF c, lists
  <2> QED BY <1>1, <2>1 DEF BuilderTyped
<1>3. c.guided.has => OutputsReadable(c.guided.fields.vocab, lists.vocab)
  <2>1. CASE b.guided = {}
    <3>1. ~c.guided.has
      BY <2>1 DEF ConfigEncoded, Section
    <3> QED BY <3>1
  <2>2. CASE b.guided # {}
    <3>1. PICK g : b.guided = {g} /\ The(b.guided) = g
      BY <2>2, OptionIs DEF BuilderTyped
    <3>2. c.guided.fields.vocab = Len(g.vocab) /\ lists.vocab = g.vocab
      BY <2>2, <3>1 DEF ConfigEncoded, ConfigLists, Section, EncodedGuided
    <3> HIDE DEF c, lists
    <3>3. IsList(g.vocab)
      BY <3>1 DEF BuilderTyped, GuidedTyped
    <3>4. OutputsReadable(Len(g.vocab), g.vocab)
      BY <1>1, <3>1, <3>3
    <3> QED BY <3>2, <3>4
  <2> QED BY <2>1, <2>2
<1>4. c.decoding.has =>
          /\ WordsReadable(c.decoding.fields.medusa_choices, lists.medusa)
          /\ c.decoding.fields.eagle.has =>
                 WordsReadable(c.decoding.fields.eagle.fields.choices, lists.eagle)
  <2>1. CASE b.decoding = {}
    <3>1. ~c.decoding.has
      BY <2>1 DEF ConfigEncoded, Section
    <3> QED BY <3>1
  <2>2. CASE b.decoding # {}
    <3>1. PICK d : b.decoding = {d} /\ The(b.decoding) = d
      BY <2>2, OptionIs DEF BuilderTyped
    <3>2. /\ DecodingTyped(d)
          /\ <<>> \notin ToSet(d.medusa_choices) /\ <<>> \notin ToSet(d.eagle_choices)
      BY <3>1 DEF BuilderTyped
    <3>3. /\ lists.medusa = WordBuffer(d.medusa_choices)
          /\ lists.eagle = WordBuffer(IF d.eagle_enabled THEN d.eagle_choices ELSE <<>>)
      BY <2>2, <3>1 DEF ConfigLists
    <3>4. c.decoding.fields = EncodedDecoding(d)
      BY <2>2, <3>1 DEF ConfigEncoded, Section
    <3>5. EncodedDecoding(d).medusa_choices = ChoiceView(lists.medusa)
      BY <3>3 DEF EncodedDecoding
    <3>6. WordsReadable(ChoiceView(lists.medusa), lists.medusa)
      BY <3>2, <3>3, ChoicesReadBack DEF DecodingTyped
    <3>7. ASSUME EncodedDecoding(d).eagle.has
          PROVE  WordsReadable(EncodedDecoding(d).eagle.fields.choices, lists.eagle)
      <4>1. d.eagle_enabled
        BY <3>7 DEF EncodedDecoding, Section
      <4>2. The({d}) = d /\ {d} # {}
        BY DEF The
      <4>3. EncodedDecoding(d).eagle.fields.choices = ChoiceView(WordBuffer(d.eagle_choices))
        BY <4>1, <4>2 DEF EncodedDecoding, Section
      <4>4. lists.eagle = WordBuffer(d.eagle_choices)
        BY <3>3, <4>1
      <4>5. WordsReadable(ChoiceView(WordBuffer(d.eagle_choices)), WordBuffer(d.eagle_choices))
        BY <3>2, ChoicesReadBack DEF DecodingTyped
      <4> HIDE DEF lists
      <4> QED BY <4>3, <4>4, <4>5
    <3> HIDE DEF c, lists
    <3> QED BY <3>4, <3>5, <3>6, <3>7
  <2> QED BY <2>1, <2>2
<1> HIDE DEF c, lists
<1>5. ConfigReadable(c, lists)
  BY <1>2, <1>3, <1>4 DEF ConfigReadable
<1> QED BY <1>5 DEF c, lists

(* The executor runs with exactly the configuration the caller set, with    *)
(* the limits and outputs of the engine where it set none, and its          *)
(* constructor only throws for a choice without tokens or an empty name.    *)
THEOREM ConfiguredAsMeant == SetupSpec => []ConfiguredAsAsked
<1>1. ASSUME NEW setup \in Setups
      PROVE  LET b == Defaulted(BuilderOf(setup), setup.engine)
             IN  /\ ReadOf(b) = ConfigMeant(setup)
                 /\ ~ConfigReadable(ConfigEncoded(b), ConfigLists(b)) =>
                        \/ \E d \in BuilderOf(setup).decoding :
                              <<>> \in ToSet(d.medusa_choices) \cup ToSet(d.eagle_choices)
                        \/ \E g \in setup.builder.guided : <<>> \in ToSet(g.vocab)
                        \/ <<>> \in ToSet(Defaulted(setup.builder, setup.engine).outputs)
  <2> DEFINE given == BuilderOf(setup)
             b == Defaulted(given, setup.engine)
  <2>1. SetupTyped(setup) /\ BuilderTyped(setup.builder) /\ IsList(setup.engine.outputs)
    BY SetupsAssumption DEF SetupTyped
  <2>2. /\ BuilderTyped(given) /\ given.guided = setup.builder.guided
        /\ given.outputs = setup.builder.outputs
        /\ \A d \in given.decoding : d.eagle_enabled <=> setup.eagle # <<>>
    BY <2>1, BuilderOfTyped
  <2> HIDE DEF given
  <2>3. /\ BuilderTyped(b) /\ b.decoding = given.decoding /\ b.guided = given.guided
        /\ b.outputs = IF given.outputs = <<>> THEN InferredOutputs(setup.engine)
                       ELSE given.outputs
    BY <2>1, <2>2, DefaultedTyped
  <2>4. Defaulted(setup.builder, setup.engine).outputs
            = IF setup.builder.outputs = <<>> THEN InferredOutputs(setup.engine)
              ELSE setup.builder.outputs
    BY <2>1, DefaultedTyped
  <2>5. ConfigMeant(setup) = BuilderMeant(b, setup.eagle)
    BY DEF ConfigMeant, given
  <2> HIDE DEF b
  <2>6. ReadOf(b) = BuilderMeant(b, setup.eagle)
    BY <2>2, <2>3, ConfigReadBack
  <2>7. ~ConfigReadable(ConfigEncoded(b), ConfigLists(b)) =>
            \/ \E d \in b.decoding : <<>> \in ToSet(d.medusa_choices) \cup ToSet(d.eagle_choices)
            \/ \E g \in b.guided : <<>> \in ToSet(g.vocab)
            \/ <<>> \in ToSet(b.outputs)
    BY <2>3, ConfigRefused
  <2>8. b.outputs = Defaulted(setup.builder, setup.engine).outputs
    BY <2>2, <2>3, <2>4
  <2> QED BY <2>2, <2>3, <2>5, <2>6, <2>7, <2>8 DEF b, given
<1>2. SetupInit => ConfiguredAsAsked
  BY DEF SetupInit, ConfiguredAsAsked
<1>3. ASSUME ConfiguredAsAsked, [SetupNext]_allVars
      PROVE  ConfiguredAsAsked'
  <2>1. CASE Create
    <3> DEFINE BOf(setup) == Defaulted(BuilderOf(setup), setup.engine)
               Readable(setup) == ConfigReadable(ConfigEncoded(BOf(setup)), ConfigLists(BOf(setup)))
    <3>1. PICK setup \in Setups :
             IF Readable(setup)
             THEN /\ configured' = {[setup |-> setup, read |-> {ReadOf(BOf(setup))}]}
                  /\ phase' = "created"
             ELSE /\ configured' = {[setup |-> setup, read |-> {}]}
                  /\ phase' = "threw"
      BY <2>1 DEF Create, ReadOf
    <3>2. /\ ReadOf(BOf(setup)) = ConfigMeant(setup)
          /\ ~Readable(setup) =>
                 \/ \E d \in BuilderOf(setup).decoding :
                       <<>> \in ToSet(d.medusa_choices) \cup ToSet(d.eagle_choices)
                 \/ \E g \in setup.builder.guided : <<>> \in ToSet(g.vocab)
                 \/ <<>> \in ToSet(Defaulted(setup.builder, setup.engine).outputs)
      BY <1>1
    <3> HIDE DEF BOf, Readable
    <3>3. CASE Readable(setup)
      <4>1. /\ configured' = {[setup |-> setup, read |-> {ConfigMeant(setup)}]}
            /\ phase' = "created"
        BY <3>1, <3>2, <3>3
      <4> QED BY <4>1 DEF ConfiguredAsAsked
    <3>4. CASE ~Readable(setup)
      <4>1. configured' = {[setup |-> setup, read |-> {}]} /\ phase' = "threw"
        BY <3>1, <3>4
      <4> QED BY <3>2, <3>4, <4>1 DEF ConfiguredAsAsked
    <3> QED BY <3>3, <3>4
  <2>2. CASE CreateRefused
    <3>1. phase' = "refused"
      BY <2>2 DEF CreateRefused
    <3> QED BY <3>1 DEF ConfiguredAsAsked
  <2>3. CASE Created
    <3>1. configured' = {}
      BY <2>3 DEF Created
    <3> QED BY <3>1 DEF ConfiguredAsAsked
  <2>4. CASE Shutdown
    <3>1. phase' = "none"
      BY <2>4 DEF Shutdown
    <3> QED BY <3>1 DEF ConfiguredAsAsked
  <2>5. CASE Use
    <3>1. UNCHANGED setupVars
      BY <2>5 DEF Use
    <3> QED BY <1>3, <3>1 DEF ConfiguredAsAsked, setupVars
  <2>6. CASE UNCHANGED allVars
    <3>1. UNCHANGED setupVars
      BY <2>6 DEF allVars
    <3> QED BY <1>3, <3>1 DEF ConfiguredAsAsked, setupVars
  <2> QED BY <1>3, <2>1, <2>2, <2>3, <2>4, <2>5, <2>6 DEF SetupNext
<1> QED BY <1>2, <1>3, PTL DEF SetupSpec
=============================================================================
