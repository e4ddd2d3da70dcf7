--------------------------- MODULE ExecutorPromise ---------------------------
(***************************************************************************)
(* What Executor::run promises a caller, without buffers, pointers or      *)
(* pools: the backend gets the request as the caller meant it, and the     *)
(* caller gets a response whose tensors have the values of one answer to   *)
(* that request, from the moment it has it until it drops it.              *)
(***************************************************************************)
CONSTANTS
    Callers,
    Tasks,          (* what callers may ask for                             *)
    Outcomes(_)     (* the responses to a task                              *)

VARIABLES
    given,          (* the task the backend has from a caller, if any       *)
    got             (* the response a caller holds, if any                  *)

promiseVars == <<given, got>>

PromiseInit ==
    /\ given = [c \in Callers |-> {}]
    /\ got = [c \in Callers |-> {}]

(* A caller without a response asks for something.                          *)
Give(c) ==
    /\ given[c] = {} /\ got[c] = {}
    /\ \E task \in Tasks : given' = [given EXCEPT ![c] = {task}]
    /\ UNCHANGED got

(* The response to what it asked for                                        *)
Answer(c) ==
    /\ got[c] = {}
    /\ \E task \in given[c] : \E outcome \in Outcomes(task) :
          got' = [got EXCEPT ![c] = {outcome}]
    /\ UNCHANGED given

(* The call ends, with the response or with an error.                       *)
Settle(c) ==
    /\ given[c] # {}
    /\ given' = [given EXCEPT ![c] = {}]
    /\ UNCHANGED got

(* The caller drops its response.                                           *)
Release(c) ==
    /\ given[c] = {} /\ got[c] # {}
    /\ got' = [got EXCEPT ![c] = {}]
    /\ UNCHANGED given

PromiseNext == \E c \in Callers : Give(c) \/ Answer(c) \/ Settle(c) \/ Release(c)

PromiseSpec == PromiseInit /\ [][PromiseNext]_promiseVars
==============================================================================
