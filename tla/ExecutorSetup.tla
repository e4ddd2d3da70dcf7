---------------------------- MODULE ExecutorSetup ----------------------------
(***************************************************************************)
(* The life of an Executor of tensorrt_llm: it is built from the           *)
(* configuration of the caller and of the engine (Executor::from_builder   *)
(* of executor.rs, executor_create of tensorrt_llm_executor.cpp), used by  *)
(* the threads of ExecutorCalls, dropped, and built again.  Responses      *)
(* outlive it.                                                             *)
(***************************************************************************)
EXTENDS ExecutorCalls, BuilderWire

CONSTANTS
    Setups,     (* what callers build an executor with                      *)
    MaxInt      (* i32::MAX                                                 *)

(* A setup is a builder, the eagle setters called on its DecodingConfig in  *)
(* order, and the engine.                                                   *)
BuilderOf(setup) ==
    [setup.builder EXCEPT !.decoding = {WithEagle(d, setup.eagle) : d \in @}]

(* from_builder gets as far as the shim.                                    *)
SetupAccepted(setup) ==
    LET b == BuilderOf(setup)
    IN  /\ EngineValid(setup.engine)
        /\ LimitsFit(b, setup.engine, MaxInt)
        /\ BuilderValid(Defaulted(b, setup.engine))

(* What the types make sure of; the eagle setters are those of the setup.   *)
SetupTyped(setup) ==
    /\ BuilderTyped(setup.builder) /\ \A d \in setup.builder.decoding : ~d.eagle_enabled
    /\ IsList(setup.eagle) /\ \A i \in DOMAIN setup.eagle : SettingTyped(setup.eagle[i])
    /\ IsList(setup.engine.outputs)

ASSUME SetupsAssumption == \A setup \in Setups : SetupTyped(setup)

ASSUME SetupAssumption ==
    \A setup \in Setups : SetupAccepted(setup) => ProfileOf(setup.engine) = Profile

VARIABLES
    phase,      (* of the executor                                          *)
    configured  (* the setup of the last attempt, and what the shim read of *)
                (* it, or nothing: it was refused or threw                  *)

setupVars == <<phase, configured>>

allVars == <<executorVars, setupVars>>

SetupInit == ExecutorInit /\ phase = "none" /\ configured = {}

-----------------------------------------------------------------------------
(* Executor::from_builder, tensorrt_llm_rs_executor_create                  *)
Create ==
    /\ phase = "none"
    /\ \E setup \in Setups :
          LET b == Defaulted(BuilderOf(setup), setup.engine)
              c == ConfigEncoded(b)
              lists == ConfigLists(b)
          IN  /\ SetupAccepted(setup)
              /\ IF ConfigReadable(c, lists)
                 THEN /\ configured' = {[setup |-> setup, read |-> {ConfigRead(c, lists)}]}
                      /\ phase' = "created"
                 ELSE /\ configured' = {[setup |-> setup, read |-> {}]}
                      /\ phase' = "threw"
    /\ UNCHANGED executorVars

(* from_builder returns an error before it calls the shim.                  *)
CreateRefused ==
    /\ phase = "none"
    /\ \E setup \in Setups : /\ ~SetupAccepted(setup)
                             /\ configured' = {[setup |-> setup, read |-> {}]}
    /\ phase' = "refused"
    /\ UNCHANGED executorVars

(* Threads share the executor, or the caller has the error.                 *)
Created ==
    /\ phase \in {"created", "threw", "refused"}
    /\ phase' = IF phase = "created" THEN "open" ELSE "none"
    /\ configured' = {}
    /\ UNCHANGED executorVars

(* Executor::drop, tensorrt_llm_rs_executor_destroy                         *)
Shutdown ==
    /\ phase = "open" /\ DropExecutor
    /\ phase' = "none"
    /\ UNCHANGED configured

Use ==
    /\ \E t \in Threads : (phase = "open" /\ RunStep(t)) \/ ResponseStep(t)
    /\ UNCHANGED setupVars

SetupNext == Create \/ CreateRefused \/ Created \/ Shutdown \/ Use

SetupSpec == SetupInit /\ [][SetupNext]_allVars

-----------------------------------------------------------------------------
(* The configuration as it was asked for, independent of how it travels.    *)
MeantPart(p) ==
    [p EXCEPT !.lists = [l \in DOMAIN @ |-> {@[l]} \ {<<>>}]]

MeantKvCache(b) ==
    LET kv == MeantPart(b.kv_cache)
        OrDefault(field, kind) ==
            IF kv[kind][field] # {} THEN kv[kind][field]
            ELSE UNION {MeantPart(d)[kind][field] : d \in b.runtime_defaults}
    IN  [kv EXCEPT !.lists["max_attention_window"] = OrDefault("max_attention_window", "lists"),
                   !.options["sink_token_length"] = OrDefault("sink_token_length", "options")]

MeantDecoding(d, eagle) ==
    [mode |-> d.mode, lookahead |-> d.lookahead,
     medusa_choices |-> {d.medusa_choices} \ {<<>>},
     eagle |-> IF eagle = <<>> THEN {}
               ELSE {[choices |-> {d.eagle_choices} \ {<<>>}, rest |-> MeantPart(d.eagle)]}]

BuilderMeant(b, eagle) ==
    LET Parts(option) == {MeantPart(p) : p \in option}
    IN  [own |-> MeantPart(b.own), scheduler |-> MeantPart(b.scheduler),
         dynamic_batch |-> {[table |-> {d.table} \ {<<>>}, rest |-> MeantPart(d.rest)] :
                               d \in b.dynamic_batch},
         kv_cache |-> MeantKvCache(b),
         parallel |-> {[orchestrator |-> Parts(p.orchestrator), rest |-> MeantPart(p.rest)] :
                          p \in b.parallel},
         peft_cache |-> Parts(b.peft_cache),
         decoding |-> {MeantDecoding(d, eagle) : d \in b.decoding},
         performance |-> MeantPart(b.performance), speculative |-> Parts(b.speculative),
         guided |-> {[vocab |-> g.vocab, rest |-> MeantPart(g.rest)] : g \in b.guided},
         cache_transceiver |-> Parts(b.cache_transceiver),
         outputs |-> b.outputs]

ConfigMeant(setup) ==
    BuilderMeant(Defaulted(BuilderOf(setup), setup.engine), setup.eagle)

(* The executor runs with exactly the configuration the caller set, with    *)
(* the limits and outputs of the engine where it set none; a configuration  *)
(* that the executor accepts makes the shim throw only for a choice without *)
(* tokens or an empty name: the layout of its lists never does.             *)
ConfiguredAsAsked ==
    \A c \in configured :
        /\ phase = "created" => c.read = {ConfigMeant(c.setup)}
        /\ phase = "threw" =>
               \/ \E d \in BuilderOf(c.setup).decoding :
                     <<>> \in ToSet(d.medusa_choices) \cup ToSet(d.eagle_choices)
               \/ \E g \in c.setup.builder.guided : <<>> \in ToSet(g.vocab)
               \/ <<>> \in ToSet(Defaulted(c.setup.builder, c.setup.engine).outputs)
==============================================================================
