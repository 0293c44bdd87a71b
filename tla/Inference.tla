----------------------------- MODULE Inference -----------------------------
(***************************************************************************)
(* The parts of the system that load a model and compute with it.  They    *)
(* share the loader and the arithmetic and no state: a program uses        *)
(* LlamaCpuModel, or a MetalBackend, or a LlamaTensorParallelModel, or     *)
(* fills a pool, or drafts trees.  A behaviour is one of a single part.    *)
(***************************************************************************)
EXTENDS CpuModel, MetalModel, TensorParallel, ModelPool, SpeculativeTree

\* The weights to shard come from a store that load_gguf has validated.
ASSUME StoreAssumption ==
    \A name \in DOMAIN TpModels :
        LET tensors == TpModels[name].tensors
        IN  /\ ValidateError(TpModels[name].meta, tensors) = "none"
            /\ \A n \in DOMAIN tensors : Len(tensors[n].data) = NElements(tensors[n].shape)

VARIABLE inUse

inferenceVars == <<inUse, cpuVars, metalVars, tpVars, poolVars, treeVars>>

InferenceInit ==
    /\ inUse \in {"cpu", "metal", "tensor parallel", "pool", "tree"}
    /\ CpuInit /\ MetalInit /\ TpInit /\ PoolInit /\ TreeInit
    /\ inUse # "cpu" => cpuPc = "start"
    /\ inUse # "tensor parallel" => tpModel = CHOOSE n \in DOMAIN TpModels : TRUE
    /\ inUse # "pool" => owner = "caller" /\ handles

InferenceNext ==
    \/ inUse = "cpu" /\ CpuNext /\ UNCHANGED <<inUse, metalVars, tpVars, poolVars, treeVars>>
    \/ inUse = "metal" /\ MetalNext /\ UNCHANGED <<inUse, cpuVars, tpVars, poolVars, treeVars>>
    \/ inUse = "tensor parallel" /\ TpNext /\ UNCHANGED <<inUse, cpuVars, metalVars, poolVars, treeVars>>
    \/ inUse = "pool" /\ PoolNext /\ UNCHANGED <<inUse, cpuVars, metalVars, tpVars, treeVars>>
    \/ inUse = "tree" /\ TreeNext /\ UNCHANGED <<inUse, cpuVars, metalVars, tpVars, poolVars>>

Spec == InferenceInit /\ [][InferenceNext]_inferenceVars /\ (inUse = "pool" => PoolFairness)

\* The pool alone.
PoolSpec == InferenceInit /\ inUse = "pool" /\ [][InferenceNext]_inferenceVars
=============================================================================
