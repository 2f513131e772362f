----------------------------- MODULE MCDelivery -----------------------------
EXTENDS Delivery
CONSTANTS v1, v2, v3, p1, p2
\* A fact about constants: TLC evaluates it before a run, for the run's EntityCount.
ASSUME TablesInOrder == EveryPlanInOrder

MCSpecs == {v1, v2, v3}
MCCompilable == {v1, v2}
\* One environment per outcome of the checks.
MCEnv == [required |-> TRUE, sandboxUrl |-> "unset", sandboxToken |-> "unset",
          devSecret |-> TRUE, devMode |-> TRUE]
MCEnvs == {MCEnv, [MCEnv EXCEPT !.sandboxUrl = "valid", !.sandboxToken = "valid"],
           [MCEnv EXCEPT !.sandboxUrl = "valid"], [MCEnv EXCEPT !.devMode = FALSE],
           [MCEnv EXCEPT !.required = FALSE]}
=============================================================================
