-------------------------- MODULE MCExecutionGate --------------------------
\* Instances of ExecutionGate for TLC.
EXTENDS ExecutionGate, TLC

\* Requests are interchangeable: the specification never names one.
RequestSymmetry == Permutations(Requests)
=============================================================================
