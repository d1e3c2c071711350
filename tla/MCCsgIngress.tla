---------------------------- MODULE MCCsgIngress ----------------------------
\* Instances of CsgIngress for TLC.
EXTENDS CsgIngress, TLC

\* Processes and what requests say are interchangeable, and so are names.
IngressSymmetry ==
    Permutations(Processes) \cup Permutations(Bodies) \cup Permutations(Names)
=============================================================================
