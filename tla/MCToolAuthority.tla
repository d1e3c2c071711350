-------------------------- MODULE MCToolAuthority --------------------------
\* Instances of ToolAuthority for TLC.
EXTENDS ToolAuthority, TLC

\* Calls and decisions are interchangeable: the specification names none.
ToolSymmetry == Permutations(Calls) \cup Permutations(Decisions)
=============================================================================
