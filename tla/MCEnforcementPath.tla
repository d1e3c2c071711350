------------------------- MODULE MCEnforcementPath -------------------------
\* Instances of EnforcementPath for TLC.
EXTENDS EnforcementPath
=============================================================================
