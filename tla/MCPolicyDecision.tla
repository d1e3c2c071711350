---------------------------- MODULE MCPolicyDecision ----------------------------
EXTENDS PolicyDecision

\* Evidence that never expires, expires at a time, and is none of these; a pair
\* that contradicts itself.
Fact == [value |-> 1, state |-> "FACT", expires |-> "never", expires_at |-> 0]

MCEvidenceSets ==
    {{}, {Fact}, {[Fact EXCEPT !.state = "UNKNOWN"]},
     {[Fact EXCEPT !.expires = "at", !.expires_at = 1]},
     {[Fact EXCEPT !.expires = "invalid"]}, {[Fact EXCEPT !.expires = "naive"]},
     {Fact, [Fact EXCEPT !.value = 2]}}

=============================================================================
