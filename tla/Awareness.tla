------------------------------- MODULE Awareness -------------------------------
(***************************************************************************)
(* The awareness layer (src/awareness_*.py): components under contracts, a *)
(* registry that takes any hierarchy it finds valid, a supervisor that     *)
(* observes a component and routes the needs it detects one step up, and   *)
(* execute_if_authorized, by which a component serves a need.  A caller    *)
(* takes a need to whichever component the last decision named, until one  *)
(* executes it or a human is asked.                                        *)
(*                                                                         *)
(* One kind of need, and so one action; evidence references are absent,    *)
(* blank or real.                                                          *)
(***************************************************************************)
EXTENDS Naturals, FiniteSets

CONSTANTS
    Components,
    Terms,           \* of the contracts: [mode, needs_approval, proven]
    ROOT, Human      \* "ROOT" and "HUMAN_APPROVAL"

\* mode of the permission for the action, or "absent", where "EXECUTE" stands for
\* OBSERVE too, which authorize treats alike; proven: maturity is VERIFIED or
\* PRODUCTION.
AllTerms ==
    [mode : {"absent", "EXECUTE", "PROPOSE", "ESCALATE"},
     needs_approval : BOOLEAN, proven : BOOLEAN]

ASSUME AwarenessAssumption ==
    /\ IsFiniteSet(Components) /\ Components \cap {ROOT, Human, "none"} = {}
    /\ ROOT # Human /\ Human # "none"
    /\ Terms \subseteq AllTerms

VARIABLES
    contract,   \* of each component: [parent, terms]
    state,      \* AwarenessState: [status, pending, refs]; pending and refs are 1
                \* when the list holds something
    need,       \* the need under way: [at, passed], or [at |-> "none"]
    served      \* ghost: executions, with what they were given

awarenessVars == <<contract, state, need, served>>

Contracts == [parent : Components \cup {ROOT}, terms : Terms]

ParentsKnown(c) == \A x \in DOMAIN c : c[x].parent \in {ROOT} \cup (DOMAIN c \ {x})

\* hierarchy_valid: parents exist, and following them from anywhere ends at ROOT.
HierarchyValid(c) ==
    /\ \A x \in DOMAIN c : c[x].parent \in {ROOT} \cup (DOMAIN c \ {x})
    /\ \A T \in (SUBSET DOMAIN c) \ {{}} : \E x \in T : c[x].parent \notin T

NoNeed == [at |-> "none", passed |-> {}]

\* AwarenessRegistry raises on any other hierarchy.
AwarenessInit ==
    /\ contract \in {c \in [Components -> Contracts] : HierarchyValid(c)}
    /\ state = [x \in Components |-> [status |-> "READY", pending |-> 0, refs |-> 0]]
    /\ need = NoNeed
    /\ served = {}

-----------------------------------------------------------------------------

\* observe, and detect_need of what was observed.
Observed(x, detected) ==
    [state EXCEPT ![x].status = IF detected THEN "NEED_DETECTED" ELSE "READY"]

\* complete_action of a pending action: with a blank reference it raises, and the
\* action stays pending.
Completed(x, evidence) ==
    IF evidence = "blank" THEN [state EXCEPT ![x].pending = 1]
    ELSE IF evidence = "real" THEN [state EXCEPT ![x].status = "VERIFIED", ![x].refs = 1]
    ELSE [state EXCEPT ![x].status = "ACTION_COMPLETED"]

\* AwarenessSupervisor.process: observe, detect_need, and route_need of each need.
Process(x, detected) ==
    /\ need = NoNeed
    /\ state' = Observed(x, detected)
    /\ need' = IF detected THEN [at |-> x, passed |-> {}] ELSE NoNeed
    /\ UNCHANGED <<contract, served>>

\* route_need where the component has no permission: its parent, or a human at the
\* top.
RouteUp(x) ==
    /\ need.at = x
    /\ contract[x].terms.mode = "absent"
    /\ need' = [at |-> IF contract[x].parent = ROOT THEN Human ELSE contract[x].parent,
                passed |-> need.passed \cup {x}]
    /\ UNCHANGED <<contract, state, served>>

\* authorize
Allows(x, approval) ==
    /\ contract[x].terms.mode = "EXECUTE"
    /\ contract[x].terms.needs_approval => approval

\* execute_if_authorized of what the decision named: the action is pending while it
\* executes.  Its test of the evidence takes a blank reference for one.
Executes(x, approval, evidence) ==
    /\ need.at = x
    /\ Allows(x, approval)
    /\ ~(contract[x].terms.proven /\ evidence = "absent")
    /\ state' = Completed(x, evidence)
    /\ IF evidence = "blank" THEN UNCHANGED <<need, served>>
       ELSE /\ need' = NoNeed
            /\ served' = {[by |-> x, approval |-> approval, evidence |-> evidence,
                           passed |-> need.passed]}
    /\ UNCHANGED contract

\* execute_if_authorized raises on anything else; the component escalates to the
\* target its contract names, or to a human, and the caller is done with it.
Escalate(x) ==
    /\ need.at = x
    /\ contract[x].terms.mode # "absent"
    /\ state' = [state EXCEPT ![x].status = "ESCALATED"]
    /\ need' = NoNeed
    /\ UNCHANGED <<contract, served>>

AskHuman ==
    /\ need.at = Human
    /\ need' = NoNeed
    /\ UNCHANGED <<contract, state, served>>

AwarenessNext ==
    \/ \E x \in Components :
           \/ \E detected \in BOOLEAN : Process(x, detected)
           \/ RouteUp(x)
           \/ \E approval \in BOOLEAN, evidence \in {"absent", "blank", "real"} :
                  Executes(x, approval, evidence)
           \/ Escalate(x)
    \/ AskHuman

AwarenessSpec == AwarenessInit /\ [][AwarenessNext]_awarenessVars

-----------------------------------------------------------------------------

\* Whatever hierarchy the registry accepted, a need climbs through components that
\* may not serve it, none of them twice, and is served by one that may: with the
\* approval its contract asks for, and with evidence if its contract is proven.
ServedByRight ==
    /\ need.at \notin need.passed
    /\ \A x \in need.passed : contract[x].terms.mode = "absent"
    /\ \A s \in served :
           /\ s.by \notin s.passed
           /\ contract[s.by].terms.mode = "EXECUTE"
           /\ contract[s.by].terms.needs_approval => s.approval
           /\ contract[s.by].terms.proven => s.evidence = "real"
           /\ s.evidence = "real" => state[s.by].refs > 0
=============================================================================
