------------------------ MODULE IdempotentDecision ------------------------
(***************************************************************************)
(* What the CSG ingress promises about an idempotency key, whatever the    *)
(* number of processes and database transactions behind it: one decision   *)
(* is committed for the key, and every answer given under the key is that  *)
(* decision.  CsgIngress is checked and proved to implement it on          *)
(* PostgreSQL.                                                             *)
(***************************************************************************)
CONSTANTS Keys, None

VARIABLES
    decided,   \* the canonical decision of each key, or None
    answered   \* the decisions answered under each key

Init ==
    /\ decided  = [k \in Keys |-> None]
    /\ answered = [k \in Keys |-> {}]

\* Some decision becomes the canonical one of k.
Commit(k) ==
    /\ decided[k] = None
    /\ decided' = [decided EXCEPT ![k] = decided'[k]]
    /\ decided'[k] # None
    /\ UNCHANGED answered

Answer(k) ==
    /\ decided[k] # None
    /\ answered' = [answered EXCEPT ![k] = @ \cup {decided[k]}]
    /\ UNCHANGED decided

Next == \E k \in Keys : Commit(k) \/ Answer(k)

Spec == Init /\ [][Next]_<<decided, answered>>
=============================================================================
