------------------------- MODULE DecisionLifecycle -------------------------
(***************************************************************************)
(* What the Action Gate promises about one decision, whatever the number   *)
(* of request handlers, replicas and database transactions behind it: the  *)
(* decision moves once through                                             *)
(*                                                                         *)
(*   absent -> asked -> permitted -> reserved -> executed | reconciled     *)
(*                  \-> refused                                            *)
(*                                                                         *)
(* and never goes back.  This is the "one-time" contract the documents     *)
(* state (README.md, CHANGELOG.md 0.4.1); ExecutionGate is checked and     *)
(* proved to implement it.                                                 *)
(***************************************************************************)
CONSTANT Decisions

VARIABLE phase

Phases == {"absent", "asked", "permitted", "refused",
           "reserved", "executed", "reconciled"}

\* The only moves a decision may make.
Moves == {<<"absent", "asked">>, <<"absent", "permitted">>, <<"absent", "refused">>,
          <<"asked", "permitted">>, <<"asked", "refused">>,
          <<"permitted", "reserved">>,
          <<"reserved", "executed">>, <<"reserved", "reconciled">>}

Init == phase = [d \in Decisions |-> "absent"]

\* One decision makes one move; the others keep their phase.
Move(d, p) ==
    /\ <<phase[d], p>> \in Moves
    /\ phase' = [phase EXCEPT ![d] = p]

Next == \E d \in Decisions, p \in Phases : Move(d, p)

Spec == Init /\ [][Next]_phase
=============================================================================
