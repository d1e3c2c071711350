---------------------------- MODULE AppendOnlyLog ----------------------------
(***************************************************************************)
(* What the audit trail promises, whatever the number of transactions that *)
(* write it and the tables older versions left: one sequence of events,    *)
(* none twice, that is read back whole from GENESIS and only ever grows at *)
(* its end.  AuditChain is checked and proved to implement it.             *)
(***************************************************************************)
EXTENDS Naturals, Sequences, Functions

CONSTANT Entries

VARIABLES
    open,   \* start-up is over
    log     \* the entries, in their order

Init == open = FALSE /\ log = <<>>

\* Start-up takes over what is there, or it fails and the trail stays closed.
Open ==
    /\ ~open /\ open' = TRUE
    /\ log' \in Seq(Entries) /\ IsInjective(log')

Extend ==
    /\ open /\ open' = open
    /\ \E e \in Entries \ Range(log) : log' = Append(log, e)

Next == Open \/ Extend

Spec == Init /\ [][Next]_<<open, log>>
=============================================================================
