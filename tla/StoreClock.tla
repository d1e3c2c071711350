------------------------------ MODULE StoreClock ------------------------------
(***************************************************************************)
(* The clock of the processes that share a database.  Storage functions    *)
(* read it before the transaction that writes what they read               *)
(* (action_gate/app.py, enforcement.py, state_oracle.py), so a row can     *)
(* carry a time older than the moment it is written.                       *)
(***************************************************************************)
EXTENDS Naturals

CONSTANTS
    Delay,      \* how long a transaction may start after its time was read
    MaxTime     \* bound: last time of the clock

ASSUME ClockAssumption == Delay \in Nat /\ MaxTime \in Nat

VARIABLE now

\* Time passes unless a time read earlier would become older than Delay.
Tick(timesRead) ==
    /\ now < MaxTime
    /\ \A stamp \in timesRead : now < stamp + Delay
    /\ now' = now + 1
=============================================================================
