------------------------ MODULE ToolAuthorityProofs ------------------------
(***************************************************************************)
(* Proofs about ToolAuthority: any number of calls, decisions, authorities *)
(* and worlds, and any time.                                               *)
(***************************************************************************)
EXTENDS ToolAuthority, TLAPS

\* A call in flight has an authority, a world it saw and a clock reading.
LEMMA ActiveCall ==
    ASSUME TypeOK, NEW c \in Calls, call[c].at \in {"verified", "admitted", "claiming"}
    PROVE  /\ call[c] \in Active
           /\ call[c].authority \in Authority
           /\ call[c].authority.decision \in Decisions
BY DEF TypeOK, Active, Idle, Done, Authority

LEMMA PurgedType ==
    ASSUME TypeOK, NEW clock \in Nat
    PROVE  /\ Purged(clock) \in [Decisions -> Nat]
           /\ \A d \in Decisions :
                 Purged(clock)[d] = IF used[d] <= clock THEN 0 ELSE used[d]
BY DEF TypeOK, Purged

\* The type invariant of the tool boundary.
THEOREM ToolTypeCorrect == Spec => []TypeOK
<1>1. Init => TypeOK
  BY DEF Init, TypeOK
<1>2. TypeOK /\ [Next]_vars => TypeOK'
  <2> SUFFICES ASSUME TypeOK, [Next]_vars PROVE TypeOK'
    OBVIOUS
  <2>1. ASSUME NEW c \in Calls, NEW a \in issued, Verify(c, a) PROVE TypeOK'
    BY <2>1 DEF Verify, TypeOK, Active
  <2>2. ASSUME NEW c \in Calls, CheckWorld(c) PROVE TypeOK'
    <3>1. [call[c] EXCEPT !.at = "admitted"] \in Active
      BY <2>2, ActiveCall DEF CheckWorld, At, Active
    <3>2. QED BY <2>2, <3>1 DEF CheckWorld, Goto, TypeOK
  <2>3. ASSUME NEW c \in Calls, ReadClock(c) PROVE TypeOK'
    <3>1. [call[c] EXCEPT !.at = "claiming", !.clock = now] \in Active
      BY <2>3, ActiveCall DEF ReadClock, At, Active, TypeOK
    <3>2. call' = [call EXCEPT ![c] = [call[c] EXCEPT !.at = "claiming", !.clock = now]]
      BY <2>3, ActiveCall DEF ReadClock, At, TypeOK
    <3>3. QED BY <2>3, <3>1, <3>2 DEF ReadClock, TypeOK
  <2>4. ASSUME NEW c \in Calls, Claim(c) PROVE TypeOK'
    <3>1. call[c] \in Active /\ call[c].authority \in Authority
      BY <2>4, ActiveCall DEF Claim, At
    <3>2. [call |-> c, expires_at |-> call[c].authority.expires_at,
           seen |-> call[c].seen, at |-> now] \in Claims
      BY <3>1 DEF Claims, Active, Authority, TypeOK
    <3>3. used' \in [Decisions -> Nat]
      BY <2>4, <3>1, PurgedType DEF Claim, Active, Authority
    <3>4. claims' \in [Decisions -> SUBSET Claims]
      BY <2>4, <3>1, <3>2 DEF Claim, TypeOK, Authority
    <3>5. QED BY <2>4, <3>3, <3>4 DEF Claim, Finish, TypeOK
  <2>5. ASSUME NEW c \in Calls, Reject(c) PROVE TypeOK'
    BY <2>5 DEF Reject, Finish, TypeOK
  <2>6. ASSUME NEW d \in Decisions, NEW ttl \in 1..MaxTime, NEW w \in 1..MaxWorld,
               Issue(d, ttl, w)
        PROVE  TypeOK'
    <3>1. ttl \in Nat /\ w \in Nat
      BY ToolAssumption
    <3>2. [decision |-> d, issued_at |-> now, expires_at |-> now + ttl] \in Authority
      BY <3>1 DEF Authority, TypeOK
    <3>3. QED BY <2>6, <3>1, <3>2 DEF Issue, TypeOK
  <2>7. CASE Tick
    BY <2>7 DEF Tick, TypeOK
  <2>8. CASE CommitWorld
    BY <2>8 DEF CommitWorld, TypeOK
  <2>9. CASE UNCHANGED vars
    BY <2>9 DEF vars, TypeOK
  <2>10. QED
    BY <2>1, <2>2, <2>3, <2>4, <2>5, <2>6, <2>7, <2>8, <2>9 DEF Next, Serve, Environment
<1>3. QED BY <1>1, <1>2, PTL DEF Spec

\* Every step keeps the strengthening.
LEMMA RegistryStep ==
    ASSUME TypeOK, RegistryInv, [Next]_vars
    PROVE  RegistryInv'
<1>1. ASSUME NEW c \in Calls, NEW a \in issued, Verify(c, a) PROVE RegistryInv'
  BY <1>1 DEF Verify, RegistryInv, TypeOK, At, NoReplayWhileValid, StaleAuthorityRejected
<1>2. ASSUME NEW c \in Calls, CheckWorld(c) PROVE RegistryInv'
  <2>1. /\ call'[c] = [call[c] EXCEPT !.at = "admitted"]
        /\ \A q \in Calls \ {c} : call'[q] = call[q]
    BY <1>2 DEF CheckWorld, Goto, TypeOK
  <2>2. /\ call'[c].at = "admitted" /\ call'[c].authority = call[c].authority
        /\ call'[c].seen = call[c].seen
    BY <1>2, <2>1, ActiveCall DEF CheckWorld, At, Active
  <2>3. call[c].authority \in issued /\ call[c].seen <= bound[call[c].authority.decision]
    BY <1>2 DEF CheckWorld, InWorld, RegistryInv, At
  <2>4. QED
    BY <1>2, <2>1, <2>2, <2>3
       DEF CheckWorld, RegistryInv, At, NoReplayWhileValid, StaleAuthorityRejected
<1>3. ASSUME NEW c \in Calls, ReadClock(c) PROVE RegistryInv'
  <2>1. \A q \in Calls \ {c} : call'[q] = call[q]
    BY <1>3 DEF ReadClock, TypeOK
  <2>2. /\ call'[c].at = "claiming" /\ call'[c].authority = call[c].authority
        /\ call'[c].seen = call[c].seen /\ call'[c].clock = now
    BY <1>3, ActiveCall DEF ReadClock, At, Active, TypeOK
  <2>3. QED
    BY <1>3, <2>1, <2>2
       DEF ReadClock, RegistryInv, At, TypeOK, NoReplayWhileValid, StaleAuthorityRejected
<1>4. ASSUME NEW c \in Calls, Claim(c) PROVE RegistryInv'
  <2> DEFINE a == call[c].authority
             d == a.decision
             new == [call |-> c, expires_at |-> a.expires_at, seen |-> call[c].seen, at |-> now]
  <2>1. /\ call[c] \in Active /\ a \in Authority /\ d \in Decisions /\ At(c, "claiming")
        /\ call[c].clock \in Nat /\ call[c].clock <= now
    BY <1>4, ActiveCall DEF Claim, At, RegistryInv, Active
  <2>2. a \in issued /\ call[c].seen <= bound[d]
    BY <2>1 DEF RegistryInv, At
  <2>3. /\ used'[d] = a.expires_at
        /\ \A e \in Decisions \ {d} : used'[e] = IF used[e] <= call[c].clock THEN 0 ELSE used[e]
        /\ used[d] <= call[c].clock \/ used[d] = 0
    BY <1>4, <2>1, PurgedType DEF Claim
  <2>4. /\ claims'[d] = claims[d] \cup {new}
        /\ \A e \in Decisions \ {d} : claims'[e] = claims[e]
    BY <1>4, <2>1 DEF Claim, TypeOK
  <2>5. ASSUME NEW e \in Decisions, NEW x \in claims[e]
        PROVE  x.expires_at \in Nat /\ (now < x.expires_at => used[e] = x.expires_at)
    BY DEF RegistryInv, TypeOK, Claims
  <2>6. ASSUME NEW x \in claims[d] PROVE now >= x.expires_at
    BY <2>1, <2>3, <2>5 DEF TypeOK
  <2>7. ASSUME NEW e \in Decisions, NEW x \in claims'[e], now' < x.expires_at
        PROVE  used'[e] = x.expires_at
    <3>1. now' = now
      BY <1>4 DEF Claim
    <3>2. CASE e = d
      BY <3>1, <3>2, <2>3, <2>4, <2>5, <2>6, <2>7 DEF TypeOK
    <3>3. CASE e # d
      BY <3>1, <3>3, <2>1, <2>3, <2>4, <2>5, <2>7 DEF TypeOK
    <3>4. QED BY <3>2, <3>3
  <2>8. NoReplayWhileValid'
    <3>1. ASSUME NEW e \in Decisions, NEW x \in claims'[e], NEW y \in claims'[e]
          PROVE  x = y \/ x.at >= y.expires_at \/ y.at >= x.expires_at
      <4>1. CASE x \in claims[e] /\ y \in claims[e]
        BY <4>1 DEF RegistryInv, NoReplayWhileValid
      <4>2. CASE e = d /\ (x = new \/ y = new)
        BY <4>2, <2>4, <2>6
      <4>3. QED BY <4>1, <4>2, <2>4
    <3>2. QED BY <3>1 DEF NoReplayWhileValid
  <2>9. StaleAuthorityRejected'
    <3>1. bound' = bound
      BY <1>4 DEF Claim
    <3>2. QED BY <3>1, <2>2, <2>4 DEF RegistryInv, StaleAuthorityRejected
  <2>10. call'[c] = Done /\ \A q \in Calls \ {c} : call'[q] = call[q]
    BY <1>4 DEF Claim, Finish, TypeOK
  <2>11. \A e \in Decisions : claims'[e] # {} => \E b \in issued' : b.decision = e
    BY <1>4, <2>2, <2>4 DEF Claim, RegistryInv
  <2>12. QED
    BY <1>4, <2>7, <2>8, <2>9, <2>10, <2>11 DEF Claim, RegistryInv, At, Done
<1>5. ASSUME NEW c \in Calls, Reject(c) PROVE RegistryInv'
  <2>1. call'[c] = Done /\ \A q \in Calls \ {c} : call'[q] = call[q]
    BY <1>5 DEF Reject, Finish, TypeOK
  <2>2. QED
    BY <1>5, <2>1 DEF Reject, RegistryInv, At, Done, NoReplayWhileValid, StaleAuthorityRejected
<1>6. ASSUME NEW d \in Decisions, NEW ttl \in 1..MaxTime, NEW w \in 1..MaxWorld, Issue(d, ttl, w)
      PROVE  RegistryInv'
  <2>1. \A b \in issued : bound'[b.decision] = bound[b.decision]
    BY <1>6 DEF Issue, TypeOK, Authority
  <2>2. issued \subseteq issued'
    BY <1>6 DEF Issue
  <2>3. \A e \in Decisions : claims[e] # {} => bound'[e] = bound[e]
    BY <2>1 DEF RegistryInv
  <2>4. StaleAuthorityRejected'
    BY <1>6, <2>3 DEF Issue, RegistryInv, StaleAuthorityRejected
  <2>5. NoReplayWhileValid'
    BY <1>6 DEF Issue, RegistryInv, NoReplayWhileValid
  <2>6. QED
    BY <1>6, <2>1, <2>2, <2>4, <2>5 DEF Issue, RegistryInv, At
<1>7. CASE Tick
  <2>1. /\ now' = now + 1 /\ now \in Nat
        /\ UNCHANGED <<world, bound, issued, used, call, claims>>
    BY <1>7 DEF Tick, TypeOK
  <2>2. ASSUME NEW d \in Decisions, NEW x \in claims'[d], now' < x.expires_at
        PROVE  used'[d] = x.expires_at
    <3>1. x \in claims[d] /\ x.expires_at \in Nat
      BY <2>1 DEF TypeOK, Claims
    <3>2. now < x.expires_at
      BY <2>1, <2>2, <3>1
    <3>3. QED BY <2>1, <3>1, <3>2 DEF RegistryInv
  <2>3. ASSUME NEW c \in Calls, At(c, "claiming")' PROVE call'[c].clock <= now'
    <3>1. call[c].clock \in Nat /\ call[c].clock <= now
      BY <2>1, <2>3, ActiveCall DEF At, RegistryInv, Active
    <3>2. QED BY <2>1, <3>1
  <2>4. NoReplayWhileValid' /\ StaleAuthorityRejected'
    BY <2>1 DEF RegistryInv, NoReplayWhileValid, StaleAuthorityRejected
  <2>5. QED BY <2>1, <2>2, <2>3, <2>4 DEF RegistryInv, At
<1>8. CASE CommitWorld
  <2>1. /\ world' = world + 1 /\ world \in Nat
        /\ UNCHANGED <<now, bound, issued, used, call, claims>>
    BY <1>8 DEF CommitWorld, TypeOK
  <2>2. ASSUME NEW c \in Calls, call[c].at \in {"verified", "admitted", "claiming"}
        PROVE  call[c].seen <= world'
    <3>1. call[c].seen \in Nat /\ call[c].seen <= world
      BY <2>2, ActiveCall DEF RegistryInv, Active
    <3>2. QED BY <2>1, <3>1
  <2>3. NoReplayWhileValid' /\ StaleAuthorityRejected'
    BY <2>1 DEF RegistryInv, NoReplayWhileValid, StaleAuthorityRejected
  <2>4. QED BY <2>1, <2>2, <2>3 DEF RegistryInv, At
<1>9. CASE UNCHANGED vars
  BY <1>9 DEF vars, RegistryInv, At, NoReplayWhileValid, StaleAuthorityRejected
<1>10. QED
  BY <1>1, <1>2, <1>3, <1>4, <1>5, <1>6, <1>7, <1>8, <1>9 DEF Next, Serve, Environment

\* The registry keeps the row of every claim until its authority is over.
THEOREM RegistryInvariant == Spec => []RegistryInv
<1>1. Init => RegistryInv
  BY DEF Init, RegistryInv, At, Idle, NoReplayWhileValid, StaleAuthorityRejected
<1>2. TypeOK /\ RegistryInv /\ [Next]_vars => RegistryInv'
  BY RegistryStep
<1>3. QED BY <1>1, <1>2, ToolTypeCorrect, PTL DEF Spec

\* However many calls race on a nonce and however the clock readings of their
\* transactions interleave, the registry admits no second one while the
\* authority of the first is valid.
THEOREM NoReplay == Spec => []NoReplayWhileValid
<1>1. RegistryInv => NoReplayWhileValid
  BY DEF RegistryInv
<1>2. QED BY <1>1, RegistryInvariant, PTL

\* The world check admits no authority of a world that was already past when
\* its call arrived.
THEOREM NoStaleAuthority == Spec => []StaleAuthorityRejected
<1>1. RegistryInv => StaleAuthorityRejected
  BY DEF RegistryInv
<1>2. QED BY <1>1, RegistryInvariant, PTL
=============================================================================
