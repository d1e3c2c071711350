------------------------------ MODULE AuditChain ------------------------------
(***************************************************************************)
(* The hash chain of audit_events (action_gate/storage.py).  Each writer   *)
(* (save_record, finalize_execution, reconcile_execution) takes a lock,    *)
(* reads the hash of the latest event, inserts an event that names it, and *)
(* commits.  On PostgreSQL the order of the table is a sequence_id column  *)
(* that a start-up migration adds to older tables by following the chain.  *)
(*                                                                         *)
(* A hash is the event it is the hash of: digests do not collide, and an   *)
(* event digests its decision, type and version.                           *)
(***************************************************************************)
EXTENDS Naturals, FiniteSets, Functions

CONSTANTS
    AuditEvents,   \* event hashes
    Genesis,       \* "GENESIS"
    Writers,       \* transactions that write an event
    NoLock

ASSUME ChainAssumption ==
    /\ IsFiniteSet(AuditEvents) /\ Genesis \notin AuditEvents
    /\ NoLock \notin Writers

VARIABLES
    previous_hash,  \* of each event of the table, committed or not
    sequence_id,    \* of each event of the table, once the column exists
    migrated,       \* "no", "yes", or "aborted": start-up failed
    nextval,        \* the sequence; a rollback does not give a number back
    lock,           \* pg_advisory_xact_lock(2147483000), or BEGIN IMMEDIATE
    writer          \* what each writer is doing

auditVars == <<previous_hash, sequence_id, migrated, nextval, lock, writer>>

Table == DOMAIN previous_hash

\* A table an older version left: every event was chained to one before it, or
\* to GENESIS, but not always to the latest, and events may be missing.
LegacyTables ==
    UNION {[T -> AuditEvents \cup {Genesis}] : T \in SUBSET AuditEvents}

\* Follows the chain from GENESIS: reached[n] is the event n steps along it,
\* while each step has one candidate.
Next1(table, h) == {e \in DOMAIN table : table[e] = h}

Along(table) ==
    LET reached[n \in 0 .. Cardinality(DOMAIN table)] ==
            IF n = 0 THEN {Genesis}
            ELSE UNION {Next1(table, h) : h \in reached[n - 1]}
    IN  reached

\* Acyclic: a hash cannot digest itself.
Rooted(table) ==
    \A T \in SUBSET DOMAIN table \ {{}} : \E e \in T : table[e] \notin T

AuditInit ==
    /\ previous_hash \in {t \in LegacyTables : Rooted(t)}
    /\ sequence_id = <<>>
    /\ migrated = "no"
    /\ nextval = 1
    /\ lock = NoLock
    /\ writer = [w \in Writers |-> [at |-> "idle"]]

-----------------------------------------------------------------------------

\* The loop and the check after it: every step finds one event, and the steps
\* together find every event.
ChainFails(table) ==
    \/ \E n \in 1 .. Cardinality(DOMAIN table) : Cardinality(Along(table)[n]) > 1
    \/ UNION {Along(table)[n] : n \in 1 .. Cardinality(DOMAIN table)} # DOMAIN table

\* _ensure_postgres_audit_sequence: all of it in one transaction that locks the
\* table.  It fails rather than choose among orders.
Migrate ==
    /\ migrated = "no"
    /\ IF ChainFails(previous_hash)
       THEN /\ migrated' = "aborted"
            /\ UNCHANGED <<sequence_id, nextval>>
       ELSE /\ migrated' = "yes"
            /\ sequence_id' = [e \in Table |->
                   CHOOSE n \in 1 .. Cardinality(Table) :
                       e \in Along(previous_hash)[n]]
            /\ nextval' = Cardinality(Table) + 1
    /\ UNCHANGED <<previous_hash, lock, writer>>

\* _latest_audit_hash, by sequence_id or by rowid.
Latest ==
    IF Table = {} THEN Genesis
    ELSE CHOOSE e \in Table : \A f \in Table : sequence_id[f] =< sequence_id[e]

LockableAlways(w) == TRUE

Lockable(w) == lock = NoLock

Lock(w) ==
    /\ migrated = "yes"
    /\ writer[w].at = "idle"
    /\ Lockable(w)
    /\ lock' = w
    /\ writer' = [writer EXCEPT ![w] = [at |-> "locked"]]
    /\ UNCHANGED <<previous_hash, sequence_id, migrated, nextval>>

ReadLatest(w) ==
    /\ writer[w].at = "locked"
    /\ writer' = [writer EXCEPT ![w] = [at |-> "read", previous |-> Latest]]
    /\ UNCHANGED <<previous_hash, sequence_id, migrated, nextval, lock>>

Done(w) ==
    /\ writer' = [writer EXCEPT ![w] = [at |-> "done"]]
    /\ lock' = NoLock

\* The insertion and the commit: readers see the event from the commit on.
Commit(w) ==
    /\ writer[w].at = "read"
    /\ \E e \in AuditEvents \ Table :
           /\ previous_hash' = [f \in Table \cup {e} |->
                  IF f = e THEN writer[w].previous ELSE previous_hash[f]]
           /\ sequence_id' = [f \in Table \cup {e} |->
                  IF f = e THEN nextval ELSE sequence_id[f]]
    /\ nextval' = nextval + 1
    /\ Done(w)
    /\ UNCHANGED migrated

\* An exception, a lost connection or a crash; the sequence keeps the number a
\* rolled back insertion drew.
Rollback(w) ==
    /\ writer[w].at \in {"locked", "read"}
    /\ Done(w)
    /\ nextval' \in {nextval, nextval + 1}
    /\ UNCHANGED <<previous_hash, sequence_id, migrated>>

AuditNext ==
    \/ Migrate
    \/ \E w \in Writers : Lock(w) \/ ReadLatest(w) \/ Commit(w) \/ Rollback(w)

AuditSpec == AuditInit /\ [][AuditNext]_auditVars

-----------------------------------------------------------------------------

\* s is every event, each naming the one just before it, the first GENESIS.
Chained(s, table) ==
    /\ s \in [1 .. Cardinality(DOMAIN table) -> DOMAIN table]
    /\ Range(s) = DOMAIN table
    /\ \A i \in DOMAIN s : table[s[i]] = IF i = 1 THEN Genesis ELSE s[i - 1]

\* What the table reads as, by its hashes and by its numbers alike.
Reads(s, table, place) ==
    /\ Chained(s, table)
    /\ \A i, j \in DOMAIN s : i < j => place[s[i]] < place[s[j]]

Readings(table, place) ==
    {s \in [1 .. Cardinality(DOMAIN table) -> DOMAIN table] : Reads(s, table, place)}

\* A table that cannot be read as a whole is no log: GENESIS is no event.
Trail ==
    IF migrated # "yes" THEN <<>>
    ELSE IF Readings(previous_hash, sequence_id) = {} THEN <<Genesis>>
    ELSE CHOOSE s \in Readings(previous_hash, sequence_id) : TRUE

Log == INSTANCE AppendOnlyLog
    WITH Entries <- AuditEvents, open <- (migrated = "yes"), log <- Trail

\* The table is a log that only grows at its end, the same by its numbers and by its
\* hashes: whatever an older version left, whatever writers raced and whatever was
\* rolled back in between, no event is lost, moved, or joined by another at its place.
AppendOnlySpec == Log!Spec
=============================================================================
