------------------------------- MODULE Leases -------------------------------
(***************************************************************************)
(* The statements of internal/storage/sqlite/lease.go on the table         *)
(* request_leases, as operators on one row or on the whole table. A row    *)
(* whose owner is Nobody stands for a key without a row. The clock value t *)
(* is the one the Go function read before it ran its statement.            *)
(***************************************************************************)
EXTENDS Naturals

CONSTANTS
    Owners,     \* lease owners: one per admission attempt
    Keys,       \* lease keys: normalised media URLs
    Nobody,     \* no owner
    LeaseTTL    \* LEASE_TTL, in clock ticks

\* config.go refuses a TTL that is not positive.
ASSUME LeaseTTLAssumption == LeaseTTL \in Nat \ {0}
ASSUME NobodyAssumption == Nobody \notin Owners

Rows == [owner : Owners \cup {Nobody}, expires : Nat]
NoRow == [owner |-> Nobody, expires |-> 0]

Expired(row, t) == row.expires <= t

\* The upsert of Acquire inserts a row or overwrites an expired one.
CanAcquire(row, t) == row.owner = Nobody \/ Expired(row, t)

Acquired(owner, t) == [owner |-> owner, expires |-> t + LeaseTTL]

\* DELETE ... WHERE key = ? AND owner = ?; the mutant forgets the owner.
ReleasedByKey(table, key, owner) == [table EXCEPT ![key] = NoRow]

Released(table, key, owner) ==
    [table EXCEPT ![key] = IF @.owner = owner THEN NoRow ELSE @]

\* DELETE ... WHERE expires_at <= ?; the mutant looks at acquired_at.
PurgedByAge(table, t) ==
    [k \in DOMAIN table |->
        IF table[k].expires <= t + LeaseTTL THEN NoRow ELSE table[k]]

Purged(table, t) ==
    [k \in DOMAIN table |-> IF Expired(table[k], t) THEN NoRow ELSE table[k]]
=============================================================================
