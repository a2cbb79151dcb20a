--------------------------- MODULE OperationStore ---------------------------
(***************************************************************************)
(* operations.json of a space, internal/operation: the record an           *)
(* idempotency key is bound to and what the store's methods do with it.    *)
(* Each method is one critical section of the store's mutex that loads the *)
(* file, edits it and saves it, so an operator maps the map of records to  *)
(* the next one; who calls it when is the business of SendFlow.  Keys are  *)
(* the spellings NormalizeKey returns.                                     *)
(***************************************************************************)
EXTENDS Integers, FiniteSets

CONSTANTS
    Keys,            \* idempotency keys
    Requests,        \* request hashes
    Txs,             \* transaction ids
    MaxOperations,   \* records a file may hold (512 in the code)
    Retention,       \* age from which an unresolved record is stale (30 days)
    None

ASSUME StoreAssumption ==
    /\ MaxOperations \in Nat \ {0}
    /\ Retention \in Nat
    /\ None \notin Requests \cup Txs

Statuses == {"building", "broadcasting", "pending", "confirmed", "failed", "broadcast_unknown"}

\* lastValid = 0: the record names no expiry height.
Operations == [request : Requests, txHash : Txs \cup {None}, status : Statuses,
               updatedAt : Nat, lastValid : Nat]

InFlight(status) == status \in {"broadcasting", "broadcast_unknown", "pending", "confirmed"}

resolved(status) == status \in {"confirmed", "failed"}

Recorded(ops) == {k \in Keys : ops[k] # None}

\* Mutant: whatever is settled or not may go.
droppableAny(ops, now) == Recorded(ops)

\* What prune may drop.
droppable(ops, now) ==
    {k \in Recorded(ops) : resolved(ops[k].status) \/ now - ops[k].updatedAt >= Retention}

\* The sets of keys prune may drop to make room for one more record: as many
\* as it takes, oldest first.  Empty when it has to refuse.
PruneChoices(ops, now) ==
    LET excess == Cardinality(Recorded(ops)) - (MaxOperations - 1)
        old == droppable(ops, now)
    IN  IF excess <= 0 THEN {{}}
        ELSE {D \in SUBSET old :
                /\ Cardinality(D) = excess
                /\ \A k \in D, l \in old \ D : ops[k].updatedAt <= ops[l].updatedAt}

\* The record Begin writes for a key that has none.
Reserved(request, now) ==
    [request |-> request, txHash |-> None, status |-> "building",
     updatedAt |-> now, lastValid |-> 0]

\* A transaction that is already known keeps its id.
KeptHash(old, txHash) == IF txHash = None THEN old ELSE txHash

\* Update and UpdateExpiring of a record that is there.
Updated(record, txHash, status, lastValid, now) ==
    [record EXCEPT !.txHash = KeptHash(@, txHash),
                   !.lastValid = IF lastValid = 0 THEN @ ELSE lastValid,
                   !.status = status,
                   !.updatedAt = now]

\* UpdateByTxHash stops at the first record it finds under the id.
ByTxHash(ops, txHash) == {k \in Recorded(ops) : ops[k].txHash = txHash}
=============================================================================
