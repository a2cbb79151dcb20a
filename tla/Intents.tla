------------------------------ MODULE Intents ------------------------------
(***************************************************************************)
(* What the wallet promises about an idempotency key, without records,     *)
(* handlers, nodes or crashes: one intent is signed once and takes effect  *)
(* once at most, what can no longer take effect stays so, and whoever is   *)
(* told that it failed may sign another, because this one is over.  The    *)
(* promise ends when the record of the key is pruned.                      *)
(***************************************************************************)
CONSTANT Keys

VARIABLES
    fate,   \* of each key's transaction
    told    \* what a client that asks for the key is told

vars == <<fate, told>>

Fates == {"none", "open", "done", "void", "dropped"}
Tellings == {"open", "confirmed", "failed"}

Init ==
    /\ fate = [k \in Keys |-> "none"]
    /\ told = [k \in Keys |-> "open"]

Becomes(k, f) == fate'[k] = f /\ told'[k] = told[k]

\* Nothing is signed for a key that was given up.
Sign(k) == fate[k] = "none" /\ told[k] # "failed" /\ Becomes(k, "open")

TakeEffect(k) == fate[k] = "open" /\ Becomes(k, "done")

\* Refused, reverted or expired.
Void(k) == fate[k] = "open" /\ Becomes(k, "void")

\* An answer may be withdrawn: a late write takes "confirmed" back to pending.
Tell(k) ==
    /\ fate[k] # "dropped" /\ fate'[k] = fate[k]
    /\ \/ told'[k] = "open"
       \/ told'[k] = "confirmed" /\ fate[k] = "done"
       \/ told'[k] = "failed" /\ fate[k] \in {"none", "void"}

Drop(k) == fate[k] # "dropped" /\ fate'[k] = "dropped" /\ told'[k] = "open"

\* A block or a prune may decide several keys at once.
Next ==
    /\ fate' \in [Keys -> Fates] /\ told' \in [Keys -> Tellings]
    /\ \A k \in Keys : Sign(k) \/ TakeEffect(k) \/ Void(k) \/ Tell(k) \/ Drop(k) \/ Becomes(k, fate[k])

Spec == Init /\ [][Next]_vars
=============================================================================
