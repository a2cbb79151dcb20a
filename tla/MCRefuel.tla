------------------------------ MODULE MCRefuel ------------------------------
(* Refuel for TLC.  Plans, transactions and requests are interchangeable.  *)
EXTENDS Refuel, TLC

Symmetry == Permutations(Plans) \cup Permutations(Txs)
            \cup Permutations(Handlers) \cup Permutations(Pollers)
=============================================================================
