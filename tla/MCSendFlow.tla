----------------------------- MODULE MCSendFlow -----------------------------
(* SendFlow for TLC.  Keys, transactions, handlers and status requests are *)
(* interchangeable.                                                        *)
EXTENDS SendFlow, TLC

Symmetry == Permutations(Keys) \cup Permutations(Txs)
            \cup Permutations(Handlers) \cup Permutations(Pollers)
=============================================================================
