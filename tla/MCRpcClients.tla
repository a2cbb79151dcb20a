---------------------------- MODULE MCRpcClients ----------------------------
(* Symmetry for the runs of RpcClients. *)
EXTENDS RpcClients, TLC

Symmetry == Permutations(Requests)
=============================================================================
