------------------------------- MODULE Absent -------------------------------
(* The value the adapters' modules share for "nothing there". *)
CONSTANT None
=============================================================================
