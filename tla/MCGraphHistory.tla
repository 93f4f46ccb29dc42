--------------------------- MODULE MCGraphHistory ---------------------------
(* Model checking instance of GraphHistory.                                *)
EXTENDS GraphHistory
=============================================================================
