------------------------------ MODULE MCServe ------------------------------
(* Model checking instance of Serve.                                       *)
EXTENDS Serve
=============================================================================
