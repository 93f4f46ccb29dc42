------------------------------- MODULE MCHub -------------------------------
(* Model checking instance of Hub.                                         *)
EXTENDS Hub
=============================================================================
