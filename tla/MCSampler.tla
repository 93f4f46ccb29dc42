----------------------------- MODULE MCSampler -----------------------------
(* Model checking instance of Sampler.                                     *)
EXTENDS Sampler
=============================================================================
