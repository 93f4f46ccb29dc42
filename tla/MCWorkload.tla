----------------------------- MODULE MCWorkload -----------------------------
(* Model checking instance of Workload.                                    *)
EXTENDS Workload
=============================================================================
