----------------------------- MODULE MCTuiStream -----------------------------
EXTENDS TuiStream
=============================================================================
