------------------------------ MODULE MCMkdirAll ------------------------------
(* MkdirAll for TLC: the values are model values, in MCMkdirAll.cfg.        *)
EXTENDS MkdirAll
=============================================================================
