------------------------------ MODULE MCHandle ------------------------------
(* Instances of Handle for TLC: goroutines, pools and their sizes are given *)
(* in the .cfg.                                                             *)
EXTENDS Handle
=============================================================================
