----------------------------- MODULE MCNodeHost -----------------------------
(* Instances of NodeHost for TLC.                                             *)
EXTENDS NodeHost, TLC


=============================================================================
