----------------------------- MODULE MCWithdraw -----------------------------
(* Instances of Withdraw for TLC.                                             *)
EXTENDS Withdraw, TLC
=============================================================================
