----------------------------- MODULE MCBundles ------------------------------
(* Instances of Bundles for TLC.                                              *)
EXTENDS Bundles, TLC
=============================================================================
