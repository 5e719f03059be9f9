----------------------------- MODULE MCCustody ------------------------------
(* Instances of Custody for TLC.                                              *)
EXTENDS Custody, TLC

Symmetry ==
    Permutations(Owner) \cup Permutations(Id) \cup Permutations(Creates)
        \cup Permutations(Deletes) \cup Permutations(Transfers)
=============================================================================
