------------------------------ MODULE MCLoader ------------------------------
(* Model values and symmetry for the runs of Loader. *)
EXTENDS LoaderInv

(* Addresses, pids and launches of a kind are interchangeable: nothing      *)
(* compares them but for equality.                                          *)
Symmetry ==
  Permutations(Child) \cup Permutations(Pids) \cup Permutations(Launch \ Terminal)
=============================================================================
