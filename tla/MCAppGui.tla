------------------------------ MODULE MCAppGui ------------------------------
(* Small instances of AppGui: devices and HAPs are model values.            *)
EXTENDS AppGui, TLC

SingleList == {{d} : d \in Device}

Symmetry == Permutations(Device) \cup Permutations(Hap)
=============================================================================
