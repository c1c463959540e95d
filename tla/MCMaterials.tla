----------------------------- MODULE MCMaterials -----------------------------
(* Small instances of Materials: stems, bundles and devices are model values. *)
EXTENDS Materials, TLC
=============================================================================
