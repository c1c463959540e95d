----------------------------- MODULE MCHdcInline -----------------------------
(* Small instances of HdcInline: threads and targets are model values.      *)
EXTENDS HdcInline, TLC
=============================================================================
