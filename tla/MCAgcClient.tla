----------------------------- MODULE MCAgcClient -----------------------------
(* Small instances of AgcClient: clients and names are model values.        *)
EXTENDS AgcClient, TLC
=============================================================================
