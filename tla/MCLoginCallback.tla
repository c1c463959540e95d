--------------------------- MODULE MCLoginCallback ---------------------------
(* Small instances of LoginCallback: logins are model values.               *)
EXTENDS LoginCallback, TLC
=============================================================================
