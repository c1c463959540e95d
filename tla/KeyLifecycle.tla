---------------------------- MODULE KeyLifecycle ----------------------------
(***************************************************************************)
(* What the material store promises about the signing key of a team: a key *)
(* is first pending (generated, its certificate not stored yet) and leaves *)
(* that state only as the certified key.  A certified key may be forgotten *)
(* for a new one, a pending key never is.                                  *)
(***************************************************************************)
EXTENDS Integers

VARIABLES stage,   \* "none", "pending" or "certified"
          key      \* the key of a pending or certified stage

NoKey == -1

Init == stage = "none" /\ key = NoKey

Reserve == stage # "pending" /\ stage' = "pending" /\ key' \in Nat \ {key}

Certify == stage = "pending" /\ stage' = "certified" /\ key' = key

Forget == stage = "certified" /\ stage' = "none" /\ key' = NoKey

Next == Reserve \/ Certify \/ Forget

Spec == Init /\ [][Next]_<<stage, key>>
=============================================================================
