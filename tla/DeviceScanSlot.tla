--------------------------- MODULE DeviceScanSlot ---------------------------
(***************************************************************************)
(* What the window promises about device scanning: there is one scan at    *)
(* a time; it is free, or a thread is probing the devices, or its result   *)
(* is on its way to the window.  A scan that ends delivers one result, and *)
(* the window takes every result, at which moment the next scan may        *)
(* already start.  A scan may also never end: the commands it waits for    *)
(* have no timeout.  AppGui implements this with a flag, a thread and the  *)
(* event channel it shares with every other worker.                        *)
(***************************************************************************)
VARIABLE slot

TypeOK == slot \in {"free", "probing", "arriving"}

Init == slot = "probing"

Start   == slot = "free" /\ slot' = "probing"
Deliver == slot = "probing" /\ slot' = "arriving"
Take    == slot = "arriving" /\ slot' \in {"free", "probing"}

Next == Start \/ Deliver \/ Take

SafeSpec == Init /\ [][Next]_slot

Spec == SafeSpec /\ WF_slot(Take)
=============================================================================
