------------------------------ MODULE AppState ------------------------------
(***************************************************************************)
(* The application state shown by the window (src/app/state.rs): the      *)
(* phases of a signing operation, the events the worker threads send to    *)
(* the user-interface thread, and what applying an event does.             *)
(*                                                                         *)
(* A device is its UDID: the code looks devices up by udid only, and the   *)
(* model takes one hdc target per udid.  A resign worker and an install    *)
(* worker are numbered in the order they are spawned; a Signed event names *)
(* its resign worker, an Installed event its install worker.  The path,    *)
(* bundle and ability a Signed event carries are functions of that worker, *)
(* so signed_hap stands for the three fields that are set and cleared      *)
(* together.  Log entries and error texts are left out: error and          *)
(* device_scan_error only say whether there is one.                        *)
(***************************************************************************)
EXTENDS Naturals, Sequences

CONSTANTS Device,     \* the devices (UDIDs) that can be connected
          Hap,        \* the HAP files the user can choose
          NoDevice,   \* no device
          NoHap,      \* no HAP file
          NoPhase     \* no failed phase

ASSUME AppAssumption ==
  /\ NoDevice \notin Device
  /\ NoHap \notin Hap
  /\ Hap # {}

Phases == {"Idle", "Inspecting", "Authenticating", "WaitingForLogin",
           "PreparingMaterials", "Signing", "ReadyToInstall", "Installing",
           "Done", "Error"}

ASSUME NoPhaseAssumption == NoPhase \notin Phases

NoWorker == 0

Events ==
       [type : {"Phase"}, phase : Phases]
  \cup [type : {"Devices"}, devices : SUBSET Device]
  \cup [type : {"DeviceScanFailed"}]
  \cup [type : {"Signed"}, worker : Nat]
  \cup [type : {"Installed"}, worker : Nat]
  \cup [type : {"Failed"}]

States ==
  [phase : Phases, failed_phase : Phases \cup {NoPhase}, error : BOOLEAN,
   device_scan_error : BOOLEAN, devices : SUBSET Device,
   device : Device \cup {NoDevice}, signed_hap : Nat, pid : Nat]

DefaultState ==
  [phase |-> "Idle", failed_phase |-> NoPhase, error |-> FALSE,
   device_scan_error |-> FALSE, devices |-> {}, device |-> NoDevice,
   signed_hap |-> NoWorker, pid |-> NoWorker]

can_start(s) == s.phase \in {"Idle", "ReadyToInstall", "Done", "Error"}

can_install(s) == s.phase = "ReadyToInstall" /\ s.signed_hap # NoWorker

\* The phases in which the header's device menu works.
device_controls_enabled(phase) == phase \in {"Idle", "Done", "Error"}

ApplyPhase(s, p) ==
  IF p = "Inspecting"
    THEN [s EXCEPT !.phase = p, !.error = FALSE, !.failed_phase = NoPhase,
                   !.pid = NoWorker]
    ELSE [s EXCEPT !.phase = p]

ApplyFailed(s) ==
  [s EXCEPT !.failed_phase = s.phase, !.error = TRUE, !.phase = "Error"]

apply(s, e) ==
  CASE e.type = "Phase"     -> ApplyPhase(s, e.phase)
    [] e.type = "Devices"   -> [s EXCEPT !.devices = e.devices,
                                         !.device_scan_error = FALSE]
    [] e.type = "DeviceScanFailed" -> [s EXCEPT !.device_scan_error = TRUE]
    [] e.type = "Signed"    -> [s EXCEPT !.signed_hap = e.worker,
                                         !.phase = "ReadyToInstall"]
    [] e.type = "Installed" -> [s EXCEPT !.pid = e.worker, !.phase = "Done"]
    [] e.type = "Failed"    -> ApplyFailed(s)
=============================================================================
