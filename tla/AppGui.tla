------------------------------- MODULE AppGui -------------------------------
(***************************************************************************)
(* The user-interface thread of src/app/gui.rs composed with the workers   *)
(* of AppWorkflow.  The UI thread runs frames.  A frame drains the event   *)
(* channel, asks for a scan, starts the automatic install, starts a        *)
(* dropped HAP, draws the header (the device menu) and draws the main card *)
(* (the buttons).  frame says which of these comes next; workers run       *)
(* between any two of them.                                                *)
(*                                                                         *)
(* The three seconds between periodic scans are the flag scan_due, raised  *)
(* by TimerElapses at any moment and lowered when a scan starts.           *)
(***************************************************************************)
EXTENDS AppWorkflow

CONSTANT MaxResigns,    \* bound: resign threads spawned in one run of the program
         MaxInstalls    \* bound: install threads, above what the invariants allow

ASSUME BoundAssumption == MaxResigns \in Nat /\ MaxInstalls \in Nat

VARIABLES state,                  \* AppState
          selected_hap,
          operation_device,       \* the device captured by start_resign
          remembered_device_udid,
          device_scan_running,
          device_scan_pending,
          scan_due,               \* DEVICE_SCAN_INTERVAL has elapsed
          install_started,
          frame                   \* the next stage of the UI frame

guiVars == <<state, selected_hap, operation_device, remembered_device_udid,
             device_scan_running, device_scan_pending, scan_due,
             install_started, frame>>
vars == <<workerVars, guiVars>>

scanVars == <<scans, device_scan_running, device_scan_pending, scan_due>>
deviceVars == <<operation_device, remembered_device_udid>>

Stages == {"drain", "drop", "header", "card"}
-----------------------------------------------------------------------------
(* The decisions of gui.rs that are plain functions.                       *)

\* Mutant: the running scan is not looked at.
device_scan_plan_Reckless(phase, running, pending, elapsed, menu_just_opened) ==
  [start   |-> device_controls_enabled(phase) /\ (pending \/ menu_just_opened \/ elapsed),
   pending |-> FALSE]

device_scan_plan(phase, running, pending, elapsed, menu_just_opened) ==
  LET enabled   == device_controls_enabled(phase)
      requested == pending \/ menu_just_opened \/ elapsed
  IN  [start   |-> enabled /\ requested /\ ~running,
       pending |-> enabled /\ requested /\ running]

\* Mutant: the current selection is kept without looking it up in the new list.
resolve_selected_device_Sticky(devices, current, remembered) ==
  IF current # NoDevice THEN current
  ELSE IF remembered \in devices THEN remembered
  ELSE NoDevice

resolve_selected_device(devices, current, remembered) ==
  IF \E d \in Device : devices = {d} THEN CHOOSE d \in devices : TRUE
  ELSE IF current \in devices THEN current
  ELSE IF remembered \in devices THEN remembered
  ELSE NoDevice

should_auto_install(phase, started) == phase = "ReadyToInstall" /\ ~started
-----------------------------------------------------------------------------
(* The methods of HapResignerApp, each as the change it makes.             *)

\* request_device_scan, called with the phase and scan_running of that moment.
request_device_scan(phase, running, menu_just_opened) ==
  LET plan == device_scan_plan(phase, running, device_scan_pending, scan_due,
                               menu_just_opened)
  IN  /\ device_scan_pending' = plan.pending
      /\ device_scan_running' = (running \/ plan.start)
      /\ scan_due' = (scan_due /\ ~plan.start)
      /\ scans' = IF plan.start THEN scans + 1 ELSE scans

NoDeviceSelected ==
  /\ state' = ApplyFailed(state)
  /\ UNCHANGED <<selected_hap, operation_device, install_started, resigns>>

\* Mutant: the target is not captured when the operation starts.
start_resign_NoCapture(h) ==
  IF ~can_start(state) \/ state.device = NoDevice THEN
    UNCHANGED <<state, selected_hap, operation_device, install_started, resigns>>
  ELSE
    /\ Len(resigns) < MaxResigns
    /\ selected_hap' = h
    /\ install_started' = FALSE
    /\ state' = [ApplyPhase(state, "Inspecting") EXCEPT !.signed_hap = NoWorker]
    /\ spawn_resign(h, state.device)
    /\ UNCHANGED operation_device

start_resign(h) ==
  IF ~can_start(state) THEN
    UNCHANGED <<state, selected_hap, operation_device, install_started, resigns>>
  ELSE IF state.device = NoDevice THEN NoDeviceSelected
  ELSE
    /\ Len(resigns) < MaxResigns
    /\ selected_hap' = h
    /\ operation_device' = state.device
    /\ install_started' = FALSE
    /\ state' = [ApplyPhase(state, "Inspecting") EXCEPT !.signed_hap = NoWorker]
    /\ spawn_resign(h, state.device)

\* The file dialog is modal: the user picks a HAP or cancels.
choose_hap ==
  IF state.device = NoDevice THEN NoDeviceSelected
  ELSE \E h \in Hap : start_resign(h)

retry ==
  IF state.device = NoDevice THEN NoDeviceSelected
  ELSE IF selected_hap # NoHap THEN start_resign(selected_hap)
  ELSE choose_hap

\* The code's Failed branch for a missing operation_device cannot be reached: a
\* Signed event comes from a resign thread, and start_resign set the device
\* before it spawned one.  TypeOK refutes an install spawned without a device.
\* Mutant: the device selected now instead of the one the operation began with.
start_install_CurrentDevice ==
  IF install_started \/ ~can_install(state) \/ state.device = NoDevice
    THEN UNCHANGED <<install_started, installs>>
    ELSE /\ Len(installs) < MaxInstalls
         /\ install_started' = TRUE
         /\ spawn_install(state.signed_hap, state.device)

\* Mutant: nothing remembers that the install has been started.
start_install_Unmarked ==
  IF install_started \/ ~can_install(state)
    THEN UNCHANGED <<install_started, installs>>
    ELSE /\ Len(installs) < MaxInstalls
         /\ spawn_install(state.signed_hap, operation_device)
         /\ UNCHANGED install_started

start_install ==
  IF install_started \/ ~can_install(state)
    THEN UNCHANGED <<install_started, installs>>
    ELSE /\ Len(installs) < MaxInstalls
         /\ install_started' = TRUE
         /\ spawn_install(state.signed_hap, operation_device)
-----------------------------------------------------------------------------
(* The stages of a frame.                                                  *)

\* Mutant: only a successful scan clears the running flag.
HandleScanEvent_FailureKeepsFlag ==
  /\ frame = "drain" /\ events # <<>>
  /\ Head(events).type \in {"Devices", "DeviceScanFailed"}
  /\ LET e == Head(events) IN
       /\ state' = IF e.type = "Devices"
                   THEN [apply(state, e) EXCEPT
                           !.device = resolve_selected_device(e.devices, state.device,
                                                              remembered_device_udid)]
                   ELSE apply(state, e)
       /\ request_device_scan(state.phase, e.type = "DeviceScanFailed", FALSE)
  /\ events' = Tail(events)
  /\ UNCHANGED <<resigns, installs, output, selected_hap, deviceVars,
                 install_started, frame>>

\* try_recv returns an event, handle_event applies it.
HandleScanEvent ==
  /\ frame = "drain" /\ events # <<>>
  /\ Head(events).type \in {"Devices", "DeviceScanFailed"}
  /\ LET e == Head(events) IN
       state' = IF e.type = "Devices"
                THEN [apply(state, e) EXCEPT
                        !.device = resolve_selected_device(e.devices, state.device,
                                                           remembered_device_udid)]
                ELSE apply(state, e)
  /\ events' = Tail(events)
  /\ request_device_scan(state.phase, FALSE, FALSE)
  /\ UNCHANGED <<resigns, installs, output, selected_hap, deviceVars,
                 install_started, frame>>

HandlePipelineEvent ==
  /\ frame = "drain" /\ events # <<>>
  /\ Head(events).type \in {"Phase", "Signed", "Installed", "Failed"}
  /\ state' = apply(state, Head(events))
  /\ events' = Tail(events)
  /\ UNCHANGED <<scanVars, resigns, installs, output, selected_hap, deviceVars,
                 install_started, frame>>

\* The channel is empty: the frame's own scan request, then the automatic install.
EndDrain ==
  /\ frame = "drain" /\ events = <<>>
  /\ request_device_scan(state.phase, device_scan_running, FALSE)
  /\ IF should_auto_install(state.phase, install_started)
       THEN start_install
       ELSE UNCHANGED <<install_started, installs>>
  /\ frame' = "drop"
  /\ UNCHANGED <<events, resigns, output, state, selected_hap, deviceVars>>

\* handle_dropped_files, with a HAP among the dropped files or with none.
DroppedFiles ==
  /\ frame = "drop"
  /\ \/ \E h \in Hap : start_resign(h)
     \/ UNCHANGED <<state, selected_hap, operation_device, install_started, resigns>>
  /\ frame' = "header"
  /\ UNCHANGED <<scanVars, events, installs, output, remembered_device_udid>>

\* The header without a selection: the device menu may have just been opened.
Header ==
  /\ frame = "header"
  /\ \E opened \in BOOLEAN :
       /\ opened => device_controls_enabled(state.phase)
       /\ request_device_scan(state.phase, device_scan_running, opened)
  /\ frame' = "card"
  /\ UNCHANGED <<events, resigns, installs, output, state, selected_hap,
                 deviceVars, install_started>>

\* The header with a click on a row of the open menu.
SelectDevice ==
  /\ frame = "header"
  /\ device_controls_enabled(state.phase)
  /\ request_device_scan(state.phase, device_scan_running, FALSE)
  /\ \E d \in state.devices \ {state.device} :
       /\ remembered_device_udid' = d
       /\ state' = [state EXCEPT !.device = d]
  /\ frame' = "card"
  /\ UNCHANGED <<events, resigns, installs, output, selected_hap,
                 operation_device, install_started>>

\* The buttons of the main card, or no click.
MainCard ==
  /\ frame = "card"
  /\ \/ state.phase \in {"Idle", "Done", "Error"} /\ choose_hap
     \/ state.phase = "Error" /\ retry
     \/ UNCHANGED <<state, selected_hap, operation_device, install_started, resigns>>
  /\ frame' = "drain"
  /\ UNCHANGED <<scanVars, events, installs, output, remembered_device_udid>>

TimerElapses ==
  /\ ~scan_due
  /\ scan_due' = TRUE
  /\ UNCHANGED <<workerVars, state, selected_hap, deviceVars, device_scan_running,
                 device_scan_pending, install_started, frame>>
-----------------------------------------------------------------------------
\* HapResignerApp::new spawns the first scan; the remembered UDID comes from storage.
Init ==
  /\ events = <<>> /\ scans = 1 /\ resigns = <<>> /\ installs = <<>>
  /\ output \in [Hap -> {NoDevice}]
  /\ state = DefaultState
  /\ selected_hap = NoHap
  /\ operation_device = NoDevice
  /\ remembered_device_udid \in Device \cup {NoDevice}
  /\ device_scan_running = TRUE
  /\ device_scan_pending = FALSE
  /\ scan_due = FALSE
  /\ install_started = FALSE
  /\ frame = "drain"

UiStep ==
  \/ HandleScanEvent \/ HandlePipelineEvent \/ EndDrain \/ DroppedFiles
  \/ Header \/ SelectDevice \/ MainCard

Next ==
  \/ UiStep
  \/ TimerElapses
  \/ WorkerStep /\ UNCHANGED guiVars

Spec == Init /\ [][Next]_vars

\* The frame loop never stops (each frame asks for a repaint within 100 ms), time
\* passes, and resign threads go on: their requests and the login have timeouts.
\* Nothing is assumed of the user, and nothing of scan and install threads: the
\* HDC commands they wait for have no timeout, so either may hang for ever.
Fairness ==
  /\ WF_vars(UiStep)
  /\ WF_vars(TimerElapses)
  /\ \A w \in 1..MaxResigns :
       WF_vars(w \in DOMAIN resigns /\ ResignStep(w) /\ UNCHANGED guiVars)

FairSpec == Spec /\ Fairness
-----------------------------------------------------------------------------
(* Invariants.                                                             *)

TypeOK ==
  /\ WorkflowTypeOK
  /\ state \in States
  /\ selected_hap \in Hap \cup {NoHap}
  /\ operation_device \in Device \cup {NoDevice}
  /\ remembered_device_udid \in Device \cup {NoDevice}
  /\ device_scan_running \in BOOLEAN
  /\ device_scan_pending \in BOOLEAN
  /\ scan_due \in BOOLEAN
  /\ install_started \in BOOLEAN
  /\ frame \in Stages

IsScanEvent(e) == e.type \in {"Devices", "DeviceScanFailed"}

\* The scan results waiting in the channel.
ScanResults == {i \in DOMAIN events : IsScanEvent(events[i])}

\* device_scan_running is exact: it is set while one scan thread is alive or its
\* one result waits in the channel, and cleared otherwise.  A second scan would
\* share hdc with the first and clear the flag early; a flag left set would stop
\* scanning for ever (gui.rs:165-206 and the spawn in new).
OneScan ==
  /\ device_scan_running => \/ scans = 1 /\ ScanResults = {}
                            \/ scans = 0 /\ \E i \in DOMAIN events : ScanResults = {i}
  /\ ~device_scan_running => scans = 0 /\ ScanResults = {}

\* A selected device is one of the listed devices, and a lone listed device is
\* selected: the target shown in the header is never stale with respect to the
\* list below it (gui.rs:165-182, 328-403, resolve_selected_device).
SelectionListed ==
  /\ state.device # NoDevice => state.device \in state.devices
  /\ \A d \in Device : state.devices = {d} => state.device = d

\* Each signed file is installed at most once: no two install threads serve the
\* Signed event of the same resign thread, whatever the order in which frames,
\* drops and late events of other workers come (start_install, start_resign;
\* test ready_hap_triggers_install_exactly_once).
InstallOnce ==
  \A i, j \in DOMAIN installs : installs[i].resign = installs[j].resign => i = j

\* A device receives a file only after the resign thread the install serves has
\* ended, and only a file that is signed for some device: a HAP is never pushed
\* half-signed or unsigned (events are handled after the atomic write).
PushAfterSign ==
  \A i \in DOMAIN installs :
    /\ installs[i].resign \in DOMAIN resigns
    /\ resigns[installs[i].resign].pc = "done"
    /\ installs[i].pc = "launch" => installs[i].pushed # NoDevice

\* An install for a device other than the one its file was signed for needs a
\* resign thread spawned after the one that signed: as long as the operation is
\* the last one started, scans and selections that happen meanwhile never
\* redirect it (operation_device is captured in start_resign).
NoRedirect ==
  \A i \in DOMAIN installs :
    installs[i].device # resigns[installs[i].resign].device
      => installs[i].resign < Len(resigns)

\* What a device receives was signed for that device.
RightDevice ==
  \A i \in DOMAIN installs :
    installs[i].pushed \in {NoDevice, installs[i].device}

\* Once the frame has passed its automatic install, the file the window shows as
\* ready has an install thread of its own.
ReadyIsInstalled ==
  state.phase = "ReadyToInstall" /\ frame # "drain" =>
    \E i \in DOMAIN installs : installs[i].resign = state.signed_hap

(* The inductive strengthening of InstallOnce, PushAfterSign and NoRedirect. *)

\* The resign thread w has ended after writing its output.
Delivered(w) ==
  /\ w \in DOMAIN resigns
  /\ resigns[w].pc = "done"
  /\ output[resigns[w].hap] # NoDevice

IsSignedOf(e, w) == e.type = "Signed" /\ e.worker = w

\* A Signed event on its way is the only trace of its resign thread: it is not
\* the file shown as signed, no install serves it, and it is there once.
SignedOnTheWay ==
  \A i \in DOMAIN events : events[i].type = "Signed" =>
    /\ Delivered(events[i].worker)
    /\ state.signed_hap # events[i].worker
    /\ \A j \in DOMAIN installs : installs[j].resign # events[i].worker
    /\ \A k \in DOMAIN events : IsSignedOf(events[k], events[i].worker) => k = i

\* The file shown as signed is on disk; once an install serves it the flag is set.
SignedShown ==
  /\ state.signed_hap # NoWorker => Delivered(state.signed_hap)
  /\ \A j \in DOMAIN installs :
       /\ Delivered(installs[j].resign)
       /\ installs[j].resign = state.signed_hap => install_started
       /\ installs[j].pc = "launch" => installs[j].pushed # NoDevice

\* The captured device is that of the last resign thread, and a thread that is
\* about to announce its file has written it.
Captured ==
  /\ resigns # <<>> => operation_device = resigns[Len(resigns)].device
  /\ \A w \in DOMAIN resigns :
       resigns[w].pc = "written" => output[resigns[w].hap] # NoDevice

PipelineInv ==
  TypeOK /\ SignedOnTheWay /\ SignedShown /\ Captured /\ InstallOnce /\ NoRedirect
-----------------------------------------------------------------------------
(* Temporal properties.                                                    *)

\* While the window rests in a phase with a usable device menu, a fresh scan is
\* started again and again: no interleaving of timer, menu and results loses
\* the request (device_scan_plan).
KeepsScanning ==
  <>[]device_controls_enabled(state.phase) => []<>(scans > 0)

\* The slot of DeviceScanSlot: how far the outstanding scan has come.
ScanSlot == CASE scans = 0 /\ ScanResults = {} -> "free"
              [] scans = 1 /\ ScanResults = {} -> "probing"
              [] scans = 0 /\ ScanResults # {} -> "arriving"
              [] OTHER -> "doubled"

Slot == INSTANCE DeviceScanSlot WITH slot <- ScanSlot

\* Scanning implements the one-scan slot: a scan that ends delivers its one result,
\* success or failure, and the window takes it, whatever the pipeline threads put
\* into the same channel meanwhile.  A scan that hangs keeps the slot.
ScansOneAtATime == Slot!Spec

\* No install thread waits for ever for an HDC command.
InstallsReturn ==
  \A j \in 1..MaxInstalls : []<>(j \in DOMAIN installs => installs[j].pc = "done")

\* Every operation comes to an end the user sees when the install threads' commands
\* return: a busy phase is left for Idle, Done or Error (each worker ends with
\* Signed, Installed or Failed, and a Signed file is installed without the user).
\* A scan thread that hangs does not stand in the way.
OperationEnds ==
  InstallsReturn =>
    (~device_controls_enabled(state.phase) ~> device_controls_enabled(state.phase))
=============================================================================
