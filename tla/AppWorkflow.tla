---------------------------- MODULE AppWorkflow ----------------------------
(***************************************************************************)
(* The worker threads of src/app/workflow.rs and the mpsc channel they     *)
(* send their events on.  Each action is the work a thread does up to and  *)
(* including its next send; what the other components do inside that work  *)
(* (hdc, AGC, materials, signing) is a success or a failure chosen by \E.  *)
(* The one thing two workers share besides the channel is the file system: *)
(* the output path is a function of the input path, so two resign workers  *)
(* of the same HAP write the same file.                                    *)
(***************************************************************************)
EXTENDS AppState

CONSTANTS ScanLists,       \* bound: the device lists a scan may return
          LocalMaterials,  \* bound: the answers find_local_materials may give
          MayFail          \* bound: the kinds of thread that may fail

ASSUME WorkflowAssumption ==
  /\ ScanLists \subseteq SUBSET Device
  /\ LocalMaterials \subseteq BOOLEAN
  /\ MayFail \subseteq {"scan", "resign", "install"}

VARIABLES events,     \* the channel, oldest event first
          scans,      \* the number of device-scan threads alive
          resigns,    \* the resign threads, in the order they were spawned
          installs,   \* the install threads, in the order they were spawned
          output      \* output[h]: the device the file output_path(h) is signed for

workerVars == <<events, scans, resigns, installs, output>>

Phase(p)         == [type |-> "Phase", phase |-> p]
Devices(ds)      == [type |-> "Devices", devices |-> ds]
DeviceScanFailed == [type |-> "DeviceScanFailed"]
Signed(w)        == [type |-> "Signed", worker |-> w]
Installed(w)     == [type |-> "Installed", worker |-> w]
Failed           == [type |-> "Failed"]

ResignPcs  == {"spawned", "inspect", "authenticate", "login", "prepare",
               "sign", "written", "done"}
InstallPcs == {"spawned", "push", "launch", "done"}

ResignThreads  == [hap : Hap, device : Device, pc : ResignPcs]
InstallThreads == [resign : Nat, device : Device, pc : InstallPcs,
                   pushed : Device \cup {NoDevice}]

send(e) == events' = Append(events, e)
-----------------------------------------------------------------------------
(* Spawning: the thread exists from here on and runs when it is scheduled. *)

spawn_resign(h, d) ==
  resigns' = Append(resigns, [hap |-> h, device |-> d, pc |-> "spawned"])

\* `pushed` records the device whose signature the file carried when hdc read it.
spawn_install(w, d) ==
  installs' = Append(installs, [resign |-> w, device |-> d, pc |-> "spawned",
                                pushed |-> NoDevice])
-----------------------------------------------------------------------------
(* The device scan: hdc lists the targets and probes each of them.         *)

\* Mutant: the error of a failed scan is swallowed by the thread.
ScanFinish_SilentFailure ==
  /\ scans > 0
  /\ scans' = scans - 1
  /\ \/ \E ds \in ScanLists : send(Devices(ds))
     \/ "scan" \in MayFail /\ UNCHANGED events
  /\ UNCHANGED <<resigns, installs, output>>

ScanFinish ==
  /\ scans > 0
  /\ scans' = scans - 1
  /\ \/ \E ds \in ScanLists : send(Devices(ds))
     \/ "scan" \in MayFail /\ send(DeviceScanFailed)
  /\ UNCHANGED <<resigns, installs, output>>
-----------------------------------------------------------------------------
(* The resign thread.                                                      *)

ResignGoto(w, from, to) ==
  /\ resigns[w].pc = from
  /\ resigns' = [resigns EXCEPT ![w].pc = to]
  /\ UNCHANGED <<scans, installs>>

ResignStart(w) ==
  /\ ResignGoto(w, "spawned", "inspect")
  /\ send(Phase("Inspecting"))
  /\ UNCHANGED output

\* read_hap_info, material_store and find_local_materials.
LocalMaterialsFound(w) ==
  /\ TRUE \in LocalMaterials
  /\ ResignGoto(w, "inspect", "sign")
  /\ send(Phase("Signing"))
  /\ UNCHANGED output

NoLocalMaterials(w) ==
  /\ FALSE \in LocalMaterials
  /\ ResignGoto(w, "inspect", "authenticate")
  /\ send(Phase("Authenticating"))
  /\ UNCHANGED output

\* load_or_login: the stored token is refreshed, or the browser is opened.
TokenRefreshed(w) ==
  /\ ResignGoto(w, "authenticate", "prepare")
  /\ send(Phase("PreparingMaterials"))
  /\ UNCHANGED output

OpenBrowser(w) ==
  /\ ResignGoto(w, "authenticate", "login")
  /\ send(Phase("WaitingForLogin"))
  /\ UNCHANGED output

LoggedIn(w) ==
  /\ ResignGoto(w, "login", "prepare")
  /\ send(Phase("PreparingMaterials"))
  /\ UNCHANGED output

MaterialsPrepared(w) ==
  /\ ResignGoto(w, "prepare", "sign")
  /\ send(Phase("Signing"))
  /\ UNCHANGED output

\* Mutant: the file is announced before it is on disk.
WriteOutput_AnnouncedFirst(w) ==
  /\ ResignGoto(w, "sign", "written")
  /\ send(Signed(w))
  /\ UNCHANGED output

\* sign_hap with the device's profile, then the atomic write of the output.
WriteOutput(w) ==
  /\ ResignGoto(w, "sign", "written")
  /\ output' = [output EXCEPT ![resigns[w].hap] = resigns[w].device]
  /\ UNCHANGED events

SendSigned(w) ==
  /\ ResignGoto(w, "written", "done")
  /\ send(Signed(w))
  /\ UNCHANGED output

\* `?` in resign: the error reaches the closure in spawn_resign.
ResignFailed(w) ==
  /\ "resign" \in MayFail
  /\ \E pc \in {"inspect", "authenticate", "login", "prepare", "sign"} :
        ResignGoto(w, pc, "done")
  /\ send(Failed)
  /\ UNCHANGED output

ResignStep(w) ==
  \/ ResignStart(w) \/ LocalMaterialsFound(w) \/ NoLocalMaterials(w)
  \/ TokenRefreshed(w) \/ OpenBrowser(w) \/ LoggedIn(w)
  \/ MaterialsPrepared(w) \/ WriteOutput(w) \/ SendSigned(w)
  \/ ResignFailed(w)
-----------------------------------------------------------------------------
(* The install thread.                                                     *)

InstallAt(w, pc) ==
  /\ installs[w].pc = pc
  /\ UNCHANGED <<scans, resigns, output>>

InstallStart(w) ==
  /\ InstallAt(w, "spawned")
  /\ installs' = [installs EXCEPT ![w].pc = "push"]
  /\ send(Phase("Installing"))

\* hdc.install reads the signed file and sends it to the device.
Push(w) ==
  /\ InstallAt(w, "push")
  /\ installs' = [installs EXCEPT ![w].pc = "launch",
                                  ![w].pushed = output[resigns[installs[w].resign].hap]]
  /\ UNCHANGED events

\* The device accepted the file; hdc.launch and hdc.pid succeed.
Launched(w) ==
  /\ InstallAt(w, "launch")
  /\ installs' = [installs EXCEPT ![w].pc = "done"]
  /\ send(Installed(w))

\* Mutant: the thread ends without telling the window.
InstallFailed_Silent(w) ==
  /\ "install" \in MayFail
  /\ \E pc \in {"push", "launch"} : InstallAt(w, pc)
  /\ installs' = [installs EXCEPT ![w].pc = "done"]
  /\ UNCHANGED events

InstallFailed(w) ==
  /\ "install" \in MayFail
  /\ \E pc \in {"push", "launch"} : InstallAt(w, pc)
  /\ installs' = [installs EXCEPT ![w].pc = "done"]
  /\ send(Failed)

InstallStep(w) ==
  InstallStart(w) \/ Push(w) \/ Launched(w) \/ InstallFailed(w)
-----------------------------------------------------------------------------
WorkerStep ==
  \/ ScanFinish
  \/ \E w \in DOMAIN resigns : ResignStep(w)
  \/ \E w \in DOMAIN installs : InstallStep(w)

WorkflowTypeOK ==
  /\ events \in Seq(Events)
  /\ scans \in Nat
  /\ resigns \in Seq(ResignThreads)
  /\ installs \in Seq(InstallThreads)
  /\ output \in [Hap -> Device \cup {NoDevice}]
=============================================================================
