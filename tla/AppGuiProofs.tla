---------------------------- MODULE AppGuiProofs ----------------------------
(***************************************************************************)
(* Proofs about AppGui for any devices, HAPs and bounds.                   *)
(***************************************************************************)
EXTENDS AppGui, SequenceTheorems, TLAPS

(* Appending to and taking from a sequence, index by index. *)

\* Appending adds one place at the end and moves no other element.
LEMMA AppendFacts ==
  ASSUME NEW S, NEW s \in Seq(S), NEW e \in S
  PROVE  /\ Append(s, e) \in Seq(S)
         /\ Len(Append(s, e)) = Len(s) + 1
         /\ DOMAIN Append(s, e) = 1..(Len(s) + 1)
         /\ \A i \in DOMAIN Append(s, e) :
              \/ i \in DOMAIN s /\ Append(s, e)[i] = s[i]
              \/ i = Len(s) + 1 /\ Append(s, e)[i] = e
         /\ \A i \in DOMAIN s : /\ i \in DOMAIN Append(s, e)
                                /\ Append(s, e)[i] = s[i]
<1>1. /\ Append(s, e) \in Seq(S)
      /\ Len(Append(s, e)) = Len(s) + 1
      /\ \A i \in 1..Len(s) : Append(s, e)[i] = s[i]
      /\ Append(s, e)[Len(s) + 1] = e
  BY AppendProperties
<1>2. Len(s) \in Nat /\ DOMAIN s = 1..Len(s)
  BY LenProperties
<1>3. DOMAIN Append(s, e) = 1..(Len(s) + 1)
  BY <1>1, LenProperties
<1> QED BY <1>1, <1>2, <1>3

\* Dropping the head moves every other element one place forward.
LEMMA TailFacts ==
  ASSUME NEW S, NEW s \in Seq(S), s # <<>>
  PROVE  /\ Tail(s) \in Seq(S)
         /\ Head(s) = s[1] /\ 1 \in DOMAIN s
         /\ \A i \in DOMAIN Tail(s) : i + 1 \in DOMAIN s /\ Tail(s)[i] = s[i + 1]
         /\ \A i \in DOMAIN s : i # 1 => i - 1 \in DOMAIN Tail(s) /\ Tail(s)[i - 1] = s[i]
         /\ \A i \in DOMAIN s : i \in Int
<1>1. /\ Tail(s) \in Seq(S)
      /\ Len(Tail(s)) = Len(s) - 1
      /\ \A i \in 1..Len(Tail(s)) : Tail(s)[i] = s[i + 1]
  BY HeadTailProperties
<1>2. Len(s) \in Nat /\ DOMAIN s = 1..Len(s) /\ Len(s) # 0
  BY LenProperties, EmptySeq
<1>3. DOMAIN Tail(s) = 1..(Len(s) - 1)
  BY <1>1, LenProperties
<1>4. Head(s) = s[1]
  OBVIOUS
<1> QED BY <1>1, <1>2, <1>3, <1>4
-----------------------------------------------------------------------------
(* Type correctness.                                                       *)

\* apply gives a state for every event of the channel.
LEMMA ApplyType ==
  ASSUME NEW s \in States, NEW e \in Events
  PROVE  apply(s, e) \in States
<1>1. CASE e \in [type : {"Phase"}, phase : Phases]
  <2>1. e.type = "Phase" /\ e.phase \in Phases
    BY <1>1
  <2>2. apply(s, e) = ApplyPhase(s, e.phase)
    BY <2>1 DEF apply
  <2>3. CASE e.phase = "Inspecting"
    <3>1. apply(s, e) = [s EXCEPT !.phase = e.phase, !.error = FALSE,
                                  !.failed_phase = NoPhase, !.pid = NoWorker]
      BY <2>2, <2>3 DEF ApplyPhase
    <3>2. [s EXCEPT !.phase = e.phase, !.error = FALSE] \in States
      BY <2>1 DEF States
    <3>3. ASSUME NEW t \in States
          PROVE  [t EXCEPT !.failed_phase = NoPhase, !.pid = NoWorker] \in States
      BY DEF States, NoWorker
    <3> QED BY <3>1, <3>2, <3>3
  <2>4. CASE e.phase # "Inspecting"
    <3>1. apply(s, e) = [s EXCEPT !.phase = e.phase]
      BY <2>2, <2>4 DEF ApplyPhase
    <3> QED BY <2>1, <3>1 DEF States
  <2> QED BY <2>3, <2>4
<1>2. CASE e \in [type : {"Devices"}, devices : SUBSET Device]
  <2>1. e.type = "Devices" /\ e.devices \in SUBSET Device
    BY <1>2
  <2>2. apply(s, e) = [s EXCEPT !.devices = e.devices, !.device_scan_error = FALSE]
    BY <2>1 DEF apply
  <2> QED BY <2>1, <2>2 DEF States
<1>3. CASE e \in [type : {"DeviceScanFailed"}]
  <2>1. e.type = "DeviceScanFailed"
    BY <1>3
  <2>2. apply(s, e) = [s EXCEPT !.device_scan_error = TRUE]
    BY <2>1 DEF apply
  <2> QED BY <2>2 DEF States
<1>4. CASE e \in [type : {"Signed"}, worker : Nat]
  <2>1. e.type = "Signed" /\ e.worker \in Nat
    BY <1>4
  <2>2. apply(s, e) = [s EXCEPT !.signed_hap = e.worker, !.phase = "ReadyToInstall"]
    BY <2>1 DEF apply
  <2> QED BY <2>1, <2>2 DEF States, Phases
<1>5. CASE e \in [type : {"Installed"}, worker : Nat]
  <2>1. e.type = "Installed" /\ e.worker \in Nat
    BY <1>5
  <2>2. apply(s, e) = [s EXCEPT !.pid = e.worker, !.phase = "Done"]
    BY <2>1 DEF apply
  <2> QED BY <2>1, <2>2 DEF States, Phases
<1>6. CASE e \in [type : {"Failed"}]
  <2>1. e.type = "Failed"
    BY <1>6
  <2>2. apply(s, e) = ApplyFailed(s)
    BY <2>1 DEF apply
  <2> QED BY <2>2 DEF ApplyFailed, States, Phases
<1> QED BY <1>1, <1>2, <1>3, <1>4, <1>5, <1>6 DEF Events

\* What apply leaves alone: only a Signed event changes signed_hap, only a Devices
\* event the device list, and none the selected device.
LEMMA ApplyFrame ==
  ASSUME NEW s \in States, NEW e \in Events
  PROVE  /\ apply(s, e).signed_hap = IF e.type = "Signed" THEN e.worker ELSE s.signed_hap
         /\ apply(s, e).devices = IF e.type = "Devices" THEN e.devices ELSE s.devices
         /\ apply(s, e).device = s.device
<1>1. e.type \in {"Phase", "Devices", "DeviceScanFailed", "Signed", "Installed", "Failed"}
  BY DEF Events
<1>2. CASE e.type = "Phase"
  BY <1>2 DEF apply, ApplyPhase, States
<1>3. CASE e.type = "Devices"
  BY <1>3 DEF apply, States
<1>4. CASE e.type = "DeviceScanFailed"
  BY <1>4 DEF apply, States
<1>5. CASE e.type = "Signed"
  BY <1>5 DEF apply, States
<1>6. CASE e.type = "Installed"
  BY <1>6 DEF apply, States
<1>7. CASE e.type = "Failed"
  BY <1>7 DEF apply, ApplyFailed, States
<1> QED BY <1>1, <1>2, <1>3, <1>4, <1>5, <1>6, <1>7

\* The device that is resolved is a connected one, or none.
LEMMA ResolveType ==
  ASSUME NEW ds \in SUBSET Device, NEW cur, NEW rem
  PROVE  /\ resolve_selected_device(ds, cur, rem) \in Device \cup {NoDevice}
         /\ resolve_selected_device(ds, cur, rem) # NoDevice
               => resolve_selected_device(ds, cur, rem) \in ds
         /\ \A d \in Device : ds = {d} => resolve_selected_device(ds, cur, rem) = d
<1>1. CASE \E d \in Device : ds = {d}
  <2>1. PICK d \in Device : ds = {d}
    BY <1>1
  <2>2. resolve_selected_device(ds, cur, rem) = CHOOSE x \in ds : TRUE
    BY <1>1 DEF resolve_selected_device
  <2>3. (CHOOSE x \in ds : TRUE) \in ds
    BY <2>1
  <2> QED BY <2>1, <2>2, <2>3
<1>2. CASE ~(\E d \in Device : ds = {d})
  BY <1>2 DEF resolve_selected_device
<1> QED BY <1>1, <1>2

\* The events the threads send are events of the channel.
LEMMA EventTypes ==
  /\ \A p \in Phases : Phase(p) \in Events
  /\ \A ds \in SUBSET Device : Devices(ds) \in Events
  /\ DeviceScanFailed \in Events
  /\ \A w \in Nat : Signed(w) \in Events /\ Installed(w) \in Events
  /\ Failed \in Events
BY DEF Events, Phase, Devices, DeviceScanFailed, Signed, Installed, Failed

\* send keeps the channel a sequence of events.
LEMMA SendType ==
  ASSUME events \in Seq(Events), NEW e \in Events, send(e)
  PROVE  events' \in Seq(Events)
BY AppendFacts DEF send

\* A resign thread moves on: the threads keep their HAPs and devices.
LEMMA ResignGotoFacts ==
  ASSUME resigns \in Seq(ResignThreads), NEW w \in DOMAIN resigns,
         NEW from, NEW to \in ResignPcs, ResignGoto(w, from, to)
  PROVE  /\ resigns' \in Seq(ResignThreads)
         /\ Len(resigns') = Len(resigns)
         /\ DOMAIN resigns' = DOMAIN resigns
         /\ \A v \in DOMAIN resigns :
              /\ resigns'[v].hap = resigns[v].hap
              /\ resigns'[v].device = resigns[v].device
              /\ resigns'[v].pc = IF v = w THEN to ELSE resigns[v].pc
         /\ resigns[w].pc = from
         /\ UNCHANGED <<scans, installs>>
<1>1. /\ resigns[w].pc = from
      /\ resigns' = [resigns EXCEPT ![w] = [resigns[w] EXCEPT !.pc = to]]
      /\ UNCHANGED <<scans, installs>>
  BY DEF ResignGoto
<1>2. DOMAIN resigns = 1..Len(resigns) /\ resigns[w] \in ResignThreads
  BY LenProperties, ElementOfSeq
<1>3. [resigns[w] EXCEPT !.pc = to] \in ResignThreads
  BY <1>2 DEF ResignThreads
<1>4. /\ resigns' \in Seq(ResignThreads)
      /\ Len(resigns') = Len(resigns)
      /\ \A j \in 1..Len(resigns) :
           resigns'[j] = IF j = w THEN [resigns[w] EXCEPT !.pc = to] ELSE resigns[j]
  BY <1>1, <1>2, <1>3, ExceptSeq
<1>5. DOMAIN resigns' = DOMAIN resigns
  BY <1>2, <1>4, LenProperties
<1>6. \A v \in DOMAIN resigns : resigns[v] \in ResignThreads
  BY <1>2, ElementOfSeq
<1>7. /\ [resigns[w] EXCEPT !.pc = to].hap = resigns[w].hap
      /\ [resigns[w] EXCEPT !.pc = to].device = resigns[w].device
      /\ [resigns[w] EXCEPT !.pc = to].pc = to
  BY <1>2 DEF ResignThreads
<1> QED BY <1>1, <1>2, <1>4, <1>5, <1>7

\* Changing one field of the file: output stays a function to devices.
LEMMA OutputType ==
  ASSUME output \in [Hap -> Device \cup {NoDevice}], NEW h \in Hap, NEW d \in Device
  PROVE  [output EXCEPT ![h] = d] \in [Hap -> Device \cup {NoDevice}]
OBVIOUS

\* What a step of a resign thread is: the thread is not over, files only become
\* signed, a written thread has a signed file, and the only Signed event is that
\* of a written thread which ends with it.
LEMMA ResignStepFacts ==
  ASSUME TypeOK, NEW w \in DOMAIN resigns, ResignStep(w)
  PROVE  /\ resigns' \in Seq(ResignThreads)
         /\ Len(resigns') = Len(resigns)
         /\ DOMAIN resigns' = DOMAIN resigns
         /\ \A v \in DOMAIN resigns :
              /\ resigns'[v].hap = resigns[v].hap
              /\ resigns'[v].device = resigns[v].device
              /\ v # w => resigns'[v].pc = resigns[v].pc
         /\ resigns[w].pc # "done"
         /\ UNCHANGED <<scans, installs>>
         /\ output' \in [Hap -> Device \cup {NoDevice}]
         /\ \A h \in Hap : output[h] # NoDevice => output'[h] # NoDevice
         /\ resigns'[w].pc = "written" => output'[resigns[w].hap] # NoDevice
         /\ \/ UNCHANGED events
            \/ \E e \in Events : e.type # "Signed" /\ ~IsScanEvent(e) /\ send(e)
            \/ /\ resigns[w].pc = "written" /\ resigns'[w].pc = "done"
               /\ output' = output
               /\ send(Signed(w))
<1>1. /\ resigns \in Seq(ResignThreads)
      /\ output \in [Hap -> Device \cup {NoDevice}]
      /\ w \in Nat
      /\ resigns[w] \in ResignThreads
  BY LenProperties, ElementOfSeq DEF TypeOK, WorkflowTypeOK
<1> DEFINE Moved(from, to) ==
             /\ resigns' \in Seq(ResignThreads)
             /\ Len(resigns') = Len(resigns)
             /\ DOMAIN resigns' = DOMAIN resigns
             /\ \A v \in DOMAIN resigns :
                  /\ resigns'[v].hap = resigns[v].hap
                  /\ resigns'[v].device = resigns[v].device
                  /\ v # w => resigns'[v].pc = resigns[v].pc
             /\ resigns[w].pc = from /\ resigns'[w].pc = to
             /\ UNCHANGED <<scans, installs>>
<1>2. ASSUME NEW from, NEW to \in ResignPcs, ResignGoto(w, from, to)
      PROVE  Moved(from, to)
  BY <1>1, <1>2, ResignGotoFacts
<1>3. CASE WriteOutput(w)
  <2>1. Moved("sign", "written")
    BY <1>2, <1>3 DEF WriteOutput, ResignPcs
  <2>2. /\ output' = [output EXCEPT ![resigns[w].hap] = resigns[w].device]
        /\ UNCHANGED events
    BY <1>3 DEF WriteOutput
  <2>3. resigns[w].hap \in Hap /\ resigns[w].device \in Device
    BY <1>1 DEF ResignThreads
  <2>4. /\ output' \in [Hap -> Device \cup {NoDevice}]
        /\ output'[resigns[w].hap] = resigns[w].device
        /\ \A h \in Hap : h # resigns[w].hap => output'[h] = output[h]
    BY <1>1, <2>2, <2>3
  <2>5. resigns[w].device # NoDevice
    BY <2>3, AppAssumption
  <2> QED BY <2>1, <2>2, <2>3, <2>4, <2>5
<1>4. CASE SendSigned(w)
  <2>1. Moved("written", "done") /\ send(Signed(w)) /\ UNCHANGED output
    BY <1>2, <1>4 DEF SendSigned, ResignPcs
  <2> QED BY <1>1, <2>1
<1>5. CASE ~WriteOutput(w) /\ ~SendSigned(w)
  <2>1. PICK from \in ResignPcs \ {"done"}, to \in ResignPcs \ {"written"} :
          Moved(from, to)
    BY <1>2, <1>5, ZenonT(30)
       DEF ResignStep, ResignStart, LocalMaterialsFound, NoLocalMaterials,
           TokenRefreshed, OpenBrowser, LoggedIn, MaterialsPrepared,
           ResignFailed, ResignPcs
  <2>2. \E e \in Events : e.type # "Signed" /\ ~IsScanEvent(e) /\ send(e)
    <3>1. \A p \in Phases : Phase(p).type = "Phase"
      BY DEF Phase
    <3>2. Failed.type = "Failed"
      BY DEF Failed
    <3> QED BY <1>5, <3>1, <3>2, EventTypes
        DEF ResignStep, ResignStart, LocalMaterialsFound, NoLocalMaterials,
            TokenRefreshed, OpenBrowser, LoggedIn, MaterialsPrepared,
            ResignFailed, IsScanEvent, Phases
  <2>3. UNCHANGED output
    BY <1>5
       DEF ResignStep, ResignStart, LocalMaterialsFound, NoLocalMaterials,
           TokenRefreshed, OpenBrowser, LoggedIn, MaterialsPrepared, ResignFailed
  <2> QED BY <1>1, <2>1, <2>2, <2>3
<1> QED BY <1>3, <1>4, <1>5

\* An install thread moves on: the threads keep their file and their device.
LEMMA InstallGotoFacts ==
  ASSUME installs \in Seq(InstallThreads), NEW w \in DOMAIN installs,
         NEW t \in InstallThreads,
         t.resign = installs[w].resign, t.device = installs[w].device,
         installs' = [installs EXCEPT ![w] = t]
  PROVE  /\ installs' \in Seq(InstallThreads)
         /\ DOMAIN installs' = DOMAIN installs
         /\ \A v \in DOMAIN installs :
              /\ installs'[v].resign = installs[v].resign
              /\ installs'[v].device = installs[v].device
              /\ installs'[v] = IF v = w THEN t ELSE installs[v]
<1>1. DOMAIN installs = 1..Len(installs)
  BY LenProperties
<1>2. /\ installs' \in Seq(InstallThreads)
      /\ Len(installs') = Len(installs)
      /\ \A j \in 1..Len(installs) : installs'[j] = IF j = w THEN t ELSE installs[j]
  BY <1>1, ExceptSeq
<1>3. DOMAIN installs' = DOMAIN installs
  BY <1>1, <1>2, LenProperties
<1> QED BY <1>1, <1>2, <1>3

\* What a step of an install thread is: the thread's record after it, its send,
\* and what it leaves alone.
LEMMA InstallStepFacts ==
  ASSUME TypeOK, NEW w \in DOMAIN installs, InstallStep(w),
         installs[w].resign \in DOMAIN resigns
  PROVE  /\ installs' \in Seq(InstallThreads)
         /\ DOMAIN installs' = DOMAIN installs
         /\ \A v \in DOMAIN installs :
              /\ installs'[v].resign = installs[v].resign
              /\ installs'[v].device = installs[v].device
              /\ v # w => installs'[v] = installs[v]
         /\ installs'[w].pc = "launch" =>
              installs'[w].pushed = output[resigns[installs[w].resign].hap]
         /\ \/ UNCHANGED events
            \/ \E e \in Events : e.type # "Signed" /\ ~IsScanEvent(e) /\ send(e)
         /\ UNCHANGED <<scans, resigns, output>>
<1> DEFINE t == installs[w]
<1>1. /\ installs \in Seq(InstallThreads)
      /\ resigns \in Seq(ResignThreads)
      /\ output \in [Hap -> Device \cup {NoDevice}]
      /\ t \in InstallThreads
      /\ w \in Nat
  BY LenProperties, ElementOfSeq DEF TypeOK, WorkflowTypeOK
<1>2. resigns[t.resign] \in ResignThreads
  BY <1>1, ElementOfSeq
<1>3. output[resigns[t.resign].hap] \in Device \cup {NoDevice}
  BY <1>1, <1>2 DEF ResignThreads
<1>4. UNCHANGED <<scans, resigns, output>>
  BY DEF InstallStep, InstallStart, Push, Launched, InstallFailed, InstallAt
<1>5. \/ UNCHANGED events
      \/ \E e \in Events : e.type # "Signed" /\ ~IsScanEvent(e) /\ send(e)
  <2>1. /\ Phase("Installing").type = "Phase"
        /\ Installed(w).type = "Installed"
        /\ Failed.type = "Failed"
    BY DEF Phase, Installed, Failed
  <2> QED BY <1>1, <2>1, EventTypes
      DEF InstallStep, InstallStart, Push, Launched, InstallFailed, IsScanEvent, Phases
<1>6. \E u \in InstallThreads :
        /\ installs' = [installs EXCEPT ![w] = u]
        /\ u.resign = t.resign /\ u.device = t.device
        /\ u.pc = "launch" => u.pushed = output[resigns[t.resign].hap]
  <2>1. CASE InstallStart(w)
    <3> DEFINE u == [t EXCEPT !.pc = "push"]
    <3>1. installs' = [installs EXCEPT ![w] = u]
      BY <2>1 DEF InstallStart
    <3>2. /\ u \in InstallThreads
          /\ u.resign = t.resign /\ u.device = t.device
          /\ u.pc # "launch"
      BY <1>1 DEF InstallThreads, InstallPcs
    <3> QED BY <3>1, <3>2
  <2>2. CASE Push(w)
    <3> DEFINE u == [t EXCEPT !.pc = "launch",
                              !.pushed = output[resigns[t.resign].hap]]
    <3>1. installs' = [installs EXCEPT ![w] = u]
      BY <2>2 DEF Push
    <3>2. /\ u \in InstallThreads
          /\ u.resign = t.resign /\ u.device = t.device
          /\ u.pushed = output[resigns[t.resign].hap]
      BY <1>1, <1>3 DEF InstallThreads, InstallPcs
    <3> QED BY <3>1, <3>2
  <2>3. CASE Launched(w) \/ InstallFailed(w)
    <3> DEFINE u == [t EXCEPT !.pc = "done"]
    <3>1. installs' = [installs EXCEPT ![w] = u]
      BY <2>3 DEF Launched, InstallFailed
    <3>2. /\ u \in InstallThreads
          /\ u.resign = t.resign /\ u.device = t.device
          /\ u.pc # "launch"
      BY <1>1 DEF InstallThreads, InstallPcs
    <3> QED BY <3>1, <3>2
  <2> QED BY <2>1, <2>2, <2>3 DEF InstallStep
<1>7. PICK u \in InstallThreads :
        /\ installs' = [installs EXCEPT ![w] = u]
        /\ u.resign = t.resign /\ u.device = t.device
        /\ u.pc = "launch" => u.pushed = output[resigns[t.resign].hap]
  BY <1>6
<1>8. /\ installs' \in Seq(InstallThreads)
      /\ DOMAIN installs' = DOMAIN installs
      /\ \A v \in DOMAIN installs :
           /\ installs'[v].resign = installs[v].resign
           /\ installs'[v].device = installs[v].device
           /\ installs'[v] = IF v = w THEN u ELSE installs[v]
  BY <1>1, <1>7, InstallGotoFacts
<1> QED BY <1>4, <1>5, <1>7, <1>8
-----------------------------------------------------------------------------
(* The inductive invariant of the pipeline, one lemma per kind of step.    *)

\* What the type invariant says of the sequences, element by element.
LEMMA TypeFacts ==
  ASSUME TypeOK
  PROVE  /\ events \in Seq(Events)
         /\ \A i \in DOMAIN events : events[i] \in Events
         /\ resigns \in Seq(ResignThreads)
         /\ DOMAIN resigns = 1..Len(resigns) /\ Len(resigns) \in Nat
         /\ \A v \in DOMAIN resigns :
              /\ v \in Nat /\ v # NoWorker
              /\ resigns[v].hap \in Hap /\ resigns[v].device \in Device
         /\ installs \in Seq(InstallThreads)
         /\ DOMAIN installs = 1..Len(installs) /\ Len(installs) \in Nat
         /\ \A j \in DOMAIN installs : installs[j] \in InstallThreads
<1>1. /\ events \in Seq(Events)
      /\ resigns \in Seq(ResignThreads)
      /\ installs \in Seq(InstallThreads)
  BY DEF TypeOK, WorkflowTypeOK
<1>2. /\ DOMAIN events = 1..Len(events)
      /\ DOMAIN resigns = 1..Len(resigns) /\ Len(resigns) \in Nat
      /\ DOMAIN installs = 1..Len(installs) /\ Len(installs) \in Nat
  BY <1>1, LenProperties
<1>3. /\ \A i \in DOMAIN events : events[i] \in Events
      /\ \A j \in DOMAIN installs : installs[j] \in InstallThreads
      /\ \A v \in DOMAIN resigns : resigns[v] \in ResignThreads
  BY <1>1, <1>2, ElementOfSeq
<1>4. \A v \in DOMAIN resigns :
         /\ v \in Nat /\ v # NoWorker
         /\ resigns[v].hap \in Hap /\ resigns[v].device \in Device
  BY <1>2, <1>3 DEF ResignThreads, NoWorker
<1> QED BY <1>1, <1>2, <1>3, <1>4

\* At the start no thread runs and the channel is empty.
LEMMA PipelineInit == Init => PipelineInv
<1> SUFFICES ASSUME Init PROVE PipelineInv
  OBVIOUS
<1>1. /\ events = <<>> /\ resigns = <<>> /\ installs = <<>> /\ scans = 1
      /\ output \in [Hap -> {NoDevice}]
      /\ state = DefaultState
  BY DEF Init
<1>2. DefaultState \in States /\ DefaultState.signed_hap = NoWorker
  BY DEF DefaultState, States, Phases, NoWorker
<1>3. DOMAIN events = {} /\ DOMAIN resigns = {} /\ DOMAIN installs = {}
  BY <1>1
<1>4. TypeOK
  <2>1. /\ events \in Seq(Events)
        /\ resigns \in Seq(ResignThreads)
        /\ installs \in Seq(InstallThreads)
    BY <1>1, EmptySeq
  <2>2. output \in [Hap -> Device \cup {NoDevice}] /\ scans \in Nat
    BY <1>1
  <2>3. WorkflowTypeOK
    BY <2>1, <2>2 DEF WorkflowTypeOK
  <2> QED BY <1>1, <1>2, <2>3 DEF Init, TypeOK, Stages
<1> QED BY <1>1, <1>2, <1>3, <1>4
    DEF PipelineInv, SignedOnTheWay, SignedShown, Captured, InstallOnce, NoRedirect

\* A resign thread's step keeps PipelineInv.
LEMMA ResignStepInv ==
  ASSUME PipelineInv, NEW w \in DOMAIN resigns, ResignStep(w), UNCHANGED guiVars
  PROVE  PipelineInv'
<1>1. /\ events \in Seq(Events)
      /\ resigns \in Seq(ResignThreads)
      /\ \A v \in DOMAIN resigns : v # NoWorker /\ v \in Nat /\ resigns[v].hap \in Hap
      /\ DOMAIN resigns = 1..Len(resigns) /\ Len(resigns) \in Nat
      /\ TypeOK
  BY TypeFacts DEF PipelineInv
<1>2. /\ resigns' \in Seq(ResignThreads)
      /\ Len(resigns') = Len(resigns)
      /\ DOMAIN resigns' = DOMAIN resigns
      /\ \A v \in DOMAIN resigns :
           /\ resigns'[v].hap = resigns[v].hap
           /\ resigns'[v].device = resigns[v].device
           /\ v # w => resigns'[v].pc = resigns[v].pc
      /\ resigns[w].pc # "done"
      /\ UNCHANGED <<scans, installs>>
      /\ output' \in [Hap -> Device \cup {NoDevice}]
      /\ \A h \in Hap : output[h] # NoDevice => output'[h] # NoDevice
      /\ resigns'[w].pc = "written" => output'[resigns[w].hap] # NoDevice
      /\ \/ UNCHANGED events
         \/ \E e \in Events : e.type # "Signed" /\ ~IsScanEvent(e) /\ send(e)
         \/ /\ resigns[w].pc = "written" /\ resigns'[w].pc = "done"
            /\ output' = output
            /\ send(Signed(w))
  BY <1>1, ResignStepFacts
<1>3. UNCHANGED <<state, operation_device, install_started>>
  BY DEF guiVars
<1>4. \A v : Delivered(v) => v # w /\ Delivered(v)'
  BY <1>1, <1>2 DEF Delivered
<1>5. events' \in Seq(Events)
  BY <1>1, <1>2, SendType, EventTypes
<1>6. TypeOK'
  BY <1>1, <1>2, <1>5 DEF TypeOK, WorkflowTypeOK, guiVars
<1>7. SignedOnTheWay'
  <2>1. CASE UNCHANGED events
    BY <1>2, <1>3, <1>4, <2>1 DEF PipelineInv, SignedOnTheWay
  <2>2. ASSUME NEW e \in Events, e.type # "Signed", send(e)
        PROVE  SignedOnTheWay'
    <3>1. \A i \in DOMAIN events' : events'[i].type = "Signed" =>
             i \in DOMAIN events /\ events'[i] = events[i]
      BY <1>1, <2>2, AppendFacts DEF send
    <3> QED BY <1>2, <1>3, <1>4, <3>1
        DEF PipelineInv, SignedOnTheWay, IsSignedOf
  <2>3. CASE /\ resigns[w].pc = "written" /\ resigns'[w].pc = "done"
             /\ output' = output
             /\ send(Signed(w))
    <3>1. Signed(w).type = "Signed" /\ Signed(w).worker = w /\ Signed(w) \in Events
      BY <1>1, EventTypes DEF Signed
    <3>2. \A i \in DOMAIN events' :
             \/ i \in DOMAIN events /\ events'[i] = events[i]
             \/ i = Len(events) + 1 /\ events'[i] = Signed(w)
      BY <1>1, <2>3, <3>1, AppendFacts DEF send
    <3>3. Delivered(w)'
      BY <1>1, <1>2, <2>3 DEF Delivered, PipelineInv, Captured
    <3>4. /\ \A i \in DOMAIN events : ~IsSignedOf(events[i], w)
          /\ state.signed_hap # w
          /\ \A j \in DOMAIN installs : installs[j].resign # w
      <4>1. ~Delivered(w)
        BY <1>4
      <4>2. w # NoWorker
        BY <1>1 DEF NoWorker
      <4> QED BY <4>1, <4>2
          DEF PipelineInv, SignedOnTheWay, SignedShown, IsSignedOf
    <3> QED BY <1>2, <1>3, <1>4, <3>1, <3>2, <3>3, <3>4
        DEF PipelineInv, SignedOnTheWay, IsSignedOf
  <2> QED BY <1>2, <2>1, <2>2, <2>3
<1>8. SignedShown'
  BY <1>2, <1>3, <1>4 DEF PipelineInv, SignedShown
<1>9. Captured'
  <2>1. resigns' # <<>> =>
          resigns # <<>> /\ resigns'[Len(resigns')].device = resigns[Len(resigns)].device
    BY <1>1, <1>2, EmptySeq
  <2>2. \A v \in DOMAIN resigns :
           resigns'[v].pc = "written" => output'[resigns'[v].hap] # NoDevice
    BY <1>1, <1>2 DEF PipelineInv, Captured
  <2> QED BY <1>2, <1>3, <2>1, <2>2 DEF PipelineInv, Captured
<1>10. InstallOnce'
  BY <1>2 DEF PipelineInv, InstallOnce
<1>11. NoRedirect'
  BY <1>2 DEF PipelineInv, NoRedirect, SignedShown, Delivered
<1> QED BY <1>6, <1>7, <1>8, <1>9, <1>10, <1>11 DEF PipelineInv

\* An install thread's step keeps PipelineInv.
LEMMA InstallStepInv ==
  ASSUME PipelineInv, NEW w \in DOMAIN installs, InstallStep(w), UNCHANGED guiVars
  PROVE  PipelineInv'
<1>1. /\ TypeOK
      /\ installs[w].resign \in DOMAIN resigns
      /\ output[resigns[installs[w].resign].hap] # NoDevice
  BY DEF PipelineInv, SignedShown, Delivered
<1>2. /\ installs' \in Seq(InstallThreads)
      /\ DOMAIN installs' = DOMAIN installs
      /\ \A v \in DOMAIN installs :
           /\ installs'[v].resign = installs[v].resign
           /\ installs'[v].device = installs[v].device
           /\ v # w => installs'[v] = installs[v]
      /\ installs'[w].pc = "launch" =>
           installs'[w].pushed = output[resigns[installs[w].resign].hap]
      /\ \/ UNCHANGED events
         \/ \E e \in Events : e.type # "Signed" /\ ~IsScanEvent(e) /\ send(e)
      /\ UNCHANGED <<scans, resigns, output>>
  BY <1>1, InstallStepFacts
<1>3. UNCHANGED <<state, operation_device, install_started>>
  BY DEF guiVars
<1>4. events \in Seq(Events)
  BY <1>1, TypeFacts
<1>5. \A v : Delivered(v)' <=> Delivered(v)
  BY <1>2 DEF Delivered
<1>6. TypeOK'
  <2>1. events' \in Seq(Events)
    BY <1>2, <1>4, SendType
  <2> QED BY <1>1, <1>2, <2>1 DEF TypeOK, WorkflowTypeOK, guiVars
<1>7. SignedOnTheWay'
  <2>1. CASE UNCHANGED events
    BY <1>2, <1>3, <1>5, <2>1 DEF PipelineInv, SignedOnTheWay
  <2>2. ASSUME NEW e \in Events, e.type # "Signed", send(e)
        PROVE  SignedOnTheWay'
    <3>1. \A i \in DOMAIN events' : events'[i].type = "Signed" =>
             i \in DOMAIN events /\ events'[i] = events[i]
      BY <1>4, <2>2, AppendFacts DEF send
    <3> QED BY <1>2, <1>3, <1>5, <3>1
        DEF PipelineInv, SignedOnTheWay, IsSignedOf
  <2> QED BY <1>2, <2>1, <2>2
<1>8. SignedShown'
  BY <1>1, <1>2, <1>3, <1>5 DEF PipelineInv, SignedShown
<1>9. Captured'
  BY <1>2, <1>3 DEF PipelineInv, Captured
<1>10. InstallOnce'
  BY <1>2 DEF PipelineInv, InstallOnce
<1>11. NoRedirect'
  BY <1>2 DEF PipelineInv, NoRedirect
<1> QED BY <1>6, <1>7, <1>8, <1>9, <1>10, <1>11 DEF PipelineInv

\* A step that changes neither a thread of the pipeline, nor the captured device,
\* the flag or the signed file, and at most sends an event that is not Signed.
LEMMA PipelineUntouched ==
  ASSUME PipelineInv, TypeOK',
         UNCHANGED <<resigns, installs, output, operation_device, install_started>>,
         state'.signed_hap = state.signed_hap,
         UNCHANGED events \/ \E e \in Events : e.type # "Signed" /\ send(e)
  PROVE  PipelineInv'
<1>1. events \in Seq(Events)
  BY TypeFacts DEF PipelineInv
<1>2. \A v : Delivered(v)' <=> Delivered(v)
  BY DEF Delivered
<1>3. SignedOnTheWay'
  <2>1. CASE UNCHANGED events
    BY <1>2, <2>1 DEF PipelineInv, SignedOnTheWay
  <2>2. ASSUME NEW e \in Events, e.type # "Signed", send(e)
        PROVE  SignedOnTheWay'
    <3>1. \A i \in DOMAIN events' : events'[i].type = "Signed" =>
             i \in DOMAIN events /\ events'[i] = events[i]
      BY <1>1, <2>2, AppendFacts DEF send
    <3> QED BY <1>2, <3>1 DEF PipelineInv, SignedOnTheWay, IsSignedOf
  <2> QED BY <2>1, <2>2
<1>4. SignedShown' /\ Captured' /\ InstallOnce' /\ NoRedirect'
  BY <1>2 DEF PipelineInv, SignedShown, Captured, InstallOnce, NoRedirect
<1> QED BY <1>3, <1>4 DEF PipelineInv

\* A requested scan leaves the scan count and the flag with their types.
LEMMA ScanRequestType ==
  ASSUME TypeOK, NEW running \in BOOLEAN, NEW opened \in BOOLEAN,
         request_device_scan(state.phase, running, opened)
  PROVE  /\ scans' \in Nat
         /\ device_scan_running' \in BOOLEAN
         /\ device_scan_pending' \in BOOLEAN
         /\ scan_due' \in BOOLEAN
BY DEF request_device_scan, device_scan_plan, TypeOK, WorkflowTypeOK,
       device_controls_enabled

\* An event is taken from the channel and applied, by either handler.
LEMMA TakeEventInv ==
  ASSUME PipelineInv, TypeOK', events # <<>>, events' = Tail(events),
         state'.signed_hap = apply(state, Head(events)).signed_hap,
         UNCHANGED <<resigns, installs, output, operation_device, install_started>>
  PROVE  PipelineInv'
<1> DEFINE e == events[1]
<1>1. /\ events \in Seq(Events) /\ state \in States
      /\ \A i \in DOMAIN events : events[i] \in Events
  BY TypeFacts DEF PipelineInv, TypeOK
<1>2. /\ Head(events) = e /\ 1 \in DOMAIN events
      /\ \A i \in DOMAIN events' :
           i \in Int /\ i + 1 \in DOMAIN events /\ events'[i] = events[i + 1]
  <2>1. Tail(events) \in Seq(Events)
    BY <1>1, TailFacts
  <2>2. \A i \in DOMAIN Tail(events) : i \in Int
    BY <2>1, LenProperties
  <2> QED BY <1>1, <2>2, TailFacts
<1>3. state'.signed_hap = IF e.type = "Signed" THEN e.worker ELSE state.signed_hap
  BY <1>1, <1>2, ApplyFrame
<1>4. \A v : Delivered(v)' <=> Delivered(v)
  BY DEF Delivered
<1>5. SignedOnTheWay'
  <2> SUFFICES ASSUME NEW i \in DOMAIN events', events'[i].type = "Signed"
               PROVE  /\ Delivered(events'[i].worker)
                      /\ state'.signed_hap # events'[i].worker
                      /\ \A j \in DOMAIN installs : installs[j].resign # events'[i].worker
                      /\ \A k \in DOMAIN events' :
                           IsSignedOf(events'[k], events'[i].worker) => k = i
    BY <1>4 DEF SignedOnTheWay
  <2>1. i \in Int /\ i + 1 \in DOMAIN events /\ events'[i] = events[i + 1] /\ i + 1 # 1
    <3>1. i # 0
      <4>1. Tail(events) \in Seq(Events)
        BY <1>1, TailFacts
      <4> QED BY <4>1, LenProperties
    <3> QED BY <1>2, <3>1
  <2>2. /\ Delivered(events[i + 1].worker)
        /\ state.signed_hap # events[i + 1].worker
        /\ \A j \in DOMAIN installs : installs[j].resign # events[i + 1].worker
        /\ \A k \in DOMAIN events :
             IsSignedOf(events[k], events[i + 1].worker) => k = i + 1
    BY <2>1 DEF PipelineInv, SignedOnTheWay
  <2>3. ~IsSignedOf(e, events[i + 1].worker)
    BY <1>2, <2>1, <2>2
  <2>4. state'.signed_hap # events[i + 1].worker
    BY <1>3, <2>2, <2>3 DEF IsSignedOf
  <2>5. ASSUME NEW k \in DOMAIN events', IsSignedOf(events'[k], events'[i].worker)
        PROVE  k = i
    <3>1. k \in Int /\ k + 1 \in DOMAIN events /\ events'[k] = events[k + 1]
      BY <1>2
    <3>2. k + 1 = i + 1
      BY <2>1, <2>2, <2>5, <3>1
    <3> QED BY <2>1, <3>1, <3>2
  <2> QED BY <2>1, <2>2, <2>4, <2>5
<1>6. SignedShown'
  <2>1. CASE e.type = "Signed"
    <3>1. /\ Delivered(e.worker)
          /\ \A j \in DOMAIN installs : installs[j].resign # e.worker
      BY <1>2, <2>1 DEF PipelineInv, SignedOnTheWay
    <3> QED BY <1>3, <1>4, <2>1, <3>1 DEF PipelineInv, SignedShown
  <2>2. CASE e.type # "Signed"
    BY <1>3, <1>4, <2>2 DEF PipelineInv, SignedShown
  <2> QED BY <2>1, <2>2
<1>7. Captured' /\ InstallOnce' /\ NoRedirect'
  BY DEF PipelineInv, Captured, InstallOnce, NoRedirect
<1> QED BY <1>5, <1>6, <1>7 DEF PipelineInv

\* Handling an event of the pipeline keeps PipelineInv.
LEMMA HandlePipelineEventInv ==
  ASSUME PipelineInv, HandlePipelineEvent
  PROVE  PipelineInv'
<1>1. TypeOK /\ state \in States /\ events \in Seq(Events) /\ events # <<>>
  BY DEF PipelineInv, TypeOK, WorkflowTypeOK, HandlePipelineEvent
<1>2. Head(events) \in Events /\ Tail(events) \in Seq(Events)
  BY <1>1, HeadTailProperties
<1>3. state' = apply(state, Head(events)) /\ events' = Tail(events)
  BY DEF HandlePipelineEvent
<1>4. state' \in States
  BY <1>1, <1>2, <1>3, ApplyType
<1>5. TypeOK'
  BY <1>1, <1>2, <1>3, <1>4
     DEF HandlePipelineEvent, TypeOK, WorkflowTypeOK, scanVars, deviceVars
<1> QED BY <1>1, <1>3, <1>5, TakeEventInv DEF HandlePipelineEvent, deviceVars

\* Handling the result of a scan keeps PipelineInv.
LEMMA HandleScanEventInv ==
  ASSUME PipelineInv, HandleScanEvent
  PROVE  PipelineInv'
<1> DEFINE e == Head(events)
           chosen == resolve_selected_device(e.devices, state.device,
                                             remembered_device_udid)
<1>1. TypeOK /\ state \in States /\ events \in Seq(Events) /\ events # <<>>
  BY DEF PipelineInv, TypeOK, WorkflowTypeOK, HandleScanEvent
<1>2. /\ e \in Events /\ Tail(events) \in Seq(Events)
      /\ e.type \in {"Devices", "DeviceScanFailed"}
  BY <1>1, HeadTailProperties DEF HandleScanEvent
<1>3. events' = Tail(events)
  BY DEF HandleScanEvent
<1>4. apply(state, e) \in States /\ apply(state, e).signed_hap = state.signed_hap
  BY <1>1, <1>2, ApplyType, ApplyFrame
<1>5. state' \in States /\ state'.signed_hap = apply(state, e).signed_hap
  <2>1. CASE e.type = "Devices"
    <3>1. state' = [apply(state, e) EXCEPT !.device = chosen]
      BY <2>1 DEF HandleScanEvent
    <3>2. e.devices \in SUBSET Device
      BY <1>2, <2>1 DEF Events
    <3>3. chosen \in Device \cup {NoDevice}
      BY <3>2, ResolveType
    <3> QED BY <1>4, <3>1, <3>3 DEF States
  <2>2. CASE e.type # "Devices"
    BY <1>4, <2>2 DEF HandleScanEvent
  <2> QED BY <2>1, <2>2
<1>6. /\ scans' \in Nat
      /\ device_scan_running' \in BOOLEAN
      /\ device_scan_pending' \in BOOLEAN
      /\ scan_due' \in BOOLEAN
  BY <1>1, ScanRequestType DEF HandleScanEvent
<1>7. TypeOK'
  BY <1>1, <1>2, <1>3, <1>5, <1>6
     DEF HandleScanEvent, TypeOK, WorkflowTypeOK, deviceVars
<1> QED BY <1>1, <1>3, <1>5, <1>7, TakeEventInv DEF HandleScanEvent, deviceVars

(* A stage that may start an operation either starts none or starts one.   *)

NothingStarted ==
  /\ state' \in States
  /\ state'.signed_hap = state.signed_hap
  /\ state'.devices = state.devices /\ state'.device = state.device
  /\ UNCHANGED <<selected_hap, operation_device, install_started, resigns>>

Started(h) ==
  /\ state.device \in Device
  /\ state' \in States
  /\ state'.signed_hap = NoWorker
  /\ state'.devices = state.devices /\ state'.device = state.device
  /\ selected_hap' = h
  /\ operation_device' = state.device
  /\ install_started' = FALSE
  /\ spawn_resign(h, state.device)

\* The two stages of a frame that may start a pipeline do nothing to it or start one HAP.
LEMMA StartCases ==
  ASSUME TypeOK, DroppedFiles \/ MainCard
  PROVE  NothingStarted \/ \E h \in Hap : Started(h)
<1>1. state \in States /\ selected_hap \in Hap \cup {NoHap}
  BY DEF TypeOK
<1>2. ASSUME NoDeviceSelected
      PROVE  NothingStarted
  BY <1>1, <1>2 DEF NoDeviceSelected, NothingStarted, ApplyFailed, States, Phases
<1>3. ASSUME UNCHANGED <<state, selected_hap, operation_device, install_started, resigns>>
      PROVE  NothingStarted
  BY <1>1, <1>3 DEF NothingStarted
<1>4. ASSUME NEW h \in Hap, start_resign(h)
      PROVE  NothingStarted \/ Started(h)
  <2>1. CASE ~can_start(state)
    BY <1>3, <1>4, <2>1 DEF start_resign
  <2>2. CASE can_start(state) /\ state.device = NoDevice
    BY <1>2, <1>4, <2>2 DEF start_resign
  <2>3. CASE can_start(state) /\ state.device # NoDevice
    <3> DEFINE t == ApplyPhase(state, "Inspecting")
    <3>1. state.device \in Device
      BY <1>1, <2>3 DEF States
    <3>2. /\ state' = [t EXCEPT !.signed_hap = NoWorker]
          /\ selected_hap' = h /\ operation_device' = state.device
          /\ install_started' = FALSE /\ spawn_resign(h, state.device)
      BY <1>4, <2>3 DEF start_resign
    <3>3. Phase("Inspecting") \in Events /\ t = apply(state, Phase("Inspecting"))
          /\ Phase("Inspecting").type = "Phase"
      BY EventTypes DEF Phase, apply, Phases
    <3>4. t \in States /\ t.devices = state.devices /\ t.device = state.device
      BY <1>1, <3>3, ApplyType, ApplyFrame
    <3>5. /\ state' \in States /\ state'.signed_hap = NoWorker
          /\ state'.devices = t.devices /\ state'.device = t.device
      BY <3>2, <3>4 DEF States, NoWorker
    <3> QED BY <3>1, <3>2, <3>4, <3>5 DEF Started
  <2> QED BY <2>1, <2>2, <2>3
<1>5. ASSUME choose_hap
      PROVE  NothingStarted \/ \E h \in Hap : Started(h)
  BY <1>2, <1>4, <1>5 DEF choose_hap
<1>6. ASSUME retry
      PROVE  NothingStarted \/ \E h \in Hap : Started(h)
  BY <1>1, <1>2, <1>4, <1>5, <1>6 DEF retry
<1> QED BY <1>3, <1>4, <1>5, <1>6 DEF DroppedFiles, MainCard

\* Starting a pipeline, or declining to, keeps PipelineInv.
LEMMA StartInv ==
  ASSUME PipelineInv, DroppedFiles \/ MainCard
  PROVE  PipelineInv'
<1>1. /\ TypeOK
      /\ UNCHANGED <<scanVars, events, installs, output, remembered_device_udid>>
      /\ frame' \in Stages
  BY DEF PipelineInv, DroppedFiles, MainCard, Stages
<1>2. /\ resigns \in Seq(ResignThreads)
      /\ DOMAIN resigns = 1..Len(resigns) /\ Len(resigns) \in Nat
  BY <1>1, TypeFacts
<1>3. CASE NothingStarted
  <2>1. TypeOK'
    BY <1>1, <1>3 DEF NothingStarted, TypeOK, WorkflowTypeOK, scanVars
  <2> QED BY <1>1, <1>3, <2>1, PipelineUntouched DEF NothingStarted
<1>4. ASSUME NEW h \in Hap, Started(h)
      PROVE  PipelineInv'
  <2> DEFINE t == [hap |-> h, device |-> state.device, pc |-> "spawned"]
  <2>1. t \in ResignThreads
    BY <1>4 DEF Started, ResignThreads, ResignPcs
  <2>2. resigns' = Append(resigns, t)
    BY <1>4 DEF Started, spawn_resign
  <2>3. /\ resigns' \in Seq(ResignThreads)
        /\ Len(resigns') = Len(resigns) + 1
        /\ \A v \in DOMAIN resigns : v \in DOMAIN resigns' /\ resigns'[v] = resigns[v]
        /\ \A v \in DOMAIN resigns' :
             \/ v \in DOMAIN resigns /\ resigns'[v] = resigns[v]
             \/ v = Len(resigns) + 1 /\ resigns'[v] = t
        /\ Len(resigns) + 1 \in DOMAIN resigns'
    BY <1>2, <2>1, <2>2, AppendFacts
  <2>4. TypeOK'
    BY <1>1, <1>4, <2>3 DEF Started, TypeOK, WorkflowTypeOK, scanVars
  <2>5. \A v : Delivered(v) => Delivered(v)'
    BY <1>1, <2>3 DEF Delivered
  <2>6. SignedOnTheWay'
    <3>1. state'.signed_hap = NoWorker
      BY <1>4 DEF Started
    <3>2. \A v : Delivered(v) => v # NoWorker
      BY <1>2 DEF Delivered, NoWorker
    <3> QED BY <1>1, <2>5, <3>1, <3>2 DEF PipelineInv, SignedOnTheWay
  <2>7. SignedShown'
    <3>1. state'.signed_hap = NoWorker
      BY <1>4 DEF Started
    <3>2. \A v : Delivered(v) => v # NoWorker
      BY <1>2 DEF Delivered, NoWorker
    <3> QED BY <1>1, <2>5, <3>1, <3>2 DEF PipelineInv, SignedShown
  <2>8. Captured'
    <3>1. resigns'[Len(resigns')] = t
      BY <1>2, <2>3
    <3>2. operation_device' = t.device
      BY <1>4 DEF Started
    <3> QED BY <1>1, <2>3, <3>1, <3>2 DEF PipelineInv, Captured
  <2>9. InstallOnce'
    BY <1>1 DEF PipelineInv, InstallOnce
  <2>10. NoRedirect'
    <3>1. \A i \in DOMAIN installs : installs[i].resign \in DOMAIN resigns
      BY DEF PipelineInv, SignedShown, Delivered
    <3> QED BY <1>1, <1>2, <2>3, <3>1 DEF PipelineInv, NoRedirect
  <2> QED BY <2>4, <2>6, <2>7, <2>8, <2>9, <2>10 DEF PipelineInv
<1> QED BY <1>1, <1>3, <1>4, StartCases

\* The end of the drain, where an install may start, keeps PipelineInv.
LEMMA EndDrainInv ==
  ASSUME PipelineInv, EndDrain
  PROVE  PipelineInv'
<1>1. /\ TypeOK /\ frame' \in Stages
      /\ UNCHANGED <<events, resigns, output, state, selected_hap, deviceVars>>
  BY DEF PipelineInv, EndDrain, Stages
<1>2. /\ scans' \in Nat
      /\ device_scan_running' \in BOOLEAN
      /\ device_scan_pending' \in BOOLEAN
      /\ scan_due' \in BOOLEAN
  BY <1>1, ScanRequestType DEF EndDrain, TypeOK
<1>3. CASE UNCHANGED <<install_started, installs>>
  <2>1. TypeOK'
    BY <1>1, <1>2, <1>3 DEF TypeOK, WorkflowTypeOK, deviceVars
  <2> QED BY <1>1, <1>3, <2>1, PipelineUntouched DEF deviceVars
<1>4. CASE ~UNCHANGED <<install_started, installs>>
  <2> DEFINE w == state.signed_hap
             t == [resign |-> w, device |-> operation_device, pc |-> "spawned",
                   pushed |-> NoDevice]
  <2>1. /\ ~install_started /\ w # NoWorker
        /\ install_started' = TRUE
        /\ installs' = Append(installs, t)
    BY <1>4 DEF EndDrain, start_install, can_install, spawn_install
  <2>2. /\ resigns \in Seq(ResignThreads) /\ installs \in Seq(InstallThreads)
        /\ DOMAIN resigns = 1..Len(resigns) /\ Len(resigns) \in Nat
        /\ DOMAIN installs = 1..Len(installs) /\ Len(installs) \in Nat
        /\ \A v \in DOMAIN resigns : v \in Nat /\ resigns[v].device \in Device
    BY <1>1, TypeFacts
  <2>3. Delivered(w) /\ w \in DOMAIN resigns
    BY <2>1 DEF PipelineInv, SignedShown, Delivered
  <2>4. /\ operation_device = resigns[Len(resigns)].device
        /\ operation_device \in Device
    <3>1. resigns # <<>> /\ Len(resigns) \in DOMAIN resigns
      BY <2>2, <2>3
    <3> QED BY <2>2, <3>1 DEF PipelineInv, Captured
  <2>5. t \in InstallThreads
    BY <2>2, <2>3, <2>4 DEF InstallThreads, InstallPcs
  <2>6. /\ installs' \in Seq(InstallThreads)
        /\ \A j \in DOMAIN installs' :
             \/ j \in DOMAIN installs /\ installs'[j] = installs[j]
             \/ j = Len(installs) + 1 /\ installs'[j] = t
    BY <2>1, <2>2, <2>5, AppendFacts
  <2>7. TypeOK'
    BY <1>1, <1>2, <2>1, <2>6 DEF TypeOK, WorkflowTypeOK, deviceVars
  <2>8. \A v : Delivered(v)' <=> Delivered(v)
    BY <1>1 DEF Delivered
  <2>9. \A j \in DOMAIN installs : installs[j].resign # w
    BY <2>1 DEF PipelineInv, SignedShown
  <2>10. t.resign = w /\ t.device = operation_device /\ t.pc = "spawned"
    OBVIOUS
  <2>11. SignedOnTheWay'
    <3>1. \A i \in DOMAIN events : events[i].type = "Signed" =>
            \A j \in DOMAIN installs' : installs'[j].resign # events[i].worker
      BY <2>6, <2>10 DEF PipelineInv, SignedOnTheWay
    <3> QED BY <1>1, <2>8, <3>1 DEF PipelineInv, SignedOnTheWay
  <2>12. SignedShown'
    <3>1. \A j \in DOMAIN installs' :
            /\ Delivered(installs'[j].resign)
            /\ installs'[j].pc = "launch" => installs'[j].pushed # NoDevice
      BY <2>3, <2>6, <2>10 DEF PipelineInv, SignedShown
    <3> QED BY <1>1, <2>1, <2>3, <2>8, <3>1 DEF SignedShown
  <2>13. Captured'
    BY <1>1 DEF PipelineInv, Captured, deviceVars
  <2>14. InstallOnce'
    <3> SUFFICES ASSUME NEW i \in DOMAIN installs', NEW j \in DOMAIN installs',
                        installs'[i].resign = installs'[j].resign
                 PROVE  i = j
      BY DEF InstallOnce
    <3> QED BY <2>6, <2>9, <2>10 DEF PipelineInv, InstallOnce
  <2>15. NoRedirect'
    <3>1. w # Len(resigns) => w < Len(resigns)
      BY <2>2, <2>3
    <3>2. t.device # resigns[w].device => w < Len(resigns)
      BY <2>4, <2>10, <3>1
    <3> QED BY <1>1, <2>6, <2>10, <3>2 DEF PipelineInv, NoRedirect
  <2> QED BY <2>7, <2>11, <2>12, <2>13, <2>14, <2>15 DEF PipelineInv
<1> QED BY <1>3, <1>4

\* The header and the choice of a device keep PipelineInv.
LEMMA HeaderInv ==
  ASSUME PipelineInv, Header \/ SelectDevice
  PROVE  PipelineInv'
<1>1. TypeOK /\ state \in States
  BY DEF PipelineInv, TypeOK
<1>2. /\ scans' \in Nat
      /\ device_scan_running' \in BOOLEAN
      /\ device_scan_pending' \in BOOLEAN
      /\ scan_due' \in BOOLEAN
  BY <1>1, ScanRequestType DEF Header, SelectDevice, TypeOK
<1>3. /\ state' \in States /\ state'.signed_hap = state.signed_hap
      /\ remembered_device_udid' \in Device \cup {NoDevice}
  <2>1. CASE Header
    BY <1>1, <2>1 DEF Header, TypeOK, deviceVars
  <2>2. CASE SelectDevice
    <3>1. PICK d \in state.devices : /\ remembered_device_udid' = d
                                     /\ state' = [state EXCEPT !.device = d]
      BY <2>2 DEF SelectDevice
    <3>2. d \in Device
      BY <1>1 DEF States
    <3> QED BY <1>1, <3>1, <3>2 DEF States
  <2> QED BY <2>1, <2>2
<1>4. TypeOK'
  BY <1>1, <1>2, <1>3
     DEF Header, SelectDevice, TypeOK, WorkflowTypeOK, deviceVars, Stages
<1> QED BY <1>3, <1>4, PipelineUntouched DEF Header, SelectDevice, deviceVars

\* A scan thread's last step keeps PipelineInv.
LEMMA ScanFinishInv ==
  ASSUME PipelineInv, ScanFinish, UNCHANGED guiVars
  PROVE  PipelineInv'
<1>1. TypeOK /\ events \in Seq(Events) /\ scans \in Nat
  BY DEF PipelineInv, TypeOK, WorkflowTypeOK
<1>2. \E e \in Events : e.type # "Signed" /\ send(e)
  <2>1. \A ds \in ScanLists : Devices(ds) \in Events /\ Devices(ds).type = "Devices"
    BY EventTypes, WorkflowAssumption DEF Devices
  <2>2. DeviceScanFailed \in Events /\ DeviceScanFailed.type = "DeviceScanFailed"
    BY EventTypes DEF DeviceScanFailed
  <2> QED BY <2>1, <2>2 DEF ScanFinish
<1>3. TypeOK'
  <2>1. events' \in Seq(Events)
    BY <1>1, <1>2, SendType
  <2>2. scans' \in Nat
    BY <1>1 DEF ScanFinish
  <2> QED BY <1>1, <2>1, <2>2 DEF ScanFinish, guiVars, TypeOK, WorkflowTypeOK
<1> QED BY <1>2, <1>3, PipelineUntouched DEF ScanFinish, guiVars

\* The refresh timer is no part of PipelineInv.
LEMMA TimerInv ==
  ASSUME PipelineInv, TimerElapses
  PROVE  PipelineInv'
<1>1. TypeOK'
  BY DEF PipelineInv, TimerElapses, TypeOK, WorkflowTypeOK, workerVars, deviceVars
<1> QED BY <1>1, PipelineUntouched DEF TimerElapses, workerVars, deviceVars

\* A stuttering step keeps PipelineInv.
LEMMA StutterInv ==
  ASSUME PipelineInv, UNCHANGED vars
  PROVE  PipelineInv'
<1>1. TypeOK'
  BY DEF PipelineInv, TypeOK, WorkflowTypeOK, vars, workerVars, guiVars
<1> QED BY <1>1, PipelineUntouched DEF vars, workerVars, guiVars

(* PipelineInv, the inductive invariant of the two pipeline threads and the window. *)
THEOREM PipelineInvariant == Spec => []PipelineInv
<1>1. Init => PipelineInv
  BY PipelineInit
<1>2. PipelineInv /\ [Next]_vars => PipelineInv'
  <2> SUFFICES ASSUME PipelineInv, [Next]_vars PROVE PipelineInv'
    OBVIOUS
  <2>1. CASE UiStep
    BY <2>1, HandleScanEventInv, HandlePipelineEventInv, EndDrainInv, StartInv,
       HeaderInv DEF UiStep
  <2>2. CASE TimerElapses
    BY <2>2, TimerInv
  <2>3. CASE WorkerStep /\ UNCHANGED guiVars
    BY <2>3, ScanFinishInv, ResignStepInv, InstallStepInv DEF WorkerStep
  <2>4. CASE UNCHANGED vars
    BY <2>4, StutterInv
  <2> QED BY <2>1, <2>2, <2>3, <2>4 DEF Next
<1> QED BY <1>1, <1>2, PTL DEF Spec

(* Every variable keeps its type; in particular every install thread has a    *)
(* device, so the branch of start_install without one is never taken.         *)
THEOREM TypeCorrect == Spec => []TypeOK
<1>1. PipelineInv => TypeOK
  BY DEF PipelineInv
<1> QED BY <1>1, PipelineInvariant, PTL

(* No signed file is installed twice, for any number of operations. *)
THEOREM InstallsOnce == Spec => []InstallOnce
<1>1. PipelineInv => InstallOnce
  BY DEF PipelineInv
<1> QED BY <1>1, PipelineInvariant, PTL

(* Only finished, signed files are pushed. *)
THEOREM PushesSigned == Spec => []PushAfterSign
<1>1. PipelineInv => PushAfterSign
  BY DEF PipelineInv, SignedShown, Delivered, PushAfterSign
<1> QED BY <1>1, PipelineInvariant, PTL

(* An operation that is still the last one started is installed on its device. *)
THEOREM NeverRedirected == Spec => []NoRedirect
<1>1. PipelineInv => NoRedirect
  BY DEF PipelineInv
<1> QED BY <1>1, PipelineInvariant, PTL
-----------------------------------------------------------------------------
(* Scanning: the running flag is exact, and the one-scan slot is refined.  *)

\* What a step does to the outstanding scan: nothing, start it, deliver its
\* result, or take the result and perhaps start the next one.
ScanUntouched ==
  /\ UNCHANGED <<scans, device_scan_running>>
  /\ \/ ScanResults = {} /\ ScanResults' = {}
     \/ \E i, j : ScanResults = {i} /\ ScanResults' = {j} /\ j \in DOMAIN events'

ScanStarted ==
  /\ ~device_scan_running /\ device_scan_running'
  /\ scans' = scans + 1
  /\ ScanResults = {} /\ ScanResults' = {}

ScanDelivered ==
  /\ UNCHANGED device_scan_running
  /\ scans = 1 /\ scans' = 0
  /\ ScanResults = {} /\ \E i \in DOMAIN events' : ScanResults' = {i}

ScanTaken ==
  /\ scans = 0 /\ ScanResults # {} /\ ScanResults' = {}
  /\ \/ ~device_scan_running' /\ scans' = 0
     \/ device_scan_running' /\ scans' = 1

\* Sending the result of a scan adds its place to ScanResults; no other event does.
LEMMA ResultsAfterSend ==
  ASSUME events \in Seq(Events), NEW e \in Events, send(e)
  PROVE  /\ ScanResults' = IF IsScanEvent(e) THEN ScanResults \cup {Len(events) + 1}
                                             ELSE ScanResults
         /\ DOMAIN events \subseteq DOMAIN events'
         /\ Len(events) + 1 \in DOMAIN events'
<1>1. /\ \A i \in DOMAIN events' :
           \/ i \in DOMAIN events /\ events'[i] = events[i]
           \/ i = Len(events) + 1 /\ events'[i] = e
      /\ \A i \in DOMAIN events : i \in DOMAIN events' /\ events'[i] = events[i]
      /\ DOMAIN events' = 1..(Len(events) + 1)
  BY AppendFacts DEF send
<1>2. DOMAIN events = 1..Len(events) /\ Len(events) \in Nat
  BY LenProperties
<1>3. Len(events) + 1 \in DOMAIN events' /\ Len(events) + 1 \notin DOMAIN events
  BY <1>1, <1>2
<1>4. events'[Len(events) + 1] = e
  BY <1>1, <1>3
<1> QED BY <1>1, <1>3, <1>4 DEF ScanResults

\* Taking the head of the channel moves the results one place forward.
LEMMA ResultsAfterTake ==
  ASSUME events \in Seq(Events), events # <<>>, events' = Tail(events)
  PROVE  /\ \A i \in ScanResults' : i + 1 \in ScanResults /\ i \in Int /\ i # 0
         /\ \A i \in ScanResults : i # 1 => i - 1 \in ScanResults'
         /\ \A i \in ScanResults : i \in Int
         /\ ScanResults' \subseteq DOMAIN events'
<1>1. /\ \A i \in DOMAIN events' : i + 1 \in DOMAIN events /\ events'[i] = events[i + 1]
      /\ \A i \in DOMAIN events : i # 1 => i - 1 \in DOMAIN events'
                                          /\ events'[i - 1] = events[i]
      /\ \A i \in DOMAIN events : i \in Int
      /\ events' \in Seq(Events)
  BY TailFacts
<1>2. \A i \in DOMAIN events' : i \in Int /\ i # 0
  BY <1>1, LenProperties
<1> QED BY <1>1, <1>2 DEF ScanResults

\* request_device_scan starts a scan only when none is outstanding.
LEMMA RequestStarts ==
  ASSUME TypeOK, NEW running \in BOOLEAN, NEW opened \in BOOLEAN,
         request_device_scan(state.phase, running, opened)
  PROVE  \/ scans' = scans /\ device_scan_running' = running
         \/ scans' = scans + 1 /\ ~running /\ device_scan_running' = TRUE
BY DEF request_device_scan, device_scan_plan, TypeOK, device_controls_enabled

\* What a step can do to the slot: nothing, start a scan, deliver its result or take it.
LEMMA ScanCases ==
  ASSUME PipelineInv, OneScan, [Next]_vars
  PROVE  ScanUntouched \/ ScanStarted \/ ScanDelivered \/ ScanTaken
<1>1. /\ TypeOK /\ events \in Seq(Events) /\ scans \in Nat
      /\ device_scan_running \in BOOLEAN
  BY DEF PipelineInv, TypeOK, WorkflowTypeOK
<1>2. \/ ScanResults = {}
      \/ \E i \in DOMAIN events : ScanResults = {i}
  BY <1>1 DEF OneScan
<1>3. ASSUME UNCHANGED <<events, scans, device_scan_running>>
      PROVE  ScanUntouched
  BY <1>2, <1>3 DEF ScanUntouched, ScanResults
<1>4. ASSUME UNCHANGED <<scans, device_scan_running>>,
             NEW e \in Events, ~IsScanEvent(e), send(e)
      PROVE  ScanUntouched
  BY <1>1, <1>2, <1>4, ResultsAfterSend DEF ScanUntouched
<1>5. ASSUME UNCHANGED events,
             request_device_scan(state.phase, device_scan_running, TRUE)
               \/ request_device_scan(state.phase, device_scan_running, FALSE)
      PROVE  ScanUntouched \/ ScanStarted
  <2>1. \/ UNCHANGED <<scans, device_scan_running>>
        \/ scans' = scans + 1 /\ ~device_scan_running /\ device_scan_running' = TRUE
    BY <1>1, <1>5, RequestStarts
  <2> QED BY <1>1, <1>3, <1>5, <2>1 DEF ScanStarted, OneScan, ScanResults
<1>6. CASE HandleScanEvent
  <2>1. events # <<>> /\ events' = Tail(events) /\ IsScanEvent(Head(events))
    BY <1>6 DEF HandleScanEvent, IsScanEvent
  <2>2. 1 \in ScanResults
    BY <1>1, <2>1, TailFacts DEF ScanResults
  <2>3. scans = 0 /\ ScanResults = {1}
    BY <1>1, <2>2 DEF OneScan
  <2>4. ScanResults' = {}
    BY <1>1, <2>1, <2>3, ResultsAfterTake
  <2>5. \/ scans' = scans /\ device_scan_running' = FALSE
        \/ scans' = scans + 1 /\ device_scan_running' = TRUE
    BY <1>1, <1>6, RequestStarts DEF HandleScanEvent
  <2> QED BY <2>3, <2>4, <2>5 DEF ScanTaken
<1>7. CASE HandlePipelineEvent
  <2>1. /\ events # <<>> /\ events' = Tail(events) /\ ~IsScanEvent(Head(events))
        /\ UNCHANGED <<scans, device_scan_running>>
    BY <1>7 DEF HandlePipelineEvent, IsScanEvent, scanVars
  <2>2. 1 \notin ScanResults
    BY <1>1, <2>1, TailFacts DEF ScanResults
  <2>3. CASE ScanResults = {}
    BY <1>1, <2>1, <2>3, ResultsAfterTake DEF ScanUntouched
  <2>4. ASSUME NEW i \in DOMAIN events, ScanResults = {i}
        PROVE  ScanUntouched
    <3>1. i \in Int /\ i # 1 /\ i - 1 \in ScanResults'
      BY <1>1, <2>1, <2>2, <2>4, ResultsAfterTake
    <3>2. \A k \in ScanResults' : k = i - 1
      BY <1>1, <2>1, <2>4, <3>1, ResultsAfterTake
    <3>3. ScanResults' = {i - 1} /\ i - 1 \in DOMAIN events'
      BY <1>1, <2>1, <3>1, <3>2, ResultsAfterTake
    <3> QED BY <2>1, <2>4, <3>3 DEF ScanUntouched
  <2> QED BY <1>2, <2>3, <2>4
<1>8. CASE ScanFinish /\ UNCHANGED guiVars
  <2>1. scans > 0 /\ scans' = scans - 1 /\ UNCHANGED device_scan_running
    BY <1>8 DEF ScanFinish, guiVars
  <2>2. scans = 1 /\ ScanResults = {}
    BY <1>1, <2>1 DEF OneScan
  <2>3. PICK e \in Events : IsScanEvent(e) /\ send(e)
    <3>1. \A ds \in ScanLists : Devices(ds) \in Events /\ Devices(ds).type = "Devices"
      BY EventTypes, WorkflowAssumption DEF Devices
    <3>2. DeviceScanFailed \in Events /\ DeviceScanFailed.type = "DeviceScanFailed"
      BY EventTypes DEF DeviceScanFailed
    <3> QED BY <1>8, <3>1, <3>2 DEF ScanFinish, IsScanEvent
  <2>4. ScanResults' = {Len(events) + 1} /\ Len(events) + 1 \in DOMAIN events'
    BY <1>1, <2>2, <2>3, ResultsAfterSend
  <2> QED BY <2>1, <2>2, <2>4 DEF ScanDelivered
<1>9. CASE WorkerStep /\ ~ScanFinish /\ UNCHANGED guiVars
  <2>1. UNCHANGED device_scan_running
    BY <1>9 DEF guiVars
  <2>2. ASSUME NEW w \in DOMAIN resigns, ResignStep(w)
        PROVE  ScanUntouched
    <3>1. Signed(w) \in Events /\ ~IsScanEvent(Signed(w))
      <4>1. w \in Nat
        BY <1>1, TypeFacts
      <4> QED BY <4>1, EventTypes DEF Signed, IsScanEvent
    <3> QED BY <1>1, <1>3, <1>4, <2>1, <2>2, <3>1, ResignStepFacts
  <2>3. ASSUME NEW w \in DOMAIN installs, InstallStep(w)
        PROVE  ScanUntouched
    <3>1. installs[w].resign \in DOMAIN resigns
      BY DEF PipelineInv, SignedShown, Delivered
    <3> QED BY <1>1, <1>3, <1>4, <2>1, <2>3, <3>1, InstallStepFacts
  <2> QED BY <1>9, <2>2, <2>3 DEF WorkerStep
<1>10. CASE EndDrain \/ Header \/ SelectDevice
  BY <1>5, <1>10 DEF EndDrain, Header, SelectDevice
<1>11. CASE DroppedFiles \/ MainCard \/ TimerElapses \/ UNCHANGED vars
  BY <1>3, <1>11
     DEF DroppedFiles, MainCard, TimerElapses, vars, scanVars, workerVars, guiVars
<1> QED BY <1>6, <1>7, <1>8, <1>9, <1>10, <1>11 DEF Next, UiStep

(* The running flag is set exactly while one scan is outstanding. *)
THEOREM ScanFlagExact == Spec => []OneScan
<1>1. Init => OneScan
  BY DEF Init, OneScan, ScanResults
<1>2. PipelineInv /\ OneScan /\ [Next]_vars => OneScan'
  <2> SUFFICES ASSUME PipelineInv, OneScan, [Next]_vars PROVE OneScan'
    OBVIOUS
  <2>1. scans \in Nat /\ device_scan_running \in BOOLEAN
    BY DEF PipelineInv, TypeOK, WorkflowTypeOK
  <2>2. CASE ScanUntouched
    BY <2>1, <2>2 DEF ScanUntouched, OneScan
  <2>3. CASE ScanStarted
    BY <2>1, <2>3 DEF ScanStarted, OneScan
  <2>4. CASE ScanDelivered
    BY <2>1, <2>4 DEF ScanDelivered, OneScan
  <2>5. CASE ScanTaken
    BY <2>1, <2>5 DEF ScanTaken, OneScan
  <2> QED BY <2>2, <2>3, <2>4, <2>5, ScanCases
<1> QED BY <1>1, <1>2, PipelineInvariant, PTL DEF Spec

(* Safety of the refinement: scanning only takes the steps of the one-scan slot. *)
THEOREM ImplementsScanSlot == Spec => Slot!SafeSpec
<1>1. Init => Slot!Init
  BY DEF Init, Slot!Init, ScanSlot, ScanResults
<1>2. PipelineInv /\ OneScan /\ [Next]_vars => [Slot!Next]_ScanSlot
  <2> SUFFICES ASSUME PipelineInv, OneScan, [Next]_vars
               PROVE  [Slot!Next]_ScanSlot
    OBVIOUS
  <2>1. scans \in Nat /\ device_scan_running \in BOOLEAN
    BY DEF PipelineInv, TypeOK, WorkflowTypeOK
  <2>2. \/ scans = 0
        \/ scans = 1 /\ ScanResults = {}
    BY <2>1 DEF OneScan
  <2>3. CASE ScanUntouched
    <3>1. scans' = scans /\ (ScanResults' = {} <=> ScanResults = {})
      BY <2>3 DEF ScanUntouched
    <3>2. ScanSlot' = ScanSlot
      BY <3>1 DEF ScanSlot
    <3> QED BY <3>2
  <2>4. CASE ScanStarted
    <3>1. scans = 0 /\ scans' = 1 /\ ScanResults = {} /\ ScanResults' = {}
      BY <2>1, <2>4 DEF ScanStarted, OneScan
    <3>2. ScanSlot = "free" /\ ScanSlot' = "probing"
      BY <3>1 DEF ScanSlot
    <3> QED BY <3>2 DEF Slot!Next, Slot!Start
  <2>5. CASE ScanDelivered
    <3>1. scans = 1 /\ scans' = 0 /\ ScanResults = {} /\ ScanResults' # {}
      BY <2>5 DEF ScanDelivered
    <3>2. ScanSlot = "probing" /\ ScanSlot' = "arriving"
      BY <3>1 DEF ScanSlot
    <3> QED BY <3>2 DEF Slot!Next, Slot!Deliver
  <2>6. CASE ScanTaken
    <3>1. scans = 0 /\ ScanResults # {} /\ ScanResults' = {} /\ scans' \in {0, 1}
      BY <2>6 DEF ScanTaken
    <3>2. ScanSlot = "arriving" /\ ScanSlot' \in {"free", "probing"}
      BY <3>1 DEF ScanSlot
    <3> QED BY <3>2 DEF Slot!Next, Slot!Take
  <2> QED BY <2>3, <2>4, <2>5, <2>6, ScanCases
<1> QED BY <1>1, <1>2, PipelineInvariant, ScanFlagExact, PTL DEF Spec, Slot!SafeSpec

(* A selected device is listed, and a lone listed device is selected. *)
THEOREM SelectionIsListed == Spec => []SelectionListed
<1>1. Init => SelectionListed
  BY DEF Init, SelectionListed, DefaultState
<1>2. PipelineInv /\ SelectionListed /\ [Next]_vars => SelectionListed'
  <2> SUFFICES ASSUME PipelineInv, SelectionListed, [Next]_vars PROVE SelectionListed'
    OBVIOUS
  <2>1. TypeOK /\ state \in States /\ events \in Seq(Events)
    BY DEF PipelineInv, TypeOK, WorkflowTypeOK
  <2>2. ASSUME state'.devices = state.devices, state'.device = state.device
        PROVE  SelectionListed'
    BY <2>2 DEF SelectionListed
  <2>3. CASE HandleScanEvent
    <3> DEFINE e == Head(events)
               chosen == resolve_selected_device(e.devices, state.device,
                                                 remembered_device_udid)
    <3>1. e \in Events
      BY <2>1, <2>3, HeadTailProperties DEF HandleScanEvent
    <3>2. /\ apply(state, e) \in States
          /\ apply(state, e).devices = IF e.type = "Devices" THEN e.devices ELSE state.devices
          /\ apply(state, e).device = state.device
      BY <2>1, <3>1, ApplyType, ApplyFrame
    <3>3. CASE e.type = "Devices"
      <4>1. state' = [apply(state, e) EXCEPT !.device = chosen]
        BY <2>3, <3>3 DEF HandleScanEvent
      <4>2. state'.device = chosen /\ state'.devices = e.devices
        BY <3>2, <3>3, <4>1 DEF States
      <4>3. e.devices \in SUBSET Device
        BY <3>1, <3>3 DEF Events
      <4> QED BY <4>2, <4>3, ResolveType DEF SelectionListed
    <3>4. CASE e.type # "Devices"
      BY <2>2, <2>3, <3>2, <3>4 DEF HandleScanEvent
    <3> QED BY <3>3, <3>4
  <2>4. CASE HandlePipelineEvent
    <3>1. Head(events) \in Events /\ Head(events).type # "Devices"
      BY <2>1, <2>4, HeadTailProperties DEF HandlePipelineEvent
    <3> QED BY <2>1, <2>2, <2>4, <3>1, ApplyFrame DEF HandlePipelineEvent
  <2>5. CASE SelectDevice
    <3>1. PICK d \in state.devices : state' = [state EXCEPT !.device = d]
      BY <2>5 DEF SelectDevice
    <3>2. state'.device = d /\ state'.devices = state.devices /\ d \in Device
      BY <2>1, <3>1 DEF States
    <3> QED BY <3>1, <3>2 DEF SelectionListed
  <2>6. CASE DroppedFiles \/ MainCard
    BY <2>1, <2>2, <2>6, StartCases DEF NothingStarted, Started
  <2>7. CASE EndDrain \/ Header \/ TimerElapses \/ (WorkerStep /\ UNCHANGED guiVars)
             \/ UNCHANGED vars
    BY <2>2, <2>7 DEF EndDrain, Header, TimerElapses, guiVars, vars
  <2> QED BY <2>3, <2>4, <2>5, <2>6, <2>7 DEF Next, UiStep
<1> QED BY <1>1, <1>2, PipelineInvariant, PTL DEF Spec
-----------------------------------------------------------------------------
(* A busy window is attended to.  A thread that ends sends its result last,    *)
(* behind every phase it has announced: whatever phase the window shows, and   *)
(* whatever phase waits in the channel, a thread is still at work or a result  *)
(* comes behind it.                                                            *)

WorkerPhases == {"Inspecting", "Authenticating", "WaitingForLogin",
                 "PreparingMaterials", "Signing", "Installing"}

WorkerAlive == \/ \E w \in DOMAIN resigns : resigns[w].pc # "done"
               \/ \E w \in DOMAIN installs : installs[w].pc # "done"

IsResult(e) == e.type \in {"Signed", "Installed", "Failed"}

ResultComes == \E i \in DOMAIN events : IsResult(events[i])

Attended ==
  /\ state.phase \in WorkerPhases => WorkerAlive \/ ResultComes
  /\ Len(resigns) <= 1 /\ state.phase = "ReadyToInstall" =>
       WorkerAlive \/ ResultComes \/ (~install_started /\ frame = "drain")

\* Every announced phase has a result behind it, and is a phase of a worker.
ResultsBehind ==
  \A i \in DOMAIN events : events[i].type = "Phase" =>
    /\ events[i].phase \in WorkerPhases
    /\ WorkerAlive \/ \E j \in DOMAIN events : i < j /\ IsResult(events[j])

\* What the flag says of a first operation, and of a file that is ready.
FirstInstall ==
  /\ Len(resigns) <= 1 /\ install_started =>
       \E j \in DOMAIN installs : installs[j].resign = 1
  /\ state.phase = "ReadyToInstall" =>
       state.signed_hap # NoWorker /\ (frame # "drain" => install_started)

AttendInv == Attended /\ ResultsBehind /\ FirstInstall

\* What a step of a thread tells the window: it goes on, perhaps to a phase it
\* announces, or it ends with a result.
ThreadGoesOn ==
  /\ WorkerAlive'
  /\ UNCHANGED events \/ \E p \in WorkerPhases : send(Phase(p))

ThreadEnds == \E e \in Events : IsResult(e) /\ send(e)

\* A resign thread is at work until it ends with Signed or Failed.
LEMMA ResignTells ==
  ASSUME PipelineInv, NEW w \in DOMAIN resigns, ResignStep(w)
  PROVE  WorkerAlive /\ (ThreadGoesOn \/ ThreadEnds)
<1>1. /\ resigns \in Seq(ResignThreads) /\ w \in Nat
      /\ resigns[w].pc # "done"
  BY TypeFacts, ResignStepFacts DEF PipelineInv
<1>2. ASSUME NEW from, NEW to \in ResignPcs \ {"done"}, ResignGoto(w, from, to)
      PROVE  WorkerAlive'
  <2>1. w \in DOMAIN resigns' /\ resigns'[w].pc = to
    BY <1>1, <1>2, ResignGotoFacts
  <2> QED BY <1>2, <2>1 DEF WorkerAlive
<1>3. CASE ResignStart(w) \/ LocalMaterialsFound(w) \/ NoLocalMaterials(w)
  <2>1. WorkerAlive'
    BY <1>2, <1>3 DEF ResignStart, LocalMaterialsFound, NoLocalMaterials, ResignPcs
  <2>2. \E p \in WorkerPhases : send(Phase(p))
    BY <1>3 DEF ResignStart, LocalMaterialsFound, NoLocalMaterials, WorkerPhases
  <2> QED BY <1>1, <2>1, <2>2 DEF WorkerAlive, ThreadGoesOn
<1>4. CASE TokenRefreshed(w) \/ OpenBrowser(w) \/ LoggedIn(w) \/ MaterialsPrepared(w)
  <2>1. WorkerAlive'
    BY <1>2, <1>4 DEF TokenRefreshed, OpenBrowser, LoggedIn, MaterialsPrepared, ResignPcs
  <2>2. \E p \in WorkerPhases : send(Phase(p))
    BY <1>4 DEF TokenRefreshed, OpenBrowser, LoggedIn, MaterialsPrepared, WorkerPhases
  <2> QED BY <1>1, <2>1, <2>2 DEF WorkerAlive, ThreadGoesOn
<1>5. CASE WriteOutput(w)
  <2>1. WorkerAlive' /\ UNCHANGED events
    BY <1>2, <1>5 DEF WriteOutput, ResignPcs
  <2> QED BY <1>1, <2>1 DEF WorkerAlive, ThreadGoesOn
<1>6. CASE SendSigned(w) \/ ResignFailed(w)
  <2>1. /\ Signed(w) \in Events /\ IsResult(Signed(w))
        /\ Failed \in Events /\ IsResult(Failed)
    BY <1>1, EventTypes DEF IsResult, Signed, Failed
  <2>2. send(Signed(w)) \/ send(Failed)
    BY <1>6 DEF SendSigned, ResignFailed
  <2> QED BY <1>1, <2>1, <2>2 DEF WorkerAlive, ThreadEnds
<1> QED BY <1>3, <1>4, <1>5, <1>6 DEF ResignStep

\* An install thread is at work until it ends with Installed or Failed.
LEMMA InstallTells ==
  ASSUME PipelineInv, NEW w \in DOMAIN installs, InstallStep(w)
  PROVE  WorkerAlive /\ (ThreadGoesOn \/ ThreadEnds)
<1>1. /\ DOMAIN installs = 1..Len(installs) /\ Len(installs) \in Nat
      /\ w \in Nat /\ installs[w] \in InstallThreads
  BY TypeFacts DEF PipelineInv
<1>2. installs[w].pc # "done"
  BY DEF InstallStep, InstallStart, Push, Launched, InstallFailed, InstallAt
<1>3. CASE InstallStart(w) \/ Push(w)
  <2>1. installs'[w].pc \in {"push", "launch"} /\ DOMAIN installs' = DOMAIN installs
    BY <1>1, <1>3 DEF InstallStart, Push, InstallThreads
  <2>2. UNCHANGED events \/ \E p \in WorkerPhases : send(Phase(p))
    BY <1>3 DEF InstallStart, Push, WorkerPhases
  <2> QED BY <1>2, <2>1, <2>2 DEF WorkerAlive, ThreadGoesOn
<1>4. CASE Launched(w) \/ InstallFailed(w)
  <2>1. /\ Installed(w) \in Events /\ IsResult(Installed(w))
        /\ Failed \in Events /\ IsResult(Failed)
    BY <1>1, EventTypes DEF IsResult, Installed, Failed
  <2>2. send(Installed(w)) \/ send(Failed)
    BY <1>4 DEF Launched, InstallFailed
  <2> QED BY <1>2, <2>1, <2>2 DEF WorkerAlive, ThreadEnds
<1> QED BY <1>3, <1>4 DEF InstallStep

\* A step of a thread keeps AttendInv.
LEMMA WorkerAttend ==
  ASSUME PipelineInv, AttendInv, WorkerStep, ~ScanFinish, UNCHANGED guiVars
  PROVE  AttendInv'
<1>1. events \in Seq(Events) /\ UNCHANGED <<state, install_started, frame>>
  BY TypeFacts DEF PipelineInv, guiVars
<1>2. /\ WorkerAlive /\ (ThreadGoesOn \/ ThreadEnds)
      /\ Len(resigns') = Len(resigns)
      /\ DOMAIN installs' = DOMAIN installs
      /\ \A j \in DOMAIN installs : installs'[j].resign = installs[j].resign
  <2>1. ASSUME NEW w \in DOMAIN resigns, ResignStep(w)
        PROVE  Len(resigns') = Len(resigns) /\ UNCHANGED installs
    BY <2>1, ResignStepFacts DEF PipelineInv
  <2>2. ASSUME NEW w \in DOMAIN installs, InstallStep(w)
        PROVE  /\ UNCHANGED resigns /\ DOMAIN installs' = DOMAIN installs
               /\ \A j \in DOMAIN installs : installs'[j].resign = installs[j].resign
    <3>1. installs[w].resign \in DOMAIN resigns
      BY DEF PipelineInv, SignedShown, Delivered
    <3> QED BY <2>2, <3>1, InstallStepFacts DEF PipelineInv
  <2> QED BY <2>1, <2>2, ResignTells, InstallTells DEF WorkerStep
<1>3. FirstInstall'
  BY <1>1, <1>2 DEF AttendInv, FirstInstall
<1>4. CASE ThreadGoesOn
  <2>1. Attended'
    BY <1>4 DEF ThreadGoesOn, Attended
  <2>2. ASSUME UNCHANGED events
        PROVE  ResultsBehind'
    <3>1. \A i \in DOMAIN events :
            events[i].type = "Phase" => events[i].phase \in WorkerPhases
      BY DEF AttendInv, ResultsBehind
    <3> QED BY <1>4, <2>2, <3>1 DEF ThreadGoesOn, ResultsBehind
  <2>3. ASSUME NEW p \in WorkerPhases, send(Phase(p))
        PROVE  ResultsBehind'
    <3>1. Phase(p) \in Events /\ Phase(p).phase = p
      BY EventTypes DEF WorkerPhases, Phases, Phase
    <3>2. \A i \in DOMAIN events' :
            (i \in DOMAIN events /\ events'[i] = events[i]) \/ events'[i] = Phase(p)
      BY <1>1, <2>3, <3>1, AppendFacts DEF send
    <3>3. \A i \in DOMAIN events' :
            events'[i].type = "Phase" => events'[i].phase \in WorkerPhases
      BY <3>1, <3>2 DEF AttendInv, ResultsBehind
    <3> QED BY <1>4, <3>3 DEF ThreadGoesOn, ResultsBehind
  <2> QED BY <1>3, <1>4, <2>1, <2>2, <2>3 DEF ThreadGoesOn, AttendInv
<1>5. CASE ThreadEnds
  <2>1. PICK e \in Events : IsResult(e) /\ send(e)
    BY <1>5 DEF ThreadEnds
  <2> DEFINE n == Len(events) + 1
  <2>2. /\ n \in DOMAIN events' /\ events'[n] = e
        /\ \A i \in DOMAIN events' :
             (i \in DOMAIN events /\ i < n /\ events'[i] = events[i]) \/ events'[i] = e
    <3>1. Len(events) \in Nat /\ DOMAIN events = 1..Len(events)
      BY <1>1, LenProperties
    <3>2. /\ DOMAIN events' = 1..(Len(events) + 1)
          /\ \A i \in DOMAIN events' :
               \/ i \in DOMAIN events /\ events'[i] = events[i]
               \/ i = Len(events) + 1 /\ events'[i] = e
      BY <1>1, <2>1, AppendFacts DEF send
    <3> QED BY <3>1, <3>2
  <2>3. Attended'
    BY <2>1, <2>2 DEF Attended, ResultComes
  <2>4. e.type # "Phase"
    BY <2>1 DEF IsResult
  <2>5. ResultsBehind'
    BY <2>1, <2>2, <2>4 DEF AttendInv, ResultsBehind
  <2> QED BY <1>3, <2>3, <2>5 DEF AttendInv
<1> QED BY <1>2, <1>4, <1>5

\* Steps that leave the threads, the phase and the file shown alone, and send the
\* result of a scan at most.
LEMMA AttendUntouched ==
  ASSUME TypeOK, AttendInv,
         UNCHANGED <<resigns, installs, install_started>>,
         state'.phase = state.phase, state'.signed_hap = state.signed_hap,
         UNCHANGED frame \/ frame # "drain",
         UNCHANGED events \/ \E e \in Events : IsScanEvent(e) /\ send(e)
  PROVE  AttendInv'
<1>1. WorkerAlive' = WorkerAlive
  BY DEF WorkerAlive
<1>2. FirstInstall'
  BY DEF AttendInv, FirstInstall
<1>3. CASE UNCHANGED events
  BY <1>1, <1>2, <1>3 DEF AttendInv, Attended, ResultsBehind, ResultComes
<1>4. ASSUME NEW e \in Events, IsScanEvent(e), send(e)
      PROVE  AttendInv'
  <2>1. /\ \A i \in DOMAIN events : i \in DOMAIN events' /\ events'[i] = events[i]
        /\ \A i \in DOMAIN events' :
             (i \in DOMAIN events /\ events'[i] = events[i]) \/ events'[i] = e
    BY <1>4, TypeFacts, AppendFacts DEF send
  <2>2. e.type # "Phase"
    BY <1>4 DEF IsScanEvent
  <2>3. ResultComes => ResultComes'
    BY <2>1 DEF ResultComes
  <2>4. Attended'
    BY <1>1, <2>3 DEF AttendInv, Attended
  <2>5. ResultsBehind'
    BY <1>1, <2>1, <2>2 DEF AttendInv, ResultsBehind
  <2> QED BY <1>2, <2>4, <2>5 DEF AttendInv
<1> QED BY <1>3, <1>4

\* Taking an event of the pipeline: a phase has a result behind it; the file of a first
\* operation finds no install started.
LEMMA PipelineAttend ==
  ASSUME PipelineInv, AttendInv, HandlePipelineEvent
  PROVE  AttendInv'
<1> DEFINE e == events[1]
<1>1. /\ events \in Seq(Events) /\ events # <<>> /\ events' = Tail(events)
      /\ frame = "drain" /\ state \in States
      /\ UNCHANGED <<resigns, installs, install_started, frame>>
      /\ Head(events).type \in {"Phase", "Signed", "Installed", "Failed"}
      /\ state' = apply(state, Head(events))
  BY TypeFacts DEF PipelineInv, TypeOK, HandlePipelineEvent
<1>2. /\ Head(events) = e /\ 1 \in DOMAIN events /\ e \in Events
      /\ \A i \in DOMAIN events' : i + 1 \in DOMAIN events /\ events'[i] = events[i + 1]
      /\ \A i \in DOMAIN events :
           i # 1 => i - 1 \in DOMAIN events' /\ events'[i - 1] = events[i]
      /\ \A i \in DOMAIN events : i \in Int
      /\ \A i \in DOMAIN events' : i \in Nat
  <2>1. Tail(events) \in Seq(Events)
    BY <1>1, TailFacts
  <2>2. \A i \in DOMAIN Tail(events) : i \in Nat
    BY <2>1, LenProperties
  <2>3. e \in Events
    BY <1>1, TailFacts, HeadTailProperties
  <2> QED BY <1>1, <2>2, <2>3, TailFacts
<1>3. WorkerAlive' = WorkerAlive
  BY <1>1 DEF WorkerAlive
<1>4. ResultsBehind'
  <2> SUFFICES ASSUME NEW i \in DOMAIN events', events'[i].type = "Phase"
               PROVE  /\ events'[i].phase \in WorkerPhases
                      /\ WorkerAlive \/ \E j \in DOMAIN events' : i < j /\ IsResult(events'[j])
    BY <1>3 DEF ResultsBehind
  <2>1. i \in Nat /\ i + 1 \in DOMAIN events /\ events'[i] = events[i + 1]
    BY <1>2
  <2>2. /\ events'[i].phase \in WorkerPhases
        /\ WorkerAlive \/ \E j \in DOMAIN events : i + 1 < j /\ IsResult(events[j])
    BY <2>1 DEF AttendInv, ResultsBehind
  <2>3. ASSUME NEW j \in DOMAIN events, i + 1 < j, IsResult(events[j])
        PROVE  \E k \in DOMAIN events' : i < k /\ IsResult(events'[k])
    <3>1. j \in Int /\ j # 1
      BY <1>2, <2>1, <2>3
    <3>2. j - 1 \in DOMAIN events' /\ events'[j - 1] = events[j] /\ i < j - 1
      BY <1>2, <2>1, <2>3, <3>1
    <3> QED BY <2>3, <3>2
  <2> QED BY <2>2, <2>3
<1>5. CASE e.type = "Phase"
  <2>1. /\ e.phase \in WorkerPhases
        /\ WorkerAlive \/ \E j \in DOMAIN events : 1 < j /\ IsResult(events[j])
    BY <1>2, <1>5 DEF AttendInv, ResultsBehind
  <2>2. WorkerAlive \/ ResultComes'
    <3>1. ASSUME NEW j \in DOMAIN events, 1 < j, IsResult(events[j])
          PROVE  ResultComes'
      <4>1. j # 1
        BY <1>2, <3>1
      <4> QED BY <1>2, <3>1, <4>1 DEF ResultComes
    <3> QED BY <2>1, <3>1
  <2>3. state'.phase = e.phase
    BY <1>1, <1>2, <1>5 DEF apply, ApplyPhase, States
  <2>4. state'.phase # "ReadyToInstall"
    BY <2>1, <2>3 DEF WorkerPhases
  <2>5. Attended' /\ FirstInstall'
    BY <1>1, <1>3, <2>2, <2>4 DEF Attended, AttendInv, FirstInstall
  <2> QED BY <1>4, <2>5 DEF AttendInv
<1>6. CASE e.type = "Signed"
  <2>1. state'.phase = "ReadyToInstall" /\ state'.signed_hap = e.worker
    BY <1>1, <1>2, <1>6 DEF apply, States
  <2>2. /\ e.worker \in DOMAIN resigns
        /\ \A j \in DOMAIN installs : installs[j].resign # e.worker
    BY <1>2, <1>6 DEF PipelineInv, SignedOnTheWay, Delivered
  <2>3. /\ e.worker \in 1..Len(resigns) /\ Len(resigns) \in Nat /\ e.worker # NoWorker
    BY <2>2, TypeFacts DEF PipelineInv
  <2>4. Len(resigns) <= 1 => ~install_started
    <3>1. Len(resigns) <= 1 => e.worker = 1
      BY <2>3
    <3> QED BY <2>2, <3>1 DEF AttendInv, FirstInstall
  <2>5. Attended' /\ FirstInstall'
    BY <1>1, <2>1, <2>3, <2>4 DEF Attended, AttendInv, FirstInstall, WorkerPhases
  <2> QED BY <1>4, <2>5 DEF AttendInv
<1>7. CASE e.type \in {"Installed", "Failed"}
  <2>1. state'.phase \in {"Done", "Error"}
    BY <1>1, <1>2, <1>7 DEF apply, ApplyFailed, States
  <2>2. Attended' /\ FirstInstall'
    BY <1>1, <2>1 DEF Attended, AttendInv, FirstInstall, WorkerPhases
  <2> QED BY <1>4, <2>2 DEF AttendInv
<1> QED BY <1>1, <1>2, <1>5, <1>6, <1>7

\* Taking the result of a scan leaves the phase and what comes behind it.
LEMMA ScanAttend ==
  ASSUME PipelineInv, AttendInv, HandleScanEvent
  PROVE  AttendInv'
<1> DEFINE e == events[1]
<1>1. /\ events \in Seq(Events) /\ events # <<>> /\ events' = Tail(events)
      /\ state \in States
      /\ UNCHANGED <<resigns, installs, install_started, frame>>
      /\ Head(events).type \in {"Devices", "DeviceScanFailed"}
  BY TypeFacts DEF PipelineInv, TypeOK, HandleScanEvent
<1>2. /\ Head(events) = e /\ 1 \in DOMAIN events /\ e \in Events
      /\ \A i \in DOMAIN events' : i + 1 \in DOMAIN events /\ events'[i] = events[i + 1]
      /\ \A i \in DOMAIN events :
           i # 1 => i - 1 \in DOMAIN events' /\ events'[i - 1] = events[i]
      /\ \A i \in DOMAIN events : i \in Int
      /\ \A i \in DOMAIN events' : i \in Nat
  <2>1. Tail(events) \in Seq(Events)
    BY <1>1, TailFacts
  <2>2. \A i \in DOMAIN Tail(events) : i \in Nat
    BY <2>1, LenProperties
  <2>3. e \in Events
    BY <1>1, TailFacts, HeadTailProperties
  <2> QED BY <1>1, <2>2, <2>3, TailFacts
<1>3. WorkerAlive' = WorkerAlive /\ ~IsResult(e)
  BY <1>1, <1>2 DEF WorkerAlive, IsResult
<1>4. state'.phase = state.phase /\ state'.signed_hap = state.signed_hap
  <2>1. /\ apply(state, e).phase = state.phase
        /\ apply(state, e).signed_hap = state.signed_hap
        /\ apply(state, e) \in States
    <3>1. apply(state, e) \in States
      BY <1>1, <1>2, ApplyType
    <3> QED BY <1>1, <1>2, <3>1 DEF apply, States
  <2> QED BY <1>2, <2>1 DEF HandleScanEvent, States
<1>5. ResultComes => ResultComes'
  <2> SUFFICES ASSUME NEW i \in DOMAIN events, IsResult(events[i]) PROVE ResultComes'
    BY DEF ResultComes
  <2>1. i # 1
    BY <1>3
  <2> QED BY <1>2, <2>1 DEF ResultComes
<1>6. ResultsBehind'
  <2> SUFFICES ASSUME NEW i \in DOMAIN events', events'[i].type = "Phase"
               PROVE  /\ events'[i].phase \in WorkerPhases
                      /\ WorkerAlive \/ \E j \in DOMAIN events' : i < j /\ IsResult(events'[j])
    BY <1>3 DEF ResultsBehind
  <2>1. i \in Nat /\ i + 1 \in DOMAIN events /\ events'[i] = events[i + 1]
    BY <1>2
  <2>2. /\ events'[i].phase \in WorkerPhases
        /\ WorkerAlive \/ \E j \in DOMAIN events : i + 1 < j /\ IsResult(events[j])
    BY <2>1 DEF AttendInv, ResultsBehind
  <2>3. ASSUME NEW j \in DOMAIN events, i + 1 < j, IsResult(events[j])
        PROVE  \E k \in DOMAIN events' : i < k /\ IsResult(events'[k])
    <3>1. j \in Int /\ j # 1
      BY <1>2, <2>1, <2>3
    <3>2. j - 1 \in DOMAIN events' /\ events'[j - 1] = events[j] /\ i < j - 1
      BY <1>2, <2>1, <2>3, <3>1
    <3> QED BY <2>3, <3>2
  <2> QED BY <2>2, <2>3
<1>7. Attended' /\ FirstInstall'
  BY <1>1, <1>3, <1>4, <1>5 DEF AttendInv, Attended, FirstInstall
<1> QED BY <1>6, <1>7 DEF AttendInv

\* Where an operation may start: a new thread attends to the window, or it shows an error,
\* or nothing happens.
LEMMA StartAttend ==
  ASSUME PipelineInv, AttendInv, DroppedFiles \/ MainCard
  PROVE  AttendInv'
<1>1. /\ TypeOK /\ state \in States /\ frame # "drain"
      /\ UNCHANGED <<events, installs>>
  BY DEF PipelineInv, TypeOK, DroppedFiles, MainCard
<1>2. resigns \in Seq(ResignThreads) /\ Len(resigns) \in Nat
  BY <1>1, TypeFacts
<1>3. ASSUME UNCHANGED <<state, selected_hap, operation_device, install_started, resigns>>
      PROVE  AttendInv'
  BY <1>1, <1>3, AttendUntouched
<1>4. ASSUME NoDeviceSelected
      PROVE  AttendInv'
  <2>1. state'.phase = "Error" /\ UNCHANGED <<resigns, install_started>>
    BY <1>1, <1>4 DEF NoDeviceSelected, ApplyFailed, States
  <2>2. WorkerAlive' = WorkerAlive
    BY <1>1, <2>1 DEF WorkerAlive
  <2> QED BY <1>1, <2>1, <2>2
          DEF AttendInv, Attended, ResultsBehind, FirstInstall, WorkerPhases
<1>5. ASSUME NEW h \in Hap, start_resign(h)
      PROVE  AttendInv'
  <2>1. CASE ~can_start(state)
    BY <1>3, <1>5, <2>1 DEF start_resign
  <2>2. CASE can_start(state) /\ state.device = NoDevice
    BY <1>4, <1>5, <2>2 DEF start_resign
  <2>3. CASE can_start(state) /\ state.device # NoDevice
    <3> DEFINE t == [hap |-> h, device |-> state.device, pc |-> "spawned"]
    <3>1. /\ state' = [ApplyPhase(state, "Inspecting") EXCEPT !.signed_hap = NoWorker]
          /\ install_started' = FALSE /\ resigns' = Append(resigns, t)
      BY <1>5, <2>3 DEF start_resign, spawn_resign
    <3>2. state'.phase = "Inspecting"
      BY <1>1, <3>1 DEF ApplyPhase, States
    <3>3. Len(resigns) + 1 \in DOMAIN resigns' /\ resigns'[Len(resigns) + 1] = t
      BY <1>2, <3>1
    <3>4. WorkerAlive'
      BY <3>3 DEF WorkerAlive
    <3> QED BY <1>1, <3>1, <3>2, <3>4
            DEF AttendInv, Attended, ResultsBehind, FirstInstall, WorkerPhases
  <2> QED BY <2>1, <2>2, <2>3
<1>6. ASSUME choose_hap
      PROVE  AttendInv'
  BY <1>4, <1>5, <1>6 DEF choose_hap
<1>7. ASSUME retry
      PROVE  AttendInv'
  <2>1. selected_hap \in Hap \cup {NoHap}
    BY <1>1 DEF TypeOK
  <2> QED BY <1>4, <1>5, <1>6, <1>7, <2>1 DEF retry
<1> QED BY <1>3, <1>5, <1>6, <1>7 DEF DroppedFiles, MainCard

\* At the end of the drain a file that is ready and not installed yet gets its thread.
LEMMA DrainAttend ==
  ASSUME PipelineInv, AttendInv, EndDrain
  PROVE  AttendInv'
<1>1. /\ TypeOK /\ frame = "drain" /\ frame' = "drop"
      /\ UNCHANGED <<events, resigns, state>>
      /\ IF should_auto_install(state.phase, install_started)
           THEN start_install
           ELSE UNCHANGED <<install_started, installs>>
  BY DEF PipelineInv, EndDrain
<1>2. CASE state.phase = "ReadyToInstall" /\ ~install_started
  <2> DEFINE t == [resign |-> state.signed_hap, device |-> operation_device,
                   pc |-> "spawned", pushed |-> NoDevice]
             n == Len(installs) + 1
  <2>1. state.signed_hap # NoWorker
    BY <1>2 DEF AttendInv, FirstInstall
  <2>2. install_started' = TRUE /\ installs' = Append(installs, t)
    BY <1>1, <1>2, <2>1
       DEF should_auto_install, start_install, can_install, spawn_install
  <2>3. installs \in Seq(InstallThreads)
    BY <1>1, TypeFacts
  <2>4. n \in DOMAIN installs' /\ installs'[n] = t
    BY <2>2, <2>3
  <2>5. WorkerAlive'
    BY <2>4 DEF WorkerAlive
  <2>6. Len(resigns) <= 1 => t.resign = 1
    <3>1. state.signed_hap \in 1..Len(resigns) /\ Len(resigns) \in Nat
      BY <1>1, <2>1, TypeFacts DEF PipelineInv, SignedShown, Delivered
    <3> QED BY <3>1
  <2>7. Attended' /\ ResultsBehind'
    BY <1>1, <2>5 DEF AttendInv, Attended, ResultsBehind
  <2>8. FirstInstall'
    BY <1>1, <2>1, <2>2, <2>4, <2>6 DEF FirstInstall
  <2> QED BY <2>7, <2>8 DEF AttendInv
<1>3. CASE ~(state.phase = "ReadyToInstall" /\ ~install_started)
  <2>1. UNCHANGED <<install_started, installs>>
    BY <1>1, <1>3 DEF should_auto_install
  <2>2. WorkerAlive' = WorkerAlive /\ ResultComes' = ResultComes
    BY <1>1, <2>1 DEF WorkerAlive, ResultComes
  <2>3. Attended' /\ FirstInstall'
    BY <1>1, <1>3, <2>1, <2>2 DEF AttendInv, Attended, FirstInstall
  <2>4. ResultsBehind'
    BY <1>1, <2>2 DEF AttendInv, ResultsBehind
  <2> QED BY <2>3, <2>4 DEF AttendInv
<1> QED BY <1>2, <1>3

\* The other steps do not touch what is attended to.
LEMMA OthersAttend ==
  ASSUME PipelineInv, AttendInv,
         \/ Header \/ SelectDevice \/ TimerElapses \/ UNCHANGED vars
         \/ ScanFinish /\ UNCHANGED guiVars
  PROVE  AttendInv'
<1>1. TypeOK /\ state \in States
  BY DEF PipelineInv, TypeOK
<1>2. CASE Header \/ SelectDevice
  <2>1. /\ UNCHANGED <<events, resigns, installs, install_started>> /\ frame # "drain"
        /\ state'.phase = state.phase /\ state'.signed_hap = state.signed_hap
    BY <1>1, <1>2 DEF Header, SelectDevice, States
  <2> QED BY <1>1, <2>1, AttendUntouched
<1>3. CASE TimerElapses \/ UNCHANGED vars
  <2>1. UNCHANGED <<events, resigns, installs, install_started, state, frame>>
    BY <1>3 DEF TimerElapses, vars, workerVars, guiVars
  <2> QED BY <1>1, <2>1, AttendUntouched
<1>4. CASE ScanFinish /\ UNCHANGED guiVars
  <2>1. UNCHANGED <<resigns, installs, install_started, state, frame>>
    BY <1>4 DEF ScanFinish, guiVars
  <2>2. \E e \in Events : IsScanEvent(e) /\ send(e)
    <3>1. \A ds \in ScanLists : Devices(ds) \in Events /\ Devices(ds).type = "Devices"
      BY EventTypes, WorkflowAssumption DEF Devices
    <3>2. DeviceScanFailed \in Events /\ DeviceScanFailed.type = "DeviceScanFailed"
      BY EventTypes DEF DeviceScanFailed
    <3> QED BY <1>4, <3>1, <3>2 DEF ScanFinish, IsScanEvent
  <2> QED BY <1>1, <2>1, <2>2, AttendUntouched
<1> QED BY <1>2, <1>3, <1>4

(* A window that shows a worker's phase is never left alone, however many       *)
(* operations overlap and in whatever order their events come: a thread is      *)
(* still at work, or the result of one is in the channel.  For the first        *)
(* operation this holds of ReadyToInstall too, where otherwise the drain is     *)
(* about to start the install; with several, the flag install_started may be    *)
(* that of another file (ReadyIsInstalled).  It is what OperationEnds needs     *)
(* besides fairness and install threads that return (spawn_resign and           *)
(* spawn_install send Signed, Installed or Failed last, workflow.rs:25-62;      *)
(* start_install, gui.rs:239-261).                                              *)
THEOREM BusyIsAttended == Spec => []Attended
<1>1. Init => AttendInv
  BY DEF Init, DefaultState, AttendInv, Attended, ResultsBehind, FirstInstall, WorkerPhases
<1>2. PipelineInv /\ AttendInv /\ [Next]_vars => AttendInv'
  BY PipelineAttend, ScanAttend, StartAttend, DrainAttend, OthersAttend, WorkerAttend
     DEF Next, UiStep
<1>3. AttendInv => Attended
  BY DEF AttendInv
<1> QED BY <1>1, <1>2, <1>3, PipelineInvariant, PTL DEF Spec
=============================================================================
