--------------------------- MODULE HdcInlineProofs ---------------------------
(* Theorems about HdcInline, for any threads, targets and attempts.         *)
EXTENDS HdcInline, FiniteSetTheorems, TLAPS

USE HdcAssumption

\* Sending and ending leave a thread with values of its types.
LEMMA SendType ==
  ASSUME TypeOK, NEW w \in Threads, NEW c \in ScanCmds \cup InstallCmds,
         NEW t \in Targets, Send(w, c, t)
  PROVE  /\ pc' \in [Threads -> Pcs]
         /\ cmd' \in [Threads -> ScanCmds \cup InstallCmds]
         /\ target' \in [Threads -> Targets]
         /\ attempt' \in [Threads -> 0..(Attempts - 1)]
<1>1. 0 \in 0..(Attempts - 1) /\ "call" \in Pcs
  BY DEF Pcs
<1> QED BY <1>1 DEF TypeOK, Send

\* Ending leaves the command, the target and what a scan gathers alone.
LEMMA EndType ==
  ASSUME TypeOK, NEW w \in Threads, NEW how \in Pcs, End(w, how)
  PROVE  /\ pc' \in [Threads -> Pcs]
         /\ UNCHANGED <<cmd, target, attempt, scanned>>
BY DEF TypeOK, End

\* The part of the types that a caller's step can change.
LocalsOK ==
  /\ pc \in [Threads -> Pcs]
  /\ cmd \in [Threads -> ScanCmds \cup InstallCmds]
  /\ target \in [Threads -> Targets]
  /\ attempt \in [Threads -> 0..(Attempts - 1)]
  /\ listed \in [Threads -> SUBSET Targets]
  /\ todo \in [Threads -> SUBSET Targets]
  /\ devices \in [Threads -> SUBSET Targets]
  /\ broken \in [Threads -> BOOLEAN]

\* Ending keeps the types of what the threads hold.
LEMMA EndLocals ==
  ASSUME TypeOK, NEW w \in Threads, NEW how \in Pcs, End(w, how)
  PROVE  LocalsOK'
BY EndType DEF TypeOK, LocalsOK, scanned

\* Sending a command keeps the types of what the threads hold.
LEMMA SendLocals ==
  ASSUME TypeOK, NEW w \in Threads, NEW c \in ScanCmds \cup InstallCmds,
         NEW t \in Targets, Send(w, c, t), UNCHANGED scanned
  PROVE  LocalsOK'
BY SendType DEF TypeOK, LocalsOK, scanned

\* Going on to the next probe keeps the types of what the threads hold.
LEMMA ProbedLocals ==
  ASSUME TypeOK, NEW w \in Threads, NEW good \in BOOLEAN, Probed(w, good)
  PROVE  LocalsOK'
<1>1. /\ listed' \in [Threads -> SUBSET Targets]
      /\ todo' \in [Threads -> SUBSET Targets]
      /\ devices' \in [Threads -> SUBSET Targets]
      /\ broken' \in [Threads -> BOOLEAN]
  BY DEF TypeOK, Probed
<1>2. CASE \E t \in todo[w] \ {target[w]} : Send(w, "udid", t)
  <2>1. PICK t \in Targets : Send(w, "udid", t)
    BY <1>2 DEF TypeOK
  <2>2. "udid" \in ScanCmds \cup InstallCmds
    BY DEF ScanCmds
  <2> QED BY <1>1, <2>1, <2>2, SendType DEF LocalsOK
<1>3. CASE /\ pc' = [pc EXCEPT ![w] = Scanned(w, devices'[w], broken'[w])]
           /\ UNCHANGED <<cmd, target, attempt>>
  <2>1. Scanned(w, devices'[w], broken'[w]) \in Pcs
    BY DEF Scanned, Pcs, Resting
  <2> QED BY <1>1, <1>3, <2>1 DEF TypeOK, LocalsOK
<1> QED BY <1>2, <1>3 DEF Probed

\* A command that fails keeps the types of what the threads hold.
LEMMA FailedLocals ==
  ASSUME TypeOK, NEW w \in Threads, Failed(w)
  PROVE  LocalsOK'
<1>1. "failed" \in Pcs
  BY DEF Pcs, Resting
<1> QED BY <1>1, ProbedLocals, EndLocals DEF Failed

\* A retry keeps the types of what the threads hold, and the count within Attempts.
LEMMA RetryLocals ==
  ASSUME TypeOK, NEW w \in Threads, Retry(w)
  PROVE  LocalsOK'
<1>1. CASE /\ attempt[w] + 1 < Attempts
           /\ attempt' = [attempt EXCEPT ![w] = @ + 1]
           /\ pc' = [pc EXCEPT ![w] = "call"]
           /\ UNCHANGED <<cmd, target, scanned>>
  <2>1. attempt[w] + 1 \in 0..(Attempts - 1) /\ "call" \in Pcs
    BY <1>1 DEF TypeOK, Pcs
  <2> QED BY <1>1, <2>1 DEF TypeOK, LocalsOK, scanned
<1>2. CASE Failed(w)
  BY <1>2, FailedLocals
<1> QED BY <1>1, <1>2 DEF Retry

\* Reading an answer keeps the types of what the threads hold.
LEMMA AnsweredLocals ==
  ASSUME TypeOK, NEW w \in Threads, Answered(w)
  PROVE  LocalsOK'
<1>0. /\ "failed" \in Pcs /\ "done" \in Pcs
      /\ {"udid", "model", "launch", "pid"} \subseteq ScanCmds \cup InstallCmds
      /\ target[w] \in Targets
  BY DEF Pcs, Resting, ScanCmds, InstallCmds, TypeOK
<1>1. CASE Targeted(w)
  <2>1. CASE End(w, "failed")
    BY <1>0, <2>1, EndLocals
  <2>2. CASE ~End(w, "failed")
    <3>0. /\ todo' = [todo EXCEPT ![w] = listed[w]]
          /\ UNCHANGED <<listed, devices, broken>>
          /\ \/ \E t \in listed[w] : Send(w, "udid", t)
             \/ pc' = [pc EXCEPT ![w] = "done"] /\ UNCHANGED <<cmd, target, attempt>>
      BY <1>1, <2>2 DEF Targeted
    <3>1. /\ listed' \in [Threads -> SUBSET Targets]
          /\ todo' \in [Threads -> SUBSET Targets]
          /\ devices' \in [Threads -> SUBSET Targets]
          /\ broken' \in [Threads -> BOOLEAN]
      BY <3>0 DEF TypeOK
    <3>2. CASE \E t \in listed[w] : Send(w, "udid", t)
      <4>1. PICK t \in Targets : Send(w, "udid", t)
        BY <3>2 DEF TypeOK
      <4> QED BY <1>0, <3>1, <4>1, SendType DEF LocalsOK
    <3>3. CASE pc' = [pc EXCEPT ![w] = "done"] /\ UNCHANGED <<cmd, target, attempt>>
      BY <1>0, <3>1, <3>3 DEF TypeOK, LocalsOK
    <3> QED BY <3>0, <3>2, <3>3
  <2> QED BY <2>1, <2>2
<1>2. CASE ProbedUdid(w)
  BY <1>0, <1>2, SendLocals, ProbedLocals DEF ProbedUdid
<1>3. CASE ProbedModel(w)
  BY <1>3, ProbedLocals DEF ProbedModel
<1>4. CASE InstallAnswered(w)
  BY <1>0, <1>4, SendLocals, EndLocals DEF InstallAnswered
<1>5. CASE LaunchAnswered(w)
  BY <1>0, <1>5, SendLocals, EndLocals DEF LaunchAnswered
<1>6. CASE PidAnswered(w)
  BY <1>0, <1>6, EndLocals DEF PidAnswered
<1> QED BY <1>1, <1>2, <1>3, <1>4, <1>5, <1>6 DEF Answered

\* Types are kept by every step.
LEMMA TypeStep == TypeOK /\ [Next]_vars => TypeOK'
<1> SUFFICES ASSUME TypeOK, [Next]_vars PROVE TypeOK'
  OBVIOUS
<1> USE DEF host, scanned
<1>1. ASSUME NEW w \in Threads, StartServer(w) PROVE TypeOK'
  BY <1>1 DEF StartServer, TypeOK
<1>2. ASSUME NEW w \in Threads, NoServer(w) \/ Busy(w) PROVE TypeOK'
  <2>1. LocalsOK'
    BY <1>2, RetryLocals DEF NoServer, Busy
  <2>2. UNCHANGED <<host, attached, apps, out>>
    BY <1>2 DEF NoServer, Busy
  <2> QED BY <2>1, <2>2 DEF TypeOK, LocalsOK
<1>3. ASSUME NEW w \in Threads, BeginCapture(w) PROVE TypeOK'
  <2>1. "run" \in Pcs
    BY DEF Pcs
  <2> QED BY <1>3, <2>1 DEF BeginCapture, TypeOK
<1>4. ASSUME NEW w \in Threads, Run(w) PROVE TypeOK'
  <2>1. PICK o \in Outputs, made \in BOOLEAN, seen \in SUBSET attached :
          /\ out' = [out EXCEPT ![w] = o]
          /\ buffer' = IF o = "none" THEN buffer ELSE buffer \cup {w}
          /\ apps' = IF cmd[w] = "install" /\ made
                     THEN [apps EXCEPT ![target[w]] = @ \cup {w}] ELSE apps
          /\ listed' = IF cmd[w] = "list" THEN [listed EXCEPT ![w] = seen] ELSE listed
    BY <1>4 DEF Run
  <2>2. "ran" \in Pcs /\ target[w] \in Targets /\ seen \in SUBSET Targets
    BY DEF Pcs, TypeOK
  <2>3. pc' \in [Threads -> Pcs]
    BY <1>4, <2>2 DEF Run, TypeOK
  <2>4. out' \in [Threads -> Outputs] /\ buffer' \in SUBSET Threads
    BY <2>1 DEF TypeOK
  <2>5. apps' \in [Targets -> SUBSET Threads]
    BY <2>1, <2>2 DEF TypeOK
  <2>6. listed' \in [Threads -> SUBSET Targets]
    BY <2>1, <2>2 DEF TypeOK
  <2> QED BY <1>4, <2>3, <2>4, <2>5, <2>6 DEF Run, TypeOK
<1>5. ASSUME NEW w \in Threads, Finish(w) PROVE TypeOK'
  <2>1. LocalsOK'
    BY <1>5, RetryLocals, AnsweredLocals DEF Finish
  <2> QED BY <1>5, <2>1 DEF Finish, TypeOK, LocalsOK
<1>6. ASSUME NEW w \in Threads, NEW c \in {"list", "install"}, NEW t \in Targets,
             Start(w, c, t)
      PROVE  TypeOK'
  <2>1. c \in ScanCmds \cup InstallCmds /\ "none" \in Outputs
    BY DEF ScanCmds, InstallCmds, Outputs
  <2>2. /\ pc' \in [Threads -> Pcs]
        /\ cmd' \in [Threads -> ScanCmds \cup InstallCmds]
        /\ target' \in [Threads -> Targets]
        /\ attempt' \in [Threads -> 0..(Attempts - 1)]
    BY <1>6, <2>1, SendType DEF Start
  <2> QED BY <1>6, <2>1, <2>2 DEF Start, TypeOK
<1>7. CASE Plug
  BY <1>7 DEF Plug, TypeOK
<1>8. CASE UNCHANGED vars
  BY <1>8 DEF vars, TypeOK
<1>9. Scanners \subseteq Threads /\ Installers \subseteq Threads
      /\ \A w \in Threads : target[w] \in Targets
  BY DEF Threads, TypeOK
<1> QED BY <1>1, <1>2, <1>3, <1>4, <1>5, <1>6, <1>7, <1>8, <1>9 DEF Next, Work, ThreadStep

\* The threads begin with values of their types.
LEMMA TypeInit == Init => TypeOK
<1>1. 0 \in 0..(Attempts - 1) /\ (CHOOSE t \in Targets : TRUE) \in Targets
  OBVIOUS
<1> QED BY <1>1 DEF Init, TypeOK, Pcs, Resting, ScanCmds, Outputs

(* Types, and a command is sent Attempts times at most. *)
THEOREM TypeCorrect == Spec => []TypeOK
<1> QED BY TypeInit, TypeStep, PTL DEF Spec
-----------------------------------------------------------------------------
\* What a caller's step may do: it is about its own thread, which then waits for
\* the host again or rests; and it comes to launch and pid only after its
\* install was answered with success.
OwnStep(w) ==
  /\ \A u \in Threads \ {w} :
        pc'[u] = pc[u] /\ cmd'[u] = cmd[u] /\ target'[u] = target[u]
  /\ pc'[w] \in {"call", "done", "failed"}
  /\ \/ cmd'[w] \in ScanCmds
     \/ cmd'[w] = "install" /\ pc'[w] # "done"
     \/ /\ target'[w] = target[w]
        /\ cmd[w] \in {"launch", "pid"} \/ (cmd[w] = "install" /\ out[w] = "ok")

\* A thread that ends takes a step of its own; an install does not end done this way.
LEMMA EndOwn ==
  ASSUME TypeOK, NEW w \in Threads, NEW how \in {"done", "failed"}, End(w, how),
         cmd[w] = "install" => how = "failed"
  PROVE  OwnStep(w)
BY DEF End, OwnStep, TypeOK, InstallCmds

\* Sending a command is a step of its own.
LEMMA SendOwn ==
  ASSUME TypeOK, NEW w \in Threads, NEW c, NEW t \in Targets, Send(w, c, t),
         \/ c \in ScanCmds
         \/ /\ t = target[w]
            /\ cmd[w] \in {"launch", "pid"} \/ (cmd[w] = "install" /\ out[w] = "ok")
  PROVE  OwnStep(w)
BY DEF Send, OwnStep, TypeOK

\* Going on to the next target of a scan is a step of its own.
LEMMA ProbedOwn ==
  ASSUME TypeOK, NEW w \in Threads, cmd[w] \in ScanCmds,
         NEW good \in BOOLEAN, Probed(w, good)
  PROVE  OwnStep(w)
<1>1. CASE \E t \in todo[w] \ {target[w]} : Send(w, "udid", t)
  <2>1. PICK t \in Targets : Send(w, "udid", t)
    BY <1>1 DEF TypeOK
  <2>2. "udid" \in ScanCmds
    BY DEF ScanCmds
  <2> QED BY <2>1, <2>2, SendOwn
<1>2. CASE /\ pc' = [pc EXCEPT ![w] = Scanned(w, devices'[w], broken'[w])]
           /\ UNCHANGED <<cmd, target, attempt>>
  <2>1. Scanned(w, devices'[w], broken'[w]) \in {"done", "failed"}
    BY DEF Scanned
  <2> QED BY <1>2, <2>1 DEF OwnStep, TypeOK
<1> QED BY <1>1, <1>2 DEF Probed

\* A retry, or giving up, is a step of its own.
LEMMA RetryOwn ==
  ASSUME TypeOK, NEW w \in Threads, Retry(w)
  PROVE  OwnStep(w)
<1>0. cmd[w] \in ScanCmds \/ cmd[w] = "install" \/ cmd[w] \in {"launch", "pid"}
  BY DEF TypeOK, InstallCmds
<1>1. CASE /\ pc' = [pc EXCEPT ![w] = "call"]
           /\ UNCHANGED <<cmd, target, scanned>>
  BY <1>0, <1>1 DEF OwnStep, TypeOK
<1>2. CASE Failed(w)
  <2>1. CASE cmd[w] \in {"udid", "model"}
    <3>1. cmd[w] \in ScanCmds
      BY <2>1 DEF ScanCmds
    <3> QED BY <1>2, <2>1, <3>1, ProbedOwn DEF Failed
  <2>2. CASE cmd[w] \notin {"udid", "model"}
    BY <1>2, <2>2, EndOwn DEF Failed
  <2> QED BY <2>1, <2>2
<1> QED BY <1>1, <1>2 DEF Retry

\* Reading an answer is a step of its own.
LEMMA AnsweredOwn ==
  ASSUME TypeOK, NEW w \in Threads, Answered(w)
  PROVE  OwnStep(w)
<1>0. "udid" \in ScanCmds /\ "model" \in ScanCmds /\ "list" \in ScanCmds
      /\ target[w] \in Targets
  BY DEF ScanCmds, TypeOK
<1>1. CASE Targeted(w)
  <2>1. CASE End(w, "failed")
    BY <2>1, EndOwn
  <2>2. CASE \E t \in listed[w] : Send(w, "udid", t)
    <3>1. PICK t \in Targets : Send(w, "udid", t)
      BY <2>2 DEF TypeOK
    <3> QED BY <1>0, <3>1, SendOwn
  <2>3. CASE pc' = [pc EXCEPT ![w] = "done"] /\ UNCHANGED <<cmd, target, attempt>>
    BY <1>0, <1>1, <2>3 DEF OwnStep, Targeted, TypeOK
  <2> QED BY <1>1, <2>1, <2>2, <2>3 DEF Targeted
<1>2. CASE ProbedUdid(w)
  BY <1>0, <1>2, SendOwn, ProbedOwn DEF ProbedUdid
<1>3. CASE ProbedModel(w)
  BY <1>0, <1>3, ProbedOwn DEF ProbedModel
<1>4. CASE InstallAnswered(w)
  BY <1>0, <1>4, SendOwn, EndOwn DEF InstallAnswered
<1>5. CASE LaunchAnswered(w)
  BY <1>0, <1>5, SendOwn, EndOwn DEF LaunchAnswered
<1>6. CASE PidAnswered(w)
  BY <1>0, <1>6, EndOwn DEF PidAnswered
<1> QED BY <1>1, <1>2, <1>3, <1>4, <1>5, <1>6 DEF Answered

\* The inductive invariant: types, the owner of the capture, what was installed.
HdcInv == TypeOK /\ CaptureInv /\ InstalledInv

\* Every step keeps CaptureInv.
LEMMA CaptureStep == HdcInv /\ [Next]_vars => CaptureInv'
<1> SUFFICES ASSUME HdcInv, [Next]_vars PROVE CaptureInv'
  OBVIOUS
<1> USE DEF host, HdcInv
<1>1. ASSUME NEW w \in Threads, StartServer(w) PROVE CaptureInv'
  BY <1>1 DEF StartServer, CaptureInv, OutputIsOwn
<1>2. ASSUME NEW w \in Threads, NoServer(w) \/ Busy(w) PROVE CaptureInv'
  <2>1. OwnStep(w) /\ UNCHANGED <<capture, buffer, out>>
    BY <1>2, RetryOwn DEF NoServer, Busy
  <2> QED BY <2>1 DEF OwnStep, CaptureInv, OutputIsOwn
<1>3. ASSUME NEW w \in Threads, BeginCapture(w) PROVE CaptureInv'
  BY <1>3 DEF BeginCapture, CaptureInv, OutputIsOwn, TypeOK
<1>4. ASSUME NEW w \in Threads, Run(w) PROVE CaptureInv'
  <2>1. PICK o \in Outputs :
          /\ out' = [out EXCEPT ![w] = o]
          /\ buffer' = IF o = "none" THEN buffer ELSE buffer \cup {w}
    BY <1>4 DEF Run
  <2>2. /\ pc[w] = "run" /\ capture = w /\ buffer = {} /\ capture' = capture
        /\ pc' = [pc EXCEPT ![w] = "ran"]
    BY <1>4 DEF Run, CaptureInv
  <2>3. \A u \in Threads \ {w} : pc'[u] \notin {"run", "ran"}
    BY <2>2 DEF CaptureInv, TypeOK
  <2>4. pc'[w] = "ran" /\ buffer' = IF out'[w] = "none" THEN {} ELSE {w}
    BY <2>1, <2>2 DEF TypeOK
  <2> QED BY <2>2, <2>3, <2>4 DEF CaptureInv, OutputIsOwn
<1>5. ASSUME NEW w \in Threads, Finish(w) PROVE CaptureInv'
  <2>1. OwnStep(w) /\ pc[w] = "ran"
    BY <1>5, RetryOwn, AnsweredOwn DEF Finish
  <2>2. \A u \in Threads : pc'[u] \notin {"run", "ran"}
    BY <2>1 DEF CaptureInv, OwnStep
  <2> QED BY <2>2 DEF CaptureInv, OutputIsOwn
<1>6. ASSUME NEW w \in Threads, NEW c \in {"list", "install"}, NEW t \in Targets,
             Start(w, c, t)
      PROVE  CaptureInv'
  <2>1. /\ UNCHANGED <<capture, buffer>> /\ pc' = [pc EXCEPT ![w] = "call"]
        /\ out' = [out EXCEPT ![w] = "none"]
    BY <1>6 DEF Start, Send
  <2> QED BY <2>1 DEF CaptureInv, OutputIsOwn, TypeOK
<1>7. CASE Plug
  BY <1>7 DEF Plug, CaptureInv, OutputIsOwn
<1>8. CASE UNCHANGED vars
  BY <1>8 DEF vars, CaptureInv, OutputIsOwn
<1>9. Scanners \subseteq Threads /\ Installers \subseteq Threads
      /\ \A w \in Threads : target[w] \in Targets
  BY DEF Threads, TypeOK
<1> QED BY <1>1, <1>2, <1>3, <1>4, <1>5, <1>6, <1>7, <1>8, <1>9 DEF Next, Work, ThreadStep

\* Every step keeps InstalledInv.
LEMMA InstalledStep == HdcInv /\ [Next]_vars => InstalledInv'
<1> SUFFICES ASSUME HdcInv, [Next]_vars PROVE InstalledInv'
  OBVIOUS
<1> USE DEF host, HdcInv
<1>1. ASSUME NEW w \in Threads, StartServer(w) PROVE InstalledInv'
  BY <1>1 DEF StartServer, InstalledInv
<1>0. ASSUME NEW w \in Threads, OwnStep(w), UNCHANGED <<apps, out>>,
             pc[w] = "call" \/ pc[w] = "ran",
             pc[w] = "call" => cmd[w] # "install" \/ (cmd'[w] = "install" /\ pc'[w] # "done")
      PROVE  InstalledInv'
  <2> SUFFICES ASSUME NEW u \in Threads
      PROVE  /\ pc'[u] \in {"call", "run", "ran"} /\ cmd'[u] \in {"launch", "pid"}
                  => u \in apps[target'[u]]
             /\ pc'[u] = "ran" /\ cmd'[u] = "install" /\ out[u] = "ok"
                  => u \in apps[target'[u]]
             /\ pc'[u] = "done" /\ cmd'[u] \in InstallCmds => u \in apps[target'[u]]
    BY <1>0 DEF InstalledInv
  <2>1. CASE u # w
    BY <1>0, <2>1 DEF OwnStep, InstalledInv
  <2>2. CASE u = w
    <3>1. CASE cmd'[w] \in ScanCmds
      BY <1>0, <2>2, <3>1 DEF OwnStep, ScanCmds, InstallCmds
    <3>2. CASE cmd'[w] = "install" /\ pc'[w] # "done"
      BY <1>0, <2>2, <3>2 DEF OwnStep
    <3>3. CASE /\ target'[w] = target[w]
               /\ cmd[w] \in {"launch", "pid"}
      BY <1>0, <2>2, <3>3 DEF InstalledInv
    <3>4. CASE /\ target'[w] = target[w]
               /\ cmd[w] = "install" /\ out[w] = "ok"
               /\ ~(cmd'[w] = "install" /\ pc'[w] # "done")
      BY <1>0, <2>2, <3>4 DEF InstalledInv, OwnStep
    <3> QED BY <1>0, <3>1, <3>2, <3>3, <3>4 DEF OwnStep
  <2> QED BY <2>1, <2>2
<1>2. ASSUME NEW w \in Threads, NoServer(w) \/ Busy(w) PROVE InstalledInv'
  <2>1. Retry(w) /\ pc[w] = "call" /\ UNCHANGED <<apps, out>>
    BY <1>2 DEF NoServer, Busy
  <2>2. cmd[w] # "install" \/ (cmd'[w] = "install" /\ pc'[w] # "done")
    BY <2>1 DEF Retry, Failed, End, TypeOK
  <2> QED BY <1>0, <2>1, <2>2, RetryOwn
<1>3. ASSUME NEW w \in Threads, BeginCapture(w) PROVE InstalledInv'
  BY <1>3 DEF BeginCapture, InstalledInv, TypeOK
<1>4. ASSUME NEW w \in Threads, Run(w) PROVE InstalledInv'
  <2>1. PICK o \in Outputs, made \in BOOLEAN :
          /\ cmd[w] = "install" => (o = "ok" => made)
          /\ out' = [out EXCEPT ![w] = o]
          /\ apps' = IF cmd[w] = "install" /\ made
                     THEN [apps EXCEPT ![target[w]] = @ \cup {w}] ELSE apps
    BY <1>4 DEF Run
  <2>2. /\ pc[w] = "run" /\ pc' = [pc EXCEPT ![w] = "ran"]
        /\ UNCHANGED <<cmd, target>>
    BY <1>4 DEF Run
  <2>3. \A u \in Threads, t \in Targets : u \in apps[t] => u \in apps'[t]
    BY <2>1 DEF TypeOK
  <2>4. \A u \in Threads \ {w} : pc'[u] = pc[u] /\ out'[u] = out[u]
    BY <2>1, <2>2 DEF TypeOK
  <2>5. /\ pc'[w] = "ran"
        /\ cmd[w] = "install" /\ out'[w] = "ok" => w \in apps'[target[w]]
    BY <2>1, <2>2 DEF TypeOK
  <2>6. \A u \in Threads : target[u] \in Targets
    BY DEF TypeOK
  <2> QED BY <2>2, <2>3, <2>4, <2>5, <2>6 DEF InstalledInv
<1>5. ASSUME NEW w \in Threads, Finish(w) PROVE InstalledInv'
  <2>1. OwnStep(w) /\ pc[w] = "ran" /\ UNCHANGED <<apps, out>>
    BY <1>5, RetryOwn, AnsweredOwn DEF Finish
  <2> QED BY <1>0, <2>1
<1>6. ASSUME NEW w \in Threads, NEW c \in {"list", "install"}, NEW t \in Targets,
             Start(w, c, t)
      PROVE  InstalledInv'
  <2>1. /\ pc' = [pc EXCEPT ![w] = "call"] /\ cmd' = [cmd EXCEPT ![w] = c]
        /\ target' = [target EXCEPT ![w] = t] /\ out' = [out EXCEPT ![w] = "none"]
        /\ apps' = [u \in Targets |-> apps[u] \ {w}]
    BY <1>6 DEF Start, Send
  <2>2. pc'[w] = "call" /\ cmd'[w] \in {"list", "install"}
    BY <2>1 DEF TypeOK
  <2>3. \A u \in Threads \ {w} : /\ pc'[u] = pc[u] /\ cmd'[u] = cmd[u]
                                 /\ target'[u] = target[u] /\ out'[u] = out[u]
    BY <2>1 DEF TypeOK
  <2>4. \A u \in Threads \ {w}, s \in Targets : u \in apps[s] => u \in apps'[s]
    BY <2>1
  <2>5. \A u \in Threads : target[u] \in Targets
    BY DEF TypeOK
  <2> QED BY <2>2, <2>3, <2>4, <2>5 DEF InstalledInv
<1>7. CASE Plug
  BY <1>7 DEF Plug, InstalledInv
<1>8. CASE UNCHANGED vars
  BY <1>8 DEF vars, InstalledInv
<1>9. Scanners \subseteq Threads /\ Installers \subseteq Threads
      /\ \A w \in Threads : target[w] \in Targets
  BY DEF Threads, TypeOK
<1> QED BY <1>1, <1>2, <1>3, <1>4, <1>5, <1>6, <1>7, <1>8, <1>9 DEF Next, Work, ThreadStep

\* Both hold in every reachable state.
LEMMA HdcInvariant == Spec => []HdcInv
<1>1. Init => HdcInv
  BY TypeInit DEF Init, HdcInv, CaptureInv, OutputIsOwn, InstalledInv
<1>2. HdcInv /\ [Next]_vars => HdcInv'
  BY TypeStep, CaptureStep, InstalledStep DEF HdcInv
<1> QED BY <1>1, <1>2, PTL DEF Spec

(* A thread takes the whole output of its own command and nothing else, with
   any number of threads. *)
THEOREM AnswersAreOwn == Spec => []OutputIsOwn
<1>1. HdcInv => OutputIsOwn
  BY DEF HdcInv, CaptureInv
<1> QED BY <1>1, HdcInvariant, PTL

\* The capture is held by a thread whose command is at the host, and by no other.
CaptureHeld ==
  /\ capture # NoThread => pc[capture] \in {"run", "ran"}
  /\ \A w \in Threads : pc[w] \in {"run", "ran"} => capture = w

\* Every step keeps CaptureHeld.
LEMMA HeldStep == HdcInv /\ HdcInv' /\ CaptureHeld /\ [Next]_vars => CaptureHeld'
<1> SUFFICES ASSUME HdcInv, HdcInv', CaptureHeld, [Next]_vars, capture' # NoThread
             PROVE  pc'[capture'] \in {"run", "ran"}
  BY DEF CaptureHeld, HdcInv, CaptureInv
<1>0. capture' \in Threads /\ TypeOK
  BY DEF HdcInv, TypeOK
<1> USE DEF host, CaptureHeld
<1>1. ASSUME NEW w \in Threads, StartServer(w) PROVE pc'[capture'] \in {"run", "ran"}
  BY <1>1 DEF StartServer
<1>2. ASSUME NEW w \in Threads, NoServer(w) \/ Busy(w)
      PROVE  pc'[capture'] \in {"run", "ran"}
  <2>1. OwnStep(w) /\ pc[w] = "call" /\ capture' = capture
    BY <1>0, <1>2, RetryOwn DEF NoServer, Busy
  <2>2. capture' # w
    BY <2>1
  <2> QED BY <1>0, <2>1, <2>2 DEF OwnStep
<1>3. ASSUME NEW w \in Threads, BeginCapture(w) PROVE pc'[capture'] \in {"run", "ran"}
  BY <1>0, <1>3 DEF BeginCapture, TypeOK
<1>4. ASSUME NEW w \in Threads, Run(w) PROVE pc'[capture'] \in {"run", "ran"}
  BY <1>0, <1>4 DEF Run, TypeOK
<1>5. ASSUME NEW w \in Threads, Finish(w) PROVE FALSE
  BY <1>5 DEF Finish
<1>6. ASSUME NEW w \in Threads, NEW c, NEW t, Start(w, c, t)
      PROVE  pc'[capture'] \in {"run", "ran"}
  <2>1. /\ pc[w] \in Resting /\ capture' = capture
        /\ \A u \in Threads \ {w} : pc'[u] = pc[u]
    BY <1>0, <1>6 DEF Start, Send, TypeOK
  <2>2. capture' # w
    BY <2>1 DEF Resting
  <2> QED BY <1>0, <2>1, <2>2
<1>7. CASE Plug \/ UNCHANGED vars
  BY <1>7 DEF Plug, vars
<1>8. Scanners \subseteq Threads /\ Installers \subseteq Threads
  BY DEF Threads
<1> QED BY <1>1, <1>2, <1>3, <1>4, <1>5, <1>6, <1>7, <1>8 DEF Next, Work, ThreadStep

(* However a command ends, the capture has been given back: it is held exactly while *)
(* the command of one thread is at the host, and never by a thread that waits to     *)
(* try again, that has failed or that is done.  This is what HdcUsable rests on,     *)
(* together with its premise that commands return (run_command of                    *)
(* vendor/hdc/src/host/lib.rs).                                                      *)
THEOREM CaptureGivenBack == Spec => []CaptureHeld
<1>1. Init => CaptureHeld
  BY DEF Init, CaptureHeld
<1> QED BY <1>1, HeldStep, HdcInvariant, PTL DEF Spec

(* An install thread that succeeds has installed its HAP on its target. *)
THEOREM InstalledWhenDone == Spec => []InstallHonest
<1>1. HdcInv => InstallHonest
  BY DEF HdcInv, InstalledInv, InstallHonest
<1> QED BY <1>1, HdcInvariant, PTL
-----------------------------------------------------------------------------
\* What a step of thread w may do to ScanInv: it is about w alone, and w is left
\* with what ScanInv says.
ScanStep(w) ==
  /\ \A u \in Threads \ {w} :
       /\ pc'[u] = pc[u] /\ cmd'[u] = cmd[u] /\ target'[u] = target[u]
       /\ listed'[u] = listed[u] /\ todo'[u] = todo[u] /\ devices'[u] = devices[u]
  /\ pc'[w] \in {"call", "run", "ran"} /\ cmd'[w] = "list" => devices'[w] = {}
  /\ pc'[w] \in {"call", "run", "ran"} /\ cmd'[w] \in {"udid", "model"} =>
       /\ target'[w] \in listed'[w]
       /\ todo'[w] \subseteq listed'[w] /\ devices'[w] \subseteq listed'[w]
  /\ pc'[w] = "done" /\ cmd'[w] \in ScanCmds =>
       /\ devices'[w] \subseteq listed'[w]
       /\ devices'[w] = {} => listed'[w] = {}

LEMMA ScanKept ==
  ASSUME ScanInv, NEW w \in Threads, ScanStep(w)
  PROVE  ScanInv'
BY DEF ScanInv, ScanStep

\* A thread that fails, or goes on with a command of an install.
LEMMA EndScan ==
  ASSUME TypeOK, NEW w \in Threads, NEW how \in {"done", "failed"}, End(w, how),
         cmd[w] \in ScanCmds => how = "failed"
  PROVE  ScanStep(w)
BY DEF End, ScanStep, TypeOK, scanned

\* Sending keeps what the scan holds.
LEMMA SendScan ==
  ASSUME TypeOK, NEW w \in Threads, NEW t \in Targets,
         NEW c \in {"udid", "model", "launch", "pid"}, Send(w, c, t), UNCHANGED scanned,
         c \in {"udid", "model"} => /\ t \in listed[w] /\ todo[w] \subseteq listed[w]
                                    /\ devices[w] \subseteq listed[w]
  PROVE  ScanStep(w)
BY DEF Send, ScanStep, TypeOK, scanned

\* A probed target is a listed one; a scan that ends with none has failed.
LEMMA ProbedScan ==
  ASSUME TypeOK, ScanInv, NEW w \in Threads, cmd[w] \in {"udid", "model"},
         pc[w] \in {"call", "run", "ran"}, NEW good \in BOOLEAN, Probed(w, good)
  PROVE  ScanStep(w)
<1>1. /\ target[w] \in listed[w] /\ todo[w] \subseteq listed[w]
      /\ devices[w] \subseteq listed[w]
  BY DEF ScanInv
<1>2. /\ todo' = [todo EXCEPT ![w] = todo[w] \ {target[w]}]
      /\ devices' = [devices EXCEPT ![w] =
                       IF good THEN devices[w] \cup {target[w]} ELSE devices[w]]
      /\ broken' = [broken EXCEPT ![w] = broken[w] \/ ~good]
      /\ UNCHANGED listed
  BY DEF Probed, TypeOK
<1>3. /\ todo'[w] = todo[w] \ {target[w]} /\ listed'[w] = listed[w]
      /\ devices'[w] = (IF good THEN devices[w] \cup {target[w]} ELSE devices[w])
      /\ broken'[w] = (broken[w] \/ ~good)
      /\ \A u \in Threads \ {w} :
           todo'[u] = todo[u] /\ devices'[u] = devices[u] /\ listed'[u] = listed[u]
  BY <1>2 DEF TypeOK
<1>4. CASE \E t \in todo[w] \ {target[w]} : Send(w, "udid", t)
  <2>1. PICK t \in todo[w] : Send(w, "udid", t)
    BY <1>4
  <2>2. /\ pc'[w] = "call" /\ cmd'[w] = "udid" /\ target'[w] = t
        /\ \A u \in Threads \ {w} :
             pc'[u] = pc[u] /\ cmd'[u] = cmd[u] /\ target'[u] = target[u]
    BY <2>1 DEF Send, TypeOK
  <2> QED BY <1>1, <1>3, <2>2 DEF ScanStep
<1>5. CASE /\ pc' = [pc EXCEPT ![w] = Scanned(w, devices'[w], broken'[w])]
           /\ UNCHANGED <<cmd, target, attempt>>
  <2>1. /\ pc'[w] = Scanned(w, devices'[w], broken'[w])
        /\ \A u \in Threads \ {w} : pc'[u] = pc[u]
    BY <1>5 DEF TypeOK
  <2>2. devices'[w] = {} => pc'[w] = "failed"
    BY <1>3, <2>1 DEF Scanned
  <2>3. pc'[w] \in {"done", "failed"}
    BY <2>1 DEF Scanned
  <2> QED BY <1>1, <1>3, <1>5, <2>1, <2>2, <2>3 DEF ScanStep
<1> QED BY <1>4, <1>5 DEF Probed

LEMMA RetryScan ==
  ASSUME TypeOK, ScanInv, NEW w \in Threads, pc[w] \in {"call", "ran"}, Retry(w)
  PROVE  ScanStep(w)
<1>1. CASE /\ pc' = [pc EXCEPT ![w] = "call"]
           /\ UNCHANGED <<cmd, target, scanned>>
  BY <1>1 DEF ScanStep, ScanInv, TypeOK, scanned
<1>2. CASE Failed(w)
  <2>1. CASE cmd[w] \in {"udid", "model"}
    BY <1>2, <2>1, ProbedScan DEF Failed
  <2>2. CASE cmd[w] \notin {"udid", "model"}
    BY <1>2, <2>2, EndScan DEF Failed
  <2> QED BY <2>1, <2>2
<1> QED BY <1>1, <1>2 DEF Retry

LEMMA AnsweredScan ==
  ASSUME TypeOK, ScanInv, NEW w \in Threads, pc[w] = "ran", Answered(w)
  PROVE  ScanStep(w)
<1>0. target[w] \in Targets /\ listed[w] \in SUBSET Targets
  BY DEF TypeOK
<1>1. CASE Targeted(w)
  <2>0. cmd[w] = "list" /\ devices[w] = {}
    BY <1>1 DEF Targeted, ScanInv
  <2>1. CASE End(w, "failed")
    BY <2>1, EndScan
  <2>2. CASE ~End(w, "failed")
    <3>1. /\ todo' = [todo EXCEPT ![w] = listed[w]]
          /\ UNCHANGED <<listed, devices, broken>>
          /\ \/ \E t \in listed[w] : Send(w, "udid", t)
             \/ /\ listed[w] = {}
                /\ pc' = [pc EXCEPT ![w] = "done"]
                /\ UNCHANGED <<cmd, target, attempt>>
      BY <1>1, <2>2 DEF Targeted
    <3>2. todo'[w] = listed[w] /\ \A u \in Threads \ {w} : todo'[u] = todo[u]
      BY <3>1 DEF TypeOK
    <3>3. CASE \E t \in listed[w] : Send(w, "udid", t)
      <4>1. PICK t \in listed[w] : Send(w, "udid", t)
        BY <3>3
      <4>2. /\ pc'[w] = "call" /\ cmd'[w] = "udid" /\ target'[w] = t
            /\ \A u \in Threads \ {w} :
                 pc'[u] = pc[u] /\ cmd'[u] = cmd[u] /\ target'[u] = target[u]
        BY <4>1 DEF Send, TypeOK
      <4> QED BY <2>0, <3>1, <3>2, <4>2 DEF ScanStep
    <3>4. CASE /\ listed[w] = {}
               /\ pc' = [pc EXCEPT ![w] = "done"]
               /\ UNCHANGED <<cmd, target, attempt>>
      <4>1. pc'[w] = "done" /\ \A u \in Threads \ {w} : pc'[u] = pc[u]
        BY <3>4 DEF TypeOK
      <4> QED BY <2>0, <3>1, <3>2, <3>4, <4>1 DEF ScanStep
    <3> QED BY <3>1, <3>3, <3>4
  <2> QED BY <2>1, <2>2
<1>2. CASE ProbedUdid(w)
  <2>1. cmd[w] = "udid"
    BY <1>2 DEF ProbedUdid
  <2>2. /\ target[w] \in listed[w] /\ todo[w] \subseteq listed[w]
        /\ devices[w] \subseteq listed[w]
    BY <2>1 DEF ScanInv
  <2> QED BY <1>0, <1>2, <2>1, <2>2, SendScan, ProbedScan DEF ProbedUdid
<1>3. CASE ProbedModel(w)
  <2>1. cmd[w] = "model" /\ (out[w] # "fail") \in BOOLEAN /\ Probed(w, out[w] # "fail")
    BY <1>3 DEF ProbedModel
  <2> QED BY <2>1, ProbedScan
<1>4. CASE InstallAnswered(w)
  BY <1>0, <1>4, SendScan, EndScan DEF InstallAnswered
<1>5. CASE LaunchAnswered(w)
  BY <1>0, <1>5, SendScan, EndScan DEF LaunchAnswered
<1>6. CASE PidAnswered(w)
  <2>1. cmd[w] = "pid" /\ cmd[w] \notin ScanCmds
    BY <1>6 DEF PidAnswered, ScanCmds
  <2>2. CASE out[w] = "ok"
    BY <1>6, <2>1, <2>2, EndScan DEF PidAnswered
  <2>3. CASE out[w] # "ok"
    BY <1>6, <2>1, <2>3, EndScan DEF PidAnswered
  <2> QED BY <2>2, <2>3
<1> QED BY <1>1, <1>2, <1>3, <1>4, <1>5, <1>6 DEF Answered

\* Every step keeps ScanInv.
LEMMA ScanInvStep == TypeOK /\ ScanInv /\ [Next]_vars => ScanInv'
<1> SUFFICES ASSUME TypeOK, ScanInv, [Next]_vars PROVE ScanInv'
  OBVIOUS
<1> USE DEF host, scanned
<1>1. ASSUME NEW w \in Threads, StartServer(w) PROVE ScanInv'
  BY <1>1 DEF StartServer, ScanInv
<1>2. ASSUME NEW w \in Threads, NoServer(w) \/ Busy(w) PROVE ScanInv'
  BY <1>2, RetryScan, ScanKept DEF NoServer, Busy
<1>3. ASSUME NEW w \in Threads, BeginCapture(w) PROVE ScanInv'
  <2>1. ScanStep(w)
    BY <1>3 DEF BeginCapture, ScanInv, ScanStep, TypeOK
  <2> QED BY <2>1, ScanKept
<1>4. ASSUME NEW w \in Threads, Run(w) PROVE ScanInv'
  <2>1. PICK seen \in SUBSET attached :
          listed' = IF cmd[w] = "list" THEN [listed EXCEPT ![w] = seen] ELSE listed
    BY <1>4 DEF Run
  <2>2. /\ pc[w] = "run" /\ pc' = [pc EXCEPT ![w] = "ran"]
        /\ UNCHANGED <<cmd, target, todo, devices>>
    BY <1>4 DEF Run
  <2>3. ScanStep(w)
    BY <2>1, <2>2 DEF ScanInv, ScanStep, TypeOK
  <2> QED BY <2>3, ScanKept
<1>5. ASSUME NEW w \in Threads, Finish(w) PROVE ScanInv'
  BY <1>5, RetryScan, AnsweredScan, ScanKept DEF Finish
<1>6. ASSUME NEW w \in Threads, NEW c \in {"list", "install"}, NEW t \in Targets,
             Start(w, c, t)
      PROVE  ScanInv'
  <2>1. ScanStep(w)
    BY <1>6 DEF Start, Send, ScanStep, TypeOK
  <2> QED BY <2>1, ScanKept
<1>7. CASE Plug
  BY <1>7 DEF Plug, ScanInv
<1>8. CASE UNCHANGED vars
  BY <1>8 DEF vars, ScanInv
<1>9. Scanners \subseteq Threads /\ Installers \subseteq Threads
      /\ \A w \in Threads : target[w] \in Targets
  BY DEF Threads, TypeOK
<1> QED BY <1>1, <1>2, <1>3, <1>4, <1>5, <1>6, <1>7, <1>8, <1>9 DEF Next, Work, ThreadStep

(* A scan shows only targets it has read, and no target only if it read none:
   failing devices are never shown as no device. *)
THEOREM ScansAreHonest == Spec => []ScanHonest
<1>1. Init => ScanInv
  BY DEF Init, ScanInv
<1>2. ScanInv => ScanHonest
  BY DEF ScanInv, ScanHonest
<1> QED BY <1>1, <1>2, TypeInit, TypeStep, ScanInvStep, PTL DEF Spec
-----------------------------------------------------------------------------
(* What is left of a job: the commands it still has to send, how often it may   *)
(* send this one, and how far this attempt is.  Each own step ends the job or   *)
(* lowers the first of these that it changes.                                   *)
Running == {"call", "run", "ran"}

CommandsLeft(w) ==
  CASE cmd[w] = "list"    -> 2 * Cardinality(Targets) + 1
    [] cmd[w] = "udid"    -> 2 * Cardinality(todo[w])
    [] cmd[w] = "model"   -> 2 * Cardinality(todo[w]) - 1
    [] cmd[w] = "install" -> 3
    [] cmd[w] = "launch"  -> 2
    [] cmd[w] = "pid"     -> 1

AttemptsLeft(w) == Attempts - attempt[w]

PhaseLeft(w) ==
  CASE pc[w] = "call" -> IF server = "unset" THEN 4 ELSE 3
    [] pc[w] = "run"  -> 2
    [] pc[w] = "ran"  -> 1
    [] OTHER -> 0

Nearer(w) ==
  \/ pc'[w] \in Resting
  \/ CommandsLeft(w)' < CommandsLeft(w)
  \/ CommandsLeft(w)' = CommandsLeft(w) /\ AttemptsLeft(w)' < AttemptsLeft(w)
  \/ /\ CommandsLeft(w)' = CommandsLeft(w) /\ AttemptsLeft(w)' = AttemptsLeft(w)
     /\ PhaseLeft(w)' < PhaseLeft(w)

\* The steps of others leave a job as long as it is, or spare it the server's start.
JobCounted(w) ==
  /\ Work(w) => Nearer(w)
  /\ pc[w] \in Running =>
       /\ CommandsLeft(w) \in 1 .. 2 * Cardinality(Targets) + 3
       /\ AttemptsLeft(w) \in 1 .. Attempts
       /\ PhaseLeft(w) \in 1 .. 4
       /\ \/ Nearer(w)
          \/ UNCHANGED <<CommandsLeft(w), AttemptsLeft(w), PhaseLeft(w)>>

\* The target that is probed is one of those to probe.
TodoInv ==
  \A w \in Threads :
    pc[w] \in Running /\ cmd[w] \in {"udid", "model"} => target[w] \in todo[w]

\* The command that follows another one.
NextCommand(w) ==
  \/ /\ cmd[w] = "list" /\ cmd'[w] = "udid" /\ target'[w] \in todo'[w]
  \/ /\ cmd[w] = "udid" /\ cmd'[w] = "model"
     /\ target'[w] = target[w] /\ todo'[w] = todo[w]
  \/ /\ cmd[w] \in {"udid", "model"} /\ cmd'[w] = "udid"
     /\ todo'[w] = todo[w] \ {target[w]} /\ target'[w] \in todo'[w]
  \/ cmd[w] = "install" /\ cmd'[w] = "launch"
  \/ cmd[w] = "launch" /\ cmd'[w] = "pid"

\* What a step of thread w may do to jobs.
OthersKeep(w) ==
  \A u \in Threads \ {w} :
    /\ pc'[u] = pc[u] /\ cmd'[u] = cmd[u] /\ target'[u] = target[u]
    /\ attempt'[u] = attempt[u] /\ todo'[u] = todo[u]

SameCommand(w) == /\ cmd'[w] = cmd[w] /\ target'[w] = target[w] /\ todo'[w] = todo[w]

JobStep(w) ==
  /\ OthersKeep(w)
  /\ \/ pc'[w] \in Resting
     \/ pc'[w] = "call" /\ NextCommand(w)
     \/ pc'[w] = "call" /\ SameCommand(w) /\ attempt'[w] = attempt[w] + 1
     \/ /\ SameCommand(w) /\ attempt'[w] = attempt[w]
        /\ \/ pc[w] = "call" /\ pc'[w] = "run"
           \/ pc[w] = "run" /\ pc'[w] = "ran"
           \/ pc[w] = "call" /\ pc'[w] = "call" /\ server = "unset" /\ server' # "unset"

LEMMA EndJob ==
  ASSUME TypeOK, NEW w \in Threads, NEW how \in {"done", "failed"}, End(w, how)
  PROVE  JobStep(w)
BY DEF End, JobStep, OthersKeep, TypeOK, scanned, Resting

LEMMA SendJob ==
  ASSUME TypeOK, NEW w \in Threads, NEW c, NEW t, Send(w, c, t)
  PROVE  /\ pc'[w] = "call" /\ cmd'[w] = c /\ target'[w] = t
         /\ \A u \in Threads \ {w} : /\ pc'[u] = pc[u] /\ cmd'[u] = cmd[u]
                                     /\ target'[u] = target[u] /\ attempt'[u] = attempt[u]
BY DEF Send, TypeOK

LEMMA ProbedJob ==
  ASSUME TypeOK, NEW w \in Threads, cmd[w] \in {"udid", "model"},
         NEW good \in BOOLEAN, Probed(w, good)
  PROVE  JobStep(w)
<1> DEFINE others == todo[w] \ {target[w]}
<1>1. /\ todo'[w] = others /\ \A u \in Threads \ {w} : todo'[u] = todo[u]
  BY DEF Probed, TypeOK
<1>2. CASE \E t \in others : Send(w, "udid", t)
  <2>1. PICK t \in others : Send(w, "udid", t)
    BY <1>2
  <2> HIDE DEF others
  <2>2. pc'[w] = "call" /\ cmd'[w] = "udid" /\ target'[w] \in todo'[w] /\ OthersKeep(w)
    BY <1>1, <2>1, SendJob DEF OthersKeep
  <2> QED BY <1>1, <2>2 DEF JobStep, NextCommand, others
<1>3. CASE /\ pc' = [pc EXCEPT ![w] = Scanned(w, devices'[w], broken'[w])]
           /\ UNCHANGED <<cmd, target, attempt>>
  <2>1. pc'[w] \in Resting /\ \A u \in Threads \ {w} : pc'[u] = pc[u]
    BY <1>3 DEF TypeOK, Scanned, Resting
  <2> QED BY <1>1, <1>3, <2>1 DEF JobStep, OthersKeep
<1> QED BY <1>2, <1>3 DEF Probed

LEMMA FailedJob ==
  ASSUME TypeOK, NEW w \in Threads, Failed(w)
  PROVE  JobStep(w)
BY EndJob, ProbedJob DEF Failed

LEMMA RetryJob ==
  ASSUME TypeOK, NEW w \in Threads, Retry(w)
  PROVE  JobStep(w)
<1>1. CASE /\ attempt' = [attempt EXCEPT ![w] = attempt[w] + 1]
           /\ pc' = [pc EXCEPT ![w] = "call"]
           /\ UNCHANGED <<cmd, target, scanned>>
  BY <1>1 DEF JobStep, OthersKeep, SameCommand, TypeOK, scanned
<1> QED BY <1>1, FailedJob DEF Retry

LEMMA AnsweredJob ==
  ASSUME TypeOK, NEW w \in Threads, Answered(w)
  PROVE  JobStep(w)
<1>1. CASE Targeted(w)
  <2>1. CASE End(w, "failed")
    BY <2>1, EndJob
  <2>2. CASE ~End(w, "failed")
    <3>1. /\ cmd[w] = "list"
          /\ todo'[w] = listed[w] /\ \A u \in Threads \ {w} : todo'[u] = todo[u]
          /\ \/ \E t \in listed[w] : Send(w, "udid", t)
             \/ /\ pc' = [pc EXCEPT ![w] = "done"]
                /\ UNCHANGED <<cmd, target, attempt>>
      BY <1>1, <2>2 DEF Targeted, TypeOK
    <3>2. CASE \E t \in listed[w] : Send(w, "udid", t)
      <4>1. PICK t \in listed[w] : Send(w, "udid", t)
        BY <3>2
      <4>2. pc'[w] = "call" /\ cmd'[w] = "udid" /\ target'[w] \in todo'[w] /\ OthersKeep(w)
        BY <3>1, <4>1, SendJob DEF OthersKeep
      <4> QED BY <3>1, <4>2 DEF JobStep, NextCommand
    <3>3. CASE pc' = [pc EXCEPT ![w] = "done"] /\ UNCHANGED <<cmd, target, attempt>>
      BY <3>1, <3>3 DEF JobStep, OthersKeep, Resting, TypeOK
    <3> QED BY <3>1, <3>2, <3>3
  <2> QED BY <2>1, <2>2
<1>2. ASSUME NEW c \in {"model", "launch", "pid"}, Send(w, c, target[w]), UNCHANGED scanned,
             <<cmd[w], c>> \in {<<"udid", "model">>, <<"install", "launch">>, <<"launch", "pid">>}
      PROVE  JobStep(w)
  <2>1. /\ pc'[w] = "call" /\ cmd'[w] = c /\ target'[w] = target[w]
        /\ todo' = todo /\ OthersKeep(w)
    BY <1>2, SendJob DEF OthersKeep, scanned
  <2> QED BY <1>2, <2>1 DEF JobStep, NextCommand
<1>3. CASE ProbedUdid(w)
  BY <1>2, <1>3, ProbedJob DEF ProbedUdid
<1>4. CASE ProbedModel(w)
  BY <1>4, ProbedJob DEF ProbedModel
<1>5. CASE InstallAnswered(w)
  BY <1>2, <1>5, EndJob DEF InstallAnswered
<1>6. CASE LaunchAnswered(w)
  BY <1>2, <1>6, EndJob DEF LaunchAnswered
<1>7. CASE PidAnswered(w)
  BY <1>7, EndJob DEF PidAnswered
<1> QED BY <1>1, <1>3, <1>4, <1>5, <1>6, <1>7 DEF Answered

\* Every step of a thread is one of these, and is made only while the job runs.
LEMMA WorkJob ==
  ASSUME TypeOK, NEW w \in Threads, Work(w)
  PROVE  JobStep(w) /\ pc[w] \in Running
<1> USE DEF host, scanned, Running
<1>1. CASE StartServer(w)
  BY <1>1 DEF StartServer, JobStep, OthersKeep, SameCommand
<1>2. CASE NoServer(w) \/ Busy(w)
  BY <1>2, RetryJob DEF NoServer, Busy
<1>3. CASE BeginCapture(w)
  BY <1>3 DEF BeginCapture, JobStep, OthersKeep, SameCommand, TypeOK
<1>4. CASE Run(w)
  <2>1. pc[w] = "run" /\ pc' = [pc EXCEPT ![w] = "ran"] /\ UNCHANGED <<cmd, target, attempt, todo>>
    BY <1>4 DEF Run
  <2> QED BY <2>1 DEF JobStep, OthersKeep, SameCommand, TypeOK
<1>5. CASE Finish(w)
  BY <1>5, RetryJob, AnsweredJob DEF Finish
<1> QED BY <1>1, <1>2, <1>3, <1>4, <1>5 DEF Work, ThreadStep

\* The size of a set of targets, and of what is left of it without one.
LEMMA TargetsCount ==
  ASSUME IsFiniteSet(Targets), NEW S \in SUBSET Targets
  PROVE  /\ Cardinality(Targets) \in Nat /\ Cardinality(S) \in 0 .. Cardinality(Targets)
         /\ \A t \in S : Cardinality(S) > 0 /\ Cardinality(S \ {t}) = Cardinality(S) - 1
<1>1. IsFiniteSet(S) /\ Cardinality(S) \leq Cardinality(Targets)
  BY FS_Subset
<1>2. Cardinality(Targets) \in Nat /\ Cardinality(S) \in Nat
  BY <1>1, FS_CardinalityType
<1>3. ASSUME NEW t \in S
      PROVE  Cardinality(S) > 0 /\ Cardinality(S \ {t}) = Cardinality(S) - 1
  <2>1. IsFiniteSet(S \ {t}) /\ Cardinality(S \ {t}) = Cardinality(S) - 1
    BY <1>1, <1>3, FS_RemoveElement
  <2>2. Cardinality(S \ {t}) \in Nat
    BY <2>1, FS_CardinalityType
  <2> QED BY <1>2, <2>1, <2>2
<1> QED BY <1>1, <1>2, <1>3

\* What is left of a running job is counted.
LEMMA JobRanges ==
  ASSUME IsFiniteSet(Targets), TypeOK, TodoInv, NEW w \in Threads, pc[w] \in Running
  PROVE  /\ CommandsLeft(w) \in 1 .. 2 * Cardinality(Targets) + 3
         /\ AttemptsLeft(w) \in 1 .. Attempts
         /\ PhaseLeft(w) \in 1 .. 4
<1>1. /\ Cardinality(Targets) \in Nat /\ Cardinality(todo[w]) \in 0 .. Cardinality(Targets)
      /\ cmd[w] \in {"udid", "model"} => Cardinality(todo[w]) > 0
  BY TargetsCount DEF TypeOK, TodoInv
<1>2. cmd[w] \in {"list", "udid", "model", "install", "launch", "pid"}
  BY DEF TypeOK, ScanCmds, InstallCmds
<1>3. CommandsLeft(w) \in 1 .. 2 * Cardinality(Targets) + 3
  BY <1>1, <1>2 DEF CommandsLeft
<1>4. AttemptsLeft(w) \in 1 .. Attempts
  BY DEF AttemptsLeft, TypeOK
<1>5. PhaseLeft(w) \in 1 .. 4
  BY DEF PhaseLeft, Running
<1> QED BY <1>3, <1>4, <1>5

\* The target that is probed stays one of those to probe.
LEMMA TodoStep == TypeOK /\ TodoInv /\ [Next]_vars => TodoInv'
<1> SUFFICES ASSUME TypeOK, TodoInv, [Next]_vars
             PROVE  TodoInv'
  OBVIOUS
<1>1. ASSUME NEW w \in Threads, Work(w)
      PROVE  TodoInv'
  <2>1. JobStep(w) /\ pc[w] \in Running
    BY <1>1, WorkJob
  <2> QED BY <2>1 DEF JobStep, OthersKeep, NextCommand, SameCommand, TodoInv, Running, Resting
<1>2. ASSUME NEW w \in Threads, NEW c \in {"list", "install"}, NEW t \in Targets, Start(w, c, t)
      PROVE  TodoInv'
  <2>1. /\ cmd'[w] = c
        /\ \A u \in Threads \ {w} : /\ pc'[u] = pc[u] /\ cmd'[u] = cmd[u]
                                    /\ target'[u] = target[u] /\ todo'[u] = todo[u]
    BY <1>2, SendJob DEF Start, TypeOK
  <2> QED BY <1>2, <2>1 DEF TodoInv
<1>3. CASE Plug \/ UNCHANGED vars
  BY <1>3 DEF Plug, vars, scanned, TodoInv
<1>4. Scanners \subseteq Threads /\ Installers \subseteq Threads
      /\ \A w \in Threads : target[w] \in Targets
  BY DEF Threads, TypeOK
<1> QED BY <1>1, <1>2, <1>3, <1>4 DEF Next

\* A thread's own step takes its job nearer to the end.
LEMMA WorkNearer ==
  ASSUME IsFiniteSet(Targets), TypeOK, TypeOK', TodoInv, TodoInv', NEW w \in Threads, Work(w)
  PROVE  Nearer(w)
<1>1. JobStep(w) /\ pc[w] \in Running
  BY WorkJob
<1>2. /\ Cardinality(Targets) \in Nat
      /\ \A S \in SUBSET Targets :
           /\ Cardinality(S) \in 0 .. Cardinality(Targets)
           /\ \A t \in S : Cardinality(S) > 0 /\ Cardinality(S \ {t}) = Cardinality(S) - 1
  BY TargetsCount
<1>3. todo[w] \in SUBSET Targets /\ todo'[w] \in SUBSET Targets
      /\ attempt[w] \in Nat /\ attempt'[w] \in Nat
  BY DEF TypeOK
<1>4. CASE NextCommand(w) /\ pc'[w] = "call"
  <2>1. cmd[w] \in {"udid", "model"} => target[w] \in todo[w]
    BY <1>1 DEF TodoInv
  <2>2. Cardinality(todo[w]) \in Nat /\ Cardinality(todo'[w]) \in 0 .. Cardinality(Targets)
    BY <1>2, <1>3
  <2>3. cmd[w] \in {"udid", "model"} =>
          /\ Cardinality(todo[w]) > 0
          /\ Cardinality(todo[w] \ {target[w]}) = Cardinality(todo[w]) - 1
    BY <1>2, <1>3, <2>1
  <2>4. CommandsLeft(w)' < CommandsLeft(w)
    <3>1. CASE cmd[w] = "list" /\ cmd'[w] = "udid"
      BY <1>2, <2>2, <3>1 DEF CommandsLeft
    <3>2. CASE cmd[w] = "udid" /\ cmd'[w] = "model" /\ todo'[w] = todo[w]
      BY <2>2, <3>2 DEF CommandsLeft
    <3>3. CASE /\ cmd[w] \in {"udid", "model"} /\ cmd'[w] = "udid"
               /\ todo'[w] = todo[w] \ {target[w]}
      <4>1. Cardinality(todo'[w]) = Cardinality(todo[w]) - 1
        BY <2>3, <3>3
      <4> QED BY <2>2, <3>3, <4>1 DEF CommandsLeft
    <3>4. CASE <<cmd[w], cmd'[w]>> \in {<<"install", "launch">>, <<"launch", "pid">>}
      BY <3>4 DEF CommandsLeft
    <3> QED BY <1>4, <3>1, <3>2, <3>3, <3>4 DEF NextCommand
  <2> QED BY <2>4 DEF Nearer
<1>5. CASE SameCommand(w)
  <2>1. CommandsLeft(w)' = CommandsLeft(w)
    BY <1>5 DEF SameCommand, CommandsLeft
  <2>2. CASE attempt'[w] = attempt[w] + 1
    <3>1. AttemptsLeft(w)' < AttemptsLeft(w)
      BY <1>3, <2>2 DEF AttemptsLeft
    <3> QED BY <2>1, <3>1 DEF Nearer
  <2>3. CASE /\ attempt'[w] = attempt[w]
             /\ \/ pc[w] = "call" /\ pc'[w] = "run"
                \/ pc[w] = "run" /\ pc'[w] = "ran"
                \/ pc[w] = "call" /\ pc'[w] = "call" /\ server = "unset" /\ server' # "unset"
    <3>1. AttemptsLeft(w)' = AttemptsLeft(w)
      BY <2>3 DEF AttemptsLeft
    <3>2. PhaseLeft(w)' < PhaseLeft(w)
      BY <2>3 DEF PhaseLeft
    <3> QED BY <2>1, <3>1, <3>2 DEF Nearer
  <2>4. CASE pc'[w] \in Resting
    BY <2>4 DEF Nearer
  <2>5. ~NextCommand(w) \/ pc'[w] # "call" \/ Nearer(w)
    BY <1>4
  <2> QED BY <1>1, <2>2, <2>3, <2>4, <2>5 DEF JobStep
<1> QED BY <1>1, <1>4, <1>5 DEF JobStep, Nearer

\* A server that was started, or failed to, is never "unset" again.
LEMMA ServerStays ==
  ASSUME TypeOK, NEW u \in Threads, Work(u), server' = "unset"
  PROVE  server = "unset"
BY DEF Work, ThreadStep, StartServer, NoServer, Busy, BeginCapture, Run, Finish, host

\* What leaves a job as long as it is, or spares it the start of the server.
LEMMA JobKept ==
  ASSUME NEW w \in Threads, pc[w] \in Running,
         pc'[w] = pc[w], cmd'[w] = cmd[w], attempt'[w] = attempt[w], todo'[w] = todo[w],
         server' = "unset" => server = "unset"
  PROVE  Nearer(w) \/ UNCHANGED <<CommandsLeft(w), AttemptsLeft(w), PhaseLeft(w)>>
<1>1. CommandsLeft(w)' = CommandsLeft(w) /\ AttemptsLeft(w)' = AttemptsLeft(w)
  BY DEF CommandsLeft, AttemptsLeft
<1>2. PhaseLeft(w)' = PhaseLeft(w) \/ PhaseLeft(w)' < PhaseLeft(w)
  BY DEF PhaseLeft, Running
<1> QED BY <1>1, <1>2 DEF Nearer

\* Every step of the system counts every job.
LEMMA JobsStep ==
  ASSUME IsFiniteSet(Targets), TypeOK, TypeOK', TodoInv, TodoInv', [Next]_vars,
         NEW w \in Threads
  PROVE  JobCounted(w)
<1> SUFFICES ASSUME pc[w] \in Running
             PROVE  Nearer(w) \/ UNCHANGED <<CommandsLeft(w), AttemptsLeft(w), PhaseLeft(w)>>
  BY JobRanges, WorkNearer DEF JobCounted
<1>1. ASSUME NEW u \in Threads, Work(u)
      PROVE  Nearer(w) \/ UNCHANGED <<CommandsLeft(w), AttemptsLeft(w), PhaseLeft(w)>>
  <2>1. CASE u = w
    BY <1>1, <2>1, WorkNearer
  <2>2. CASE u # w
    <3>1. /\ pc'[w] = pc[w] /\ cmd'[w] = cmd[w]
          /\ attempt'[w] = attempt[w] /\ todo'[w] = todo[w]
      BY <1>1, <2>2, WorkJob DEF JobStep, OthersKeep
    <3> QED BY <1>1, <3>1, JobKept, ServerStays
  <2> QED BY <2>1, <2>2
<1>2. ASSUME NEW u \in Threads, NEW c, NEW t, Start(u, c, t)
      PROVE  Nearer(w) \/ UNCHANGED <<CommandsLeft(w), AttemptsLeft(w), PhaseLeft(w)>>
  <2>1. u # w
    BY <1>2 DEF Start, Running, Resting
  <2>2. /\ pc'[w] = pc[w] /\ cmd'[w] = cmd[w] /\ server' = server
        /\ attempt'[w] = attempt[w] /\ todo'[w] = todo[w]
    BY <1>2, <2>1, SendJob DEF Start, TypeOK, host
  <2> QED BY <2>2, JobKept
<1>3. CASE Plug \/ UNCHANGED vars
  BY <1>3, JobKept DEF Plug, vars, host, scanned
<1>4. Scanners \subseteq Threads /\ Installers \subseteq Threads
  BY DEF Threads
<1> QED BY <1>1, <1>2, <1>3, <1>4 DEF Next

(* Every scan and every install is finite work, for any threads and targets:     *)
(* what it has still to do is a count of commands, of attempts at this one and   *)
(* of phases of this attempt, each within its bounds while the job runs; every   *)
(* step of the thread ends the job or makes that count smaller in this order,    *)
(* and no step of another thread, and no device that comes or goes, makes it     *)
(* larger.  This is the variant behind JobsEnd, whose premise is that the job's  *)
(* own commands return: list_devices probes a target                             *)
(* once, InlineRunner stops after its attempts, whether the server is down, the  *)
(* capture is busy or nothing was printed, and an install is three commands      *)
(* (hdc.rs:97-118, run_command).                                                 *)
THEOREM JobsAreCounted ==
  ASSUME IsFiniteSet(Targets)
  PROVE  Spec => [][\A w \in Threads : JobCounted(w)]_vars
<1>1. Init => TodoInv
  BY DEF Init, TodoInv, Running
<1>2. TypeOK /\ TypeOK' /\ TodoInv /\ TodoInv' /\ [Next]_vars
        => [\A w \in Threads : JobCounted(w)]_vars
  BY JobsStep
<1> QED BY <1>1, <1>2, TypeInit, TypeStep, TodoStep, PTL DEF Spec
=============================================================================
