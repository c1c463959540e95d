------------------------------ MODULE HdcInline ------------------------------
(***************************************************************************)
(* Access to the devices: HdcClient and InlineRunner of src/device/hdc.rs  *)
(* over run_command of the in-process HDC host (vendor/hdc/src/host).      *)
(* Scan and install threads send commands one at a time each; the host     *)
(* runs one command of the process at a time, because its output is        *)
(* collected in one buffer, and refuses the others.  The client of the     *)
(* host ends with the end of the connection, always as an error; the       *)
(* command counts as answered when it printed anything before, and is sent *)
(* again when it printed nothing.                                          *)
(*                                                                         *)
(* Data.  What a command prints is "ok" (what the caller looks for),       *)
(* "text" (something else, or the beginning only), "fail" (with [Fail]) or *)
(* "none".  The texts themselves, paths, models and pids are left out.     *)
(***************************************************************************)
EXTENDS Naturals, FiniteSets

CONSTANTS Scanners, Installers, NoThread,   \* threads
          Targets,
          Attempts     \* how often InlineRunner sends a command: 5

Threads == Scanners \cup Installers

ASSUME HdcAssumption ==
  /\ NoThread \notin Threads
  /\ Targets # {}
  /\ Attempts \in Nat \ {0}

VARIABLES server,      \* HDC_SERVER: not started yet, up, or failed to start
          capture,     \* the thread that began OUTPUT_CAPTURE
          buffer,      \* the threads whose output it has
          attached,    \* the targets that answer
          apps,        \* apps[t]: the threads whose HAP was installed on t
          pc, cmd, target, attempt,
          out,         \* out[w]: what w's last command printed
          listed,      \* listed[w]: the targets w read in "list targets"
          todo,        \* todo[w]: those not probed yet
          devices,     \* devices[w]: those probed
          broken       \* broken[w]: last_error is set

host    == <<server, capture, buffer>>
scanned == <<listed, todo, devices, broken>>
vars    == <<host, attached, apps, pc, cmd, target, attempt, out, scanned>>

ScanCmds    == {"list", "udid", "model"}
InstallCmds == {"install", "launch", "pid"}
Outputs     == {"ok", "text", "fail", "none"}
Resting     == {"idle", "done", "failed"}
Pcs         == Resting \cup {"call", "run", "ran"}
-----------------------------------------------------------------------------
(* What a caller does with the outcome of its command.                     *)

End(w, how) ==
  /\ pc' = [pc EXCEPT ![w] = how]
  /\ UNCHANGED <<cmd, target, attempt, scanned>>

Send(w, c, t) ==
  /\ pc'      = [pc EXCEPT ![w] = "call"]
  /\ cmd'     = [cmd EXCEPT ![w] = c]
  /\ target'  = [target EXCEPT ![w] = t]
  /\ attempt' = [attempt EXCEPT ![w] = 0]

\* Mutant: a scan whose probes all failed reports that there is no device.
Scanned_Swallowed(w, found, failed) == "done"

Scanned(w, found, failed) == IF found = {} /\ failed THEN "failed" ELSE "done"

\* One target has been probed: to the next one, or to the end of the scan.
Probed(w, good) ==
  LET left == todo[w] \ {target[w]} IN
  /\ todo'    = [todo EXCEPT ![w] = left]
  /\ devices' = [devices EXCEPT ![w] = IF good THEN @ \cup {target[w]} ELSE @]
  /\ broken'  = [broken EXCEPT ![w] = @ \/ ~good]
  /\ UNCHANGED listed
  /\ \/ \E t \in left : Send(w, "udid", t)
     \/ /\ left = {}
        /\ pc' = [pc EXCEPT ![w] = Scanned(w, devices'[w], broken'[w])]
        /\ UNCHANGED <<cmd, target, attempt>>

Failed(w) ==
  IF cmd[w] \in {"udid", "model"} THEN Probed(w, FALSE) ELSE End(w, "failed")

Targeted(w) ==
  /\ cmd[w] = "list"
  /\ \/ out[w] = "fail" /\ End(w, "failed")
     \/ /\ out[w] # "fail"
        /\ todo' = [todo EXCEPT ![w] = listed[w]]
        /\ UNCHANGED <<listed, devices, broken>>
        /\ \/ \E t \in listed[w] : Send(w, "udid", t)
           \/ /\ listed[w] = {}
              /\ pc' = [pc EXCEPT ![w] = "done"]
              /\ UNCHANGED <<cmd, target, attempt>>

ProbedUdid(w) ==
  /\ cmd[w] = "udid"
  /\ IF out[w] = "ok" THEN Send(w, "model", target[w]) /\ UNCHANGED scanned
                      ELSE Probed(w, FALSE)

ProbedModel(w) == cmd[w] = "model" /\ Probed(w, out[w] # "fail")

\* Mutant: an output without "success" is taken for one.
InstallAnswered_AnyText(w) ==
  /\ cmd[w] = "install"
  /\ IF out[w] # "fail" THEN Send(w, "launch", target[w]) /\ UNCHANGED scanned
                        ELSE End(w, "failed")

InstallAnswered(w) ==
  /\ cmd[w] = "install"
  /\ IF out[w] = "ok" THEN Send(w, "launch", target[w]) /\ UNCHANGED scanned
                      ELSE End(w, "failed")

LaunchAnswered(w) ==
  /\ cmd[w] = "launch"
  /\ IF out[w] # "fail" THEN Send(w, "pid", target[w]) /\ UNCHANGED scanned
                        ELSE End(w, "failed")

PidAnswered(w) ==
  /\ cmd[w] = "pid"
  /\ End(w, IF out[w] = "ok" THEN "done" ELSE "failed")

Answered(w) ==
  \/ Targeted(w) \/ ProbedUdid(w) \/ ProbedModel(w)
  \/ InstallAnswered(w) \/ LaunchAnswered(w) \/ PidAnswered(w)

\* Mutant: the command is sent until it is answered.
Retry_Forever(w) ==
  /\ pc' = [pc EXCEPT ![w] = "call"]
  /\ UNCHANGED <<cmd, target, attempt, scanned>>

\* Mutant: one attempt too many.
Retry_OffByOne(w) ==
  \/ /\ attempt[w] < Attempts
     /\ attempt' = [attempt EXCEPT ![w] = @ + 1]
     /\ pc' = [pc EXCEPT ![w] = "call"]
     /\ UNCHANGED <<cmd, target, scanned>>
  \/ attempt[w] = Attempts /\ Failed(w)

Retry(w) ==
  \/ /\ attempt[w] + 1 < Attempts
     /\ attempt' = [attempt EXCEPT ![w] = @ + 1]
     /\ pc' = [pc EXCEPT ![w] = "call"]
     /\ UNCHANGED <<cmd, target, scanned>>
  \/ attempt[w] + 1 = Attempts /\ Failed(w)
-----------------------------------------------------------------------------
(* run_command.                                                            *)

StartServer(w) ==
  /\ pc[w] = "call" /\ server = "unset"
  /\ server' \in {"up", "down"}
  /\ UNCHANGED <<capture, buffer, attached, apps, pc, cmd, target, attempt, out, scanned>>

NoServer(w) ==
  /\ pc[w] = "call" /\ server = "down"
  /\ Retry(w)
  /\ UNCHANGED <<host, attached, apps, out>>

\* Mutant: the capture of another thread is not noticed.
Busy_Ignored(w) ==
  /\ pc[w] = "call" /\ server = "up" /\ capture # NoThread
  /\ capture' = w /\ buffer' = {}
  /\ pc' = [pc EXCEPT ![w] = "run"]
  /\ UNCHANGED <<server, attached, apps, cmd, target, attempt, out, scanned>>

Busy(w) ==
  /\ pc[w] = "call" /\ server = "up" /\ capture # NoThread
  /\ Retry(w)
  /\ UNCHANGED <<host, attached, apps, out>>

BeginCapture(w) ==
  /\ pc[w] = "call" /\ server = "up" /\ capture = NoThread
  /\ capture' = w /\ buffer' = {}
  /\ pc' = [pc EXCEPT ![w] = "run"]
  /\ UNCHANGED <<server, attached, apps, cmd, target, attempt, out, scanned>>

\* The command runs until its connection ends, for which nothing sets a time
\* limit: a thread may stay at "run" for ever, as one whose client panics does,
\* with the capture taken.  An install whose output is lost, or cut off, may
\* have been made.
Run(w) ==
  /\ pc[w] = "run"
  /\ pc' = [pc EXCEPT ![w] = "ran"]
  /\ \E o \in Outputs, made \in BOOLEAN, seen \in SUBSET attached :
        /\ cmd[w] # "list" /\ target[w] \notin attached => o # "ok" /\ ~made
        /\ cmd[w] = "install" => (o = "ok" => made) /\ (o = "fail" => ~made)
        /\ cmd[w] = "list" /\ o = "ok" => seen = attached
        /\ out'    = [out EXCEPT ![w] = o]
        /\ buffer' = IF o = "none" THEN buffer ELSE buffer \cup {w}
        /\ apps'   = IF cmd[w] = "install" /\ made
                     THEN [apps EXCEPT ![target[w]] = @ \cup {w}] ELSE apps
        /\ listed' = IF cmd[w] = "list" THEN [listed EXCEPT ![w] = seen] ELSE listed
  /\ UNCHANGED <<server, capture, attached, cmd, target, attempt, todo, devices, broken>>

\* Mutant: the capture is not ended when the command printed nothing.
Finish_Leaks(w) ==
  /\ pc[w] = "ran"
  /\ IF buffer = {} THEN Retry(w) /\ UNCHANGED capture
                    ELSE Answered(w) /\ capture' = NoThread
  /\ buffer' = {}
  /\ UNCHANGED <<server, attached, apps, out>>

Finish(w) ==
  /\ pc[w] = "ran"
  /\ capture' = NoThread /\ buffer' = {}
  /\ IF buffer = {} THEN Retry(w) ELSE Answered(w)
  /\ UNCHANGED <<server, attached, apps, out>>
-----------------------------------------------------------------------------
Start(w, c, t) ==
  /\ pc[w] \in Resting
  /\ Send(w, c, t)
  /\ apps'    = [u \in Targets |-> apps[u] \ {w}]
  /\ out'     = [out EXCEPT ![w] = "none"]
  /\ listed'  = [listed EXCEPT ![w] = {}]
  /\ todo'    = [todo EXCEPT ![w] = {}]
  /\ devices' = [devices EXCEPT ![w] = {}]
  /\ broken'  = [broken EXCEPT ![w] = FALSE]
  /\ UNCHANGED <<host, attached>>

\* A device is plugged in, authorized, or gone.
Plug ==
  /\ attached' \in SUBSET Targets
  /\ UNCHANGED <<host, apps, pc, cmd, target, attempt, out, scanned>>

Init ==
  /\ server = "unset" /\ capture = NoThread /\ buffer = {}
  /\ attached \in SUBSET Targets
  /\ apps = [t \in Targets |-> {}]
  /\ pc = [w \in Threads |-> "idle"]
  /\ cmd = [w \in Threads |-> "list"]
  /\ target = [w \in Threads |-> CHOOSE t \in Targets : TRUE]
  /\ attempt = [w \in Threads |-> 0]
  /\ out = [w \in Threads |-> "none"]
  /\ listed = [w \in Threads |-> {}]
  /\ todo = [w \in Threads |-> {}]
  /\ devices = [w \in Threads |-> {}]
  /\ broken = [w \in Threads |-> FALSE]

\* The steps that are the thread's own; Run waits for the host and the device.
ThreadStep(w) ==
  \/ StartServer(w) \/ NoServer(w) \/ Busy(w) \/ BeginCapture(w) \/ Finish(w)

Work(w) == ThreadStep(w) \/ Run(w)

Next ==
  \/ \E w \in Threads : Work(w)
  \/ \E w \in Scanners : Start(w, "list", target[w])
  \/ \E w \in Installers, t \in Targets : Start(w, "install", t)
  \/ Plug

Spec == Init /\ [][Next]_vars

\* Threads run.  No command has to return: run_command has no timeout, and a
\* device that is lost does not end the client that waits for it.  A thread that
\* panics in the client (client.rs:154) is one whose command does not return.
FairSpec == Spec /\ \A w \in Threads : WF_vars(ThreadStep(w))

\* The environment's part: no command of w is at the host for ever.
Returning(w) == []<>(pc[w] # "run")
-----------------------------------------------------------------------------
(* Type correctness; a command is sent Attempts times at most.             *)
TypeOK ==
  /\ server \in {"unset", "up", "down"}
  /\ capture \in Threads \cup {NoThread} /\ buffer \in SUBSET Threads
  /\ attached \in SUBSET Targets
  /\ apps \in [Targets -> SUBSET Threads]
  /\ pc \in [Threads -> Pcs]
  /\ cmd \in [Threads -> ScanCmds \cup InstallCmds]
  /\ target \in [Threads -> Targets]
  /\ attempt \in [Threads -> 0..(Attempts - 1)]
  /\ out \in [Threads -> Outputs]
  /\ listed \in [Threads -> SUBSET Targets]
  /\ todo \in [Threads -> SUBSET Targets]
  /\ devices \in [Threads -> SUBSET Targets]
  /\ broken \in [Threads -> BOOLEAN]

(* A thread that takes the output of its command finds all of it and nothing
   of another command: the buffer is one for the whole process (begin_ and
   finish_output_capture in run_command). *)
OutputIsOwn ==
  \A w \in Threads : pc[w] = "ran" =>
    buffer = IF out[w] = "none" THEN {} ELSE {w}

(* A scan reports only targets it read in the list, and an empty list only
   when it read none: failing devices are never shown as no device
   (list_devices, hdc.rs:97-118). *)
ScanHonest ==
  \A w \in Threads : pc[w] = "done" /\ cmd[w] \in ScanCmds =>
    /\ devices[w] \subseteq listed[w]
    /\ devices[w] = {} => listed[w] = {}

(* An install thread that gets a pid has installed its own HAP on its target,
   whatever was retried, cut off or unplugged on the way. *)
InstallHonest ==
  \A w \in Threads : pc[w] = "done" /\ cmd[w] \in InstallCmds => w \in apps[target[w]]

(* A scan or an install whose own commands return ends, also when a command of
   another thread hangs and keeps the capture for ever: attempts are counted, the
   refused ones too, and no thread waits for another (run, hdc.rs:27-46). *)
JobsEnd ==
  \A w \in Threads : Returning(w) => (pc[w] \notin Resting ~> pc[w] \in Resting)

(* As long as commands return, in whatever way, the capture is free again and
   again: no error, lost output or retry leaves it taken.  A command that never
   returns does, and HDC is then busy for every other thread: lib.rs:59 is
   outside the premise, and nothing in the code brings the capture back. *)
HdcUsable == (\A w \in Threads : Returning(w)) => []<>(capture = NoThread)
-----------------------------------------------------------------------------
\* What makes OutputIsOwn inductive: the capture belongs to the running command.
CaptureInv ==
  /\ \A w \in Threads : pc[w] \in {"run", "ran"} => capture = w
  /\ \A w \in Threads : pc[w] = "run" => buffer = {}
  /\ OutputIsOwn

\* What makes InstallHonest inductive.
InstalledInv ==
  \A w \in Threads :
    /\ pc[w] \in {"call", "run", "ran"} /\ cmd[w] \in {"launch", "pid"}
         => w \in apps[target[w]]
    /\ pc[w] = "ran" /\ cmd[w] = "install" /\ out[w] = "ok" => w \in apps[target[w]]
    /\ pc[w] = "done" /\ cmd[w] \in InstallCmds => w \in apps[target[w]]

\* What makes ScanHonest inductive: a scan probes what it read in the list.
ScanInv ==
  \A w \in Threads :
    /\ pc[w] \in {"call", "run", "ran"} /\ cmd[w] = "list" => devices[w] = {}
    /\ pc[w] \in {"call", "run", "ran"} /\ cmd[w] \in {"udid", "model"} =>
         /\ target[w] \in listed[w]
         /\ todo[w] \subseteq listed[w] /\ devices[w] \subseteq listed[w]
    /\ pc[w] = "done" /\ cmd[w] \in ScanCmds =>
         /\ devices[w] \subseteq listed[w]
         /\ devices[w] = {} => listed[w] = {}
=============================================================================
