# Verification of HAP Resigner

TLA+ specifications of HAP Resigner (`src/src`), the TLC configurations that check
them on small instances, and proofs the TLA+ proof system checks for all
instances. The models are translated from the Rust code; line numbers are those of
the files under `src/src`.

1. [The system](#1-the-system)
2. [The modules](#2-the-modules)
3. [What TLC checks](#3-what-tlc-checks)
4. [What is proved](#4-what-is-proved)
5. [Divergences found](#5-divergences-found)
6. [What is abstracted and what is left
   out](#6-what-is-abstracted-and-what-is-left-out)
7. [Plan](#7-plan)
8. [Running it](#8-running-it)

## 1. The system

HAP Resigner takes a HarmonyOS package, obtains a debug certificate and a profile
for one device from AppGallery Connect (AGC), signs the package again, installs it
on the device and launches it. It is one desktop process; what runs in parallel
are its threads, a second copy of the process, AGC, and the user.

| Component | State it keeps | Operations | Hard behaviour |
|---|---|---|---|
| Window (`app/gui.rs`, `app/state.rs`) | `AppState` (phase, devices, selected device, signed file, pid), the captured `operation_device`, `install_started`, three scan fields, the remembered UDID | one egui frame: drain the events, ask for a scan, start the automatic install, take dropped files, draw the header (device menu) and the card (buttons) | events of several workers on one channel, late results, an operation replaced while its threads still run |
| Workers (`app/workflow.rs`) | threads; the output file beside the input; the credential store | `spawn_device_scan`, `spawn_resign`, `spawn_install` | every path must end in an event; two workers of one input write one output file |
| Materials (`materials/*`) | `<stem>.p12`, `<stem>.cer`, `<stem>.pending.json`, `profile_<bundle>.p7b`, one password per stem | `find_local_materials`, `prepare_materials_with_api` and the store's saves | a crash between any two writes, lost answers of AGC, revoked certificates, a limit of three certificates per team, files and passwords that cannot be read, certificates not listed yet, two workers in one directory |
| AGC client (`agc/client.rs`) | none; AGC has devices, certificates and profiles | `register_device`, `upload_csr`, `create_test_provision`, downloads | an accepted request with an empty answer, records listed late or without an id, duplicates, bounded look-ups |
| AGC login (`agc/auth.rs`, `load_or_login` of `workflow.rs`) | the saved token, a loopback listener with a deadline | `refresh_token`, `browser_login`, `wait_for_token`, `read_request`, `exchange_temp_token` | requests in pieces, aborted connections, the deadline, two logins at once |
| HTTP factory (`agc/http.rs`) | none | builds clients | none |
| Device (`device/hdc.rs`, `run_command` of `vendor/hdc`) | one in-process HDC server, one output buffer for all commands | list, probe, install, launch, pid | commands of two threads at once, lost and cut-off output, retries of commands that did run, commands without a timeout |
| HAP signing (`hap/*`) | none: bytes to bytes | find the signing block, lay the archive out again, code-sign it with Merkle trees, digest it and write the new block | an offset told before the block exists, sizes at a page, a tree level or the width of a field, old blocks kept, a signed file signed again |
| Command line (`cli.rs`, `main.rs`, `bin/`) | none | parse the arguments, call the signer | none |

**Interaction.** The window spawns workers and gives each a clone of one mpsc
sender; a worker never touches `AppState`, it sends events, and the window applies
them in order at the start of a frame. A re-sign worker calls materials, which
calls the AGC client (after a login when no token is stored) and the credential
store, then the signer; it writes the output file and sends `Signed`. The next
frame spawns the install worker, which pushes that file through HDC.

**What makes each part correct.**

- Window and workers: one scan at a time, and scanning never stops; an operation
  installs its own file, once, after it is complete, to the device it was started
  for; every operation ends in a phase in which the user can act, as long as HDC's
  commands return.
- Materials: whatever step was the last before a crash, the next request can
  continue; the key of a live certificate that can be seen is not lost; a retry does
  not spend a second certificate; the limit is respected; after a success the next request
  needs no network.
- AGC client: a call returns a record AGC has, calls for one name return the same
  record, and a call ends.
- AGC login: a browser that is told of success had its token taken; only a token
  the service accepted is saved; a login ends.
- Device: a command reads its own output and all of it; failing devices are not
  shown as no device; an install that succeeds was made; HDC stays usable while its
  commands return, and nobody waits for a command that does not.
- HAP signing: the signed file can be read and verified; the code-sign data lies
  where it says it lies, its trees cover all code and are the trees a verifier
  builds; nothing is lost or cut off, and signing again keeps all this.

The hazards behind these, at the lines where they bite, are in `PROJECT.json`
under `hazards`.

## 2. The modules

| Module | Models | Role |
|---|---|---|
| `AppState` | `app/state.rs` | phases, events, `apply` as operators, no variables |
| `AppWorkflow` | `app/workflow.rs` | worker threads, event channel, output files (EXTENDS `AppState`) |
| `AppGui` | `app/gui.rs` | the frame loop composed with the workers; properties (EXTENDS `AppWorkflow`) |
| `DeviceScanSlot` | – | abstract: one scan slot, free, probing or arriving |
| `MCAppGui` | – | instances for TLC |
| `AppGuiProofs` | – | theorems about `AppGui` |
| `Materials` | `materials/*`, with the parts of `workflow.rs` and `client.rs` it calls | workers, stores and AGC |
| `KeyLifecycle` | – | abstract: the life of a team's key, none, pending, certified |
| `MCMaterials` | – | instances |
| `MaterialsProofs` | – | theorems: types and names; limit, reuse, live keys, `KeyLifecycle` |
| `AgcClient` | `agc/client.rs` | registration of a device and of a certificate name |
| `MCAgcClient`, `AgcClientProofs` | – | instances and theorems |
| `HdcInline` | `device/hdc.rs` over `run_command` and its output capture | scan and install threads, the host, the devices |
| `MCHdcInline`, `HdcInlineProofs` | – | instances and theorems |
| `LoginCallback` | `agc/auth.rs`, `load_or_login` | logins, browser, other programs |
| `MCLoginCallback`, `LoginCallbackProofs` | – | instances and theorems |
| `HapFormat` | `hap/format.rs`, `hap/signing_block.rs` | what a HAP file is and how it is read, as operators |
| `CodeSign` | `hap/code_sign.rs` | entries that are code, alignment, tree levels and sizes, as operators (EXTENDS `HapFormat`) |
| `HapSign` | `hap/sign.rs`, `hap/digest.rs` and the stages of `code_sign.rs` | `sign_hap` step by step (EXTENDS `CodeSign`) |
| `MCHapSign` | – | files and profiles for TLC |
| `FoldTheorems` | – | theorems about sums and concatenations, of no part of the program |
| `HapSignProofs`, `HapCoverProofs` | – | theorems: reading, verifying, places; what the trees cover, their levels, what is kept and accepted |

### AppState, AppWorkflow, AppGui

`state` is `AppState`, `events` the channel, `resigns` and `installs` the threads
in the order they were spawned, `output[h]` the device the file beside input `h`
is signed for. A worker's action is the work up to and including its next send, so
a frame can fall between any two sends, and HDC's read of the output file is an
action of its own.

The UI thread runs the stages of a frame in the order of `HapResignerApp::ui`
(285-321): `frame` says which comes next and workers run between any two.
`HandleScanEvent` and `HandlePipelineEvent` consume one event each
(`drain_events`), `EndDrain` is the scan request and the automatic install that
follow, `DroppedFiles`, `Header`/`SelectDevice` and `MainCard` are the user's
possibilities at that stage. The three seconds of `DEVICE_SCAN_INTERVAL` are the
flag `scan_due`, raised at any time by `TimerElapses`: the code promises nothing
about how time relates to threads.

What a scan lists, whether materials are local and whether a thread fails are
chosen with `\E`; the constants `ScanLists`, `LocalMaterials`, `MayFail`,
`MaxResigns` and `MaxInstalls` bound these choices in a run. The proofs hold for
any values of them.

### Materials

A worker takes one step per write (to a file, to the credential store or to AGC)
and one per run of reads between two writes; `pc` names the point of
`prepare_materials_with_api` it has reached. `Abort` ends a worker at any point: a
crash, an I/O or network error, a look-up that gave up. Files and passwords
survive it; what the worker holds (`cands`, `found`, `hand`, `answer`) is reset by
the next `Start`. AGC lists and completes records (`Publish`), and the user may
delete certificates (`Revoke`) on the page the code points to at the limit.

Not every error ends a request. Three kinds of oversight let it go on with less
than there is, and the constant `Overlooks` says which of them a run has: a password
that the credential store refuses (`passwords_for` drops the error), a P12 that
cannot be read (`manager.rs:246-248` skips the pair), and a certificate AGC returned
from the upload and does not list yet. `Opened` chooses the pairs a request sees
among those it could (`Openable`); a certificate is listed not at all, in part or
whole (`shown`), and `UploadCsr` may answer with the complete record before it is
listed. What was overlooked when a new key was generated is kept in two history
variables, which no step reads: `overlooked`, the keys of certificates the request
could not know to be there and usable, and `uncounted`, those of them that the list
did not have.

A request's password, key and certificate name are all the number of the request,
and a P12 is the key in it: "the password opens the P12" and "the chain certifies
the key" become equalities. Key 0 is a pair imported with the password `123456`,
which `passwords_for` always tries.

### AgcClient

`records` is AGC's list; a record can lack its id (`complete`) or be absent from
the listing (`visible`) for any time. `InitialList` is the list that
`register_device` makes first, `Added`, `Duplicate` and `AddFails` are the answers
to the POST (an error before or after AGC took the request), `Poll` one look-up,
`NextAttempt` the loop's count. AGC refuses a name it has a record of; two devices
of one UDID can only be there from the start, and the initial states include them.

### HdcInline

A thread (`spawn_device_scan` or `spawn_install`) sends one command at a time.
`StartServer` is the `LazyLock` the first command forces, `BeginCapture` and
`Busy` the two outcomes of `begin_output_capture`, `Run` the command up to the end
of its connection, `Finish` the capture's end with what the caller does with the
answer (`Answered`) or with its absence (`Retry`). The client of the host always
ends with an error, so a command counts as answered when it printed anything: a
command that prints nothing is sent again, up to five times. An install whose
output is lost may have been made (`Run`). `apps` remembers who installed what,
which no variable of the program does.

### LoginCallback

`queue` holds the connections that wait at a listener, `conn` the one being
served, `read` how much of it was read. A request comes in two segments;
`RequestComplete` is the loop condition of `read_request`, which knows the length
of a body only if `Content-Length` is the first header, and
`extract_callback_token` what is then found in the part that was read. Every error
of a connection ends the login (`ReadFails`, `RespondFails`), as the `?` of
`wait_for_token` does. The saved token is `saved`; whether the service still
refreshes it is `valid`.

### HapFormat, CodeSign, HapSign

A file is the numbers stored in it (offsets and sizes of entries, of the central
directory and of the signing block, with fields of 32 bits as `U32`) and the
identity of its contents; no byte is represented. A value of the block has an
identity, and a code-sign property also the two offsets it was built with: where
its own data begins and where its tree begins.

`pc` is the stage `sign_hap` has reached, and every loop turn is an action:
`ParseInput` is the first `parse_hap` and the decision `needs_code_sign`;
`WriteEntry` and `FinishArchive` are `align_zip_for_code_sign`, over entries in
the order of `entry_rank`; `ParseAgain` the second `parse_hap`; `KeepBlock` one
row of `preserved_optional_blocks`; `CollectInputs` and `CollectEntry` are
`collect_code_sign_inputs`; `PlaceTree`, `AddLevel`, `FinishTree` and
`InsertProperty` the rest of `build_code_sign_property` with the loop of
`generate_merkle_tree`; `DigestContent` is `compute_content_digest` and the
signer's CMS; `EncodeRow`, `EncodeValue` and `WriteOutput` are
`encode_signing_block` and the file around it. Each `?` of the code is a refusal
with its own guard (`Unreadable`, `EntriesRefused`, `CopyFails`, `OwnerMissing`,
`PropertyTooLarge`, `RowTooLarge`, `OutputTooLarge`). `SignAgain` gives the result
back as input, with any profile.

Signing is sequential. What is hard in it is that a number is computed in one
place from what another place will do later: the property contains the offset at
which it will lie, before its size, the CMS and the table are known; the digest is
over a file that does not exist yet; the archive is aligned for a reader that
finds the code by the first entry that is none.

## 3. What TLC checks

| Run | Instance | Question | States |
|---|---|---|---|
| `gui` | 1 operation, 2 devices, lists of none, one and two of them, both login paths, every thread may fail, scan and install threads may hang, fairness | types; is scanning single, is the selection always a listed device; does scanning go on, does an operation end when its install's commands return, is `DeviceScanSlot` implemented | 362 000 |
| `gui_overlap` | 2 operations in any overlap, 3 installs, 2 devices, lone-device lists | is a file installed once, after it is signed, and never redirected | 1 490 000 |
| `gui_wrong_device` | as `gui_overlap` | does a device only get files signed for it: **no**, see 5 | – |
| `gui_ready` | 3 operations, no failures | is the file shown as ready being installed: **no**, see 5 | – |
| `materials` | 1 worker, 4 requests, 3 faults, 1 bundle, 2 devices, 0, 1 or 3 foreign certificates, every kind of oversight, fairness | resumable store, one certificate per key, keys kept that could be seen, limit, reuse, `KeyLifecycle` implemented; does asking again succeed in the end | 581 000 |
| `materials_two_workers` | 2 workers | can a pending record always be resumed: **no**, see 5 | – |
| `materials_keyring` | 1 worker, a credential store that may refuse | is the key of every live certificate kept: **no**, see 5 | – |
| `agc_client` | 2 clients, 1 UDID, 1 certificate name, the 5 look-ups of the code, 4 records, fairness | is the answer real, and the same for all calls; does a call end | 98 000 |
| `hdc` | a scan and an install thread, 2 targets that come and go, 2 attempts, commands that may hang, fairness of the threads | is output its own, is a scan honest, is an install made; does a job end whose commands return, is the capture free again and again while commands return | 183 000 |
| `login` | 1 login, 4 kinds of request, 2 waiting connections, aborts, endless connections, fairness | is the token taken, is the saved one kept; does a login end | 377 000 |
| `login_post` | a POST with another header before `Content-Length` | is its token taken: **no**, see 5 | – |
| `hap_sign` | 15 archives of up to 4 entries, unsigned, with 6 old tables or damaged in 7 ways, 5 profiles, 2 sizes of an entry packed again, 2 rounds | can the result be read and verified, is the code-sign data in place and the code covered, are the trees those of a verifier, is anything lost or cut off | 80 000 |

**Why the bounds are enough.** An overlap needs two operations, and the stale flag
three; a redirection needs two devices. `MaxInstalls` is above what `InstallOnce`
allows, so that the bound is not what keeps it true. Of four requests one can
succeed after three that failed, or reuse what an earlier one made; three faults
allow a crash, an oversight and a revocation in one history; 0, 1 and 3 foreign
certificates put a request below the point where AGC is full, at it after two keys
of its own, and at it from the start. HDC is given two attempts, a first and a
last; two threads are enough to meet at the capture, and two targets for one to
fail and one to answer in a scan. A login needs two waiting connections for one
without a token to come first, and two segments for a request to be cut. For HAP
signing the constants of the code are scaled down, keeping what the code uses of
them: a page of 128 bytes holds four digests of 32, so 17 pages need a tree of
three levels; the limits of an entry (2200) and of an archive (5000) and the
widest offset (5300) are met exactly, and exceeded, by entries of the instance, so
every refusal occurs. The two lengths of a CMS differ in their padding. Archives
have code in front, between and behind other entries, packed or shorter than
announced, a directory that is named like a library, a page bitmap, and nothing
but code. Two rounds suffice because the second reads what the first wrote.
`Permutations` symmetry is used in the runs without temporal properties only, over
devices and files, which the specifications never order. The runs of `Materials`
say `CHECK_DEADLOCK FALSE` because the requests are bounded and the program then
rests.

**Fairness.** Where the code may wait for ever, nothing is assumed, and a liveness
property names what it needs as a premise.

- `AppGui`: the frame loop is weakly fair (each frame asks for the next within
  100 ms), so is the timer, and so are re-sign threads, which wait for HTTP requests
  with timeouts, for the login with its deadline of 300 s, for files and for the
  credential store. Nothing is assumed of the user, nor of scan and install threads:
  the HDC commands they wait for have no timeout (`vendor/hdc/src/host/lib.rs:59`,
  `client.rs:367-386`, `434-451`, `buffer.rs:427`), and a device that is lost in the
  middle of a command does not end its client (`task.rs:475-480`, `591-595`).
  `OperationEnds` has the premise `InstallsReturn`. `KeepsScanning` and
  `ScansOneAtATime` need none: a scan that hangs stays in flight, and the slot's
  fairness is that a result that has arrived is taken.
- `HdcInline`: a thread's own steps, and not `Run`, the command at the host.
  `JobsEnd` has the premise that the job's own commands return (`Returning`), and says
  that a command of *another* thread that hangs, with the capture, does not keep it:
  it is refused as busy and fails after its attempts. `HdcUsable` has the premise that
  all commands return: a hung one, or one whose thread panics in the client, keeps the
  capture for the life of the process.
- `Materials`: the worker's steps (HTTP calls have timeouts), AGC listing and
  completing a record it accepted, and the user asking again; faults are finitely
  many by `MaxFaults`. The premise of `PreparedInTheEnd` is that at most one
  certificate is a foreign one or one of a lost key: with three the request is
  refused, rightly, until the user deletes one, and with two a certificate of our own
  that is still incomplete fills the limit for a while (a listed hazard).
- `AgcClient`: a request is answered or fails (a timeout of 60 s).
- `LoginCallback`: a login's thread runs (a read ends after two seconds) and its
  deadline passes; that the browser comes, or ever stops to come, is not assumed, and
  that `accept` fails is possible and never due.

**Every property can fail.** For each one `PROJECT.json` names a mutant, an
operator next to the definition it replaces (comment "Mutant:") that makes a
plausible mistake in the code, such as a dropped guard, a reset left out or two
writes swapped, under which TLC finds the property violated.

## 4. What is proved

All theorems are for every value of the constants that satisfies the ASSUMEs: any
number of devices, files, workers, clients, requests and faults.

**`AppGuiProofs`.** `TypeCorrect`; `ScanFlagExact` (`OneScan`);
`SelectionIsListed`; `InstallsOnce`, `PushesSigned` and `NeverRedirected`; and
`ImplementsScanSlot`, the safety part of the refinement of `DeviceScanSlot`.
`InstallOnce` is not inductive: that a second `Signed` event of one worker never
comes, that the shown file has an install only when the flag is set, and that a
signed file is on disk have to be carried along. `PipelineInv` is that
strengthening (`SignedOnTheWay`, `SignedShown`, `Captured`), proved once in
`PipelineInvariant`, one lemma per action. `OneScan` is inductive with the types
alone; it is about counting the results in the channel, and its lemmas say how
`Append` and `Tail` move them. `BusyIsAttended` is what `OperationEnds` needs
besides fairness and its premise: in a worker's phase some thread is at work or a
result is in the channel, for any number of operations that replace one another.
Alone it is not inductive, because a phase may be announced by an event that is
drained later: `ResultsBehind` says that behind every announced phase in the
channel there is a result, or a thread that will send one. For the first operation
it extends to `ReadyToInstall` (`FirstInstall`: the flag is set only with that
operation's install); that it cannot for more is the divergence of `gui_ready`.

**`MaterialsProofs`.** `TypeCorrect`. `RetriesReuseTheName`
(`OneCertificatePerKey`) for any number of workers, from `NamesBound`: a CSR and
its certificate name travel together from the moment a key is generated, through
the pending record, to AGC, which has one certificate per name.
`PendingCanBeResumed` (`PendingUnlocks`) under `OneWorker`, from `StoreInv`: what
the worker has read still agrees with the store when it writes. The assumption is
necessary, as the run `materials_two_workers` shows. The next are under `OneWorker`
as well, each from an inductive invariant that was first checked by TLC on the
instance of `materials`. `LimitRespected`
(`WithinLimit`), from `LimitInv`: from the look at the list to the upload the team
stays below the limit, since the user and AGC only free places, and a certificate
that is not listed is the team's own pending one or was missed when its key was
replaced (`uncounted`). `SuccessIsReused` (`ReuseNext`), from `ReuseInv`: up to its
last write the worker knows that what it has in hand is what the store holds.
`SeenKeysNeverLost` (`SeenKeysKept`), from `LiveInv`: the key of every certificate
that was not overlooked is in the imported pair, or it is the team's, pending or with
a certificate that can be found again; a key is generated only when the team's has no
certificate the request could see, and a pending record is removed only when its
certificate is stored. The stronger `LiveKeysKept`, without the exception, is false,
as the run `materials_keyring` shows. `ImplementsKeyLife`
(`KeyLife`): every step, faults and retries included, is a step of `KeyLifecycle`
or a stutter, from `LifeInv` with `StoreInv`.

**`AgcClientProofs`.** `NeverTwoAnswers` (`SameAnswer`), from `AnswersKept`: a
record once returned is listed, and then it is the one complete record of its name
or later calls fail as ambiguous, or it is the only record of its name.
`AnswersAreReal` (`ReturnedIsReal`), from `RealInv`: a record that is completed or
listed later keeps its id and its name. `TypeCorrect`, and `CallsAreCounted`, the
variant behind `EveryCallEnds`: `StepsLeft` counts the requests a call may still
make, each of its steps makes it smaller, and nothing that another client or AGC
does makes it larger. All four assume that there is a name to ask for
(`Names # {}`).

**`HdcInlineProofs`.** `TypeCorrect`; `AnswersAreOwn` (`OutputIsOwn`) from
`CaptureInv`: only the thread that began the capture runs a command, and its
buffer is empty until it prints; `InstalledWhenDone` (`InstallHonest`) from
`InstalledInv`: a thread comes to launch and pid only through its own answered
install; `ScansAreHonest` (`ScanHonest`) from `ScanInv`: a scan asks only targets
of its list, and ends with nothing found only if the list was empty. `OwnStep`
says once what any step of a caller can do. `JobsAreCounted` is the variant behind
`JobsEnd` (without its premise, since it counts the steps that are taken): the
commands a job may still send, the attempts left for this one and the phases left
of this attempt, in this order; a step of its thread makes it
smaller, and no step of another thread, no busy capture and no unplugged device
makes it larger. It assumes that there are finitely many targets
(`IsFiniteSet(Targets)`), and `TodoInv`: a scan's current target is one of those it
still has to probe, so that each answer leaves one less. `CaptureGivenBack`: the
capture is held exactly while the command of one thread is at the host, however
commands end. With the variant of that thread it is what `HdcUsable` rests on, and
it shows why a command that hangs is outside: the capture stays with it.

**`LoginCallbackProofs`.** `TypeCorrect`; `SavedTokenKept` (`TokenKept`), for any
number of logins that share the saved token, with `SavingInv`; `AnswersAreRight`
(`AnsweredTokenTaken`) from `AnswerInv`, under the assumption `LengthFirst` that
no POST has a header before `Content-Length`, which the run `login_post` shows to
be necessary. `LoginsAreCounted` is the variant behind `LoginEnds`: only accepting
another connection adds to the steps a login has left (nine at most), and it
accepts none from the moment its deadline has passed until it ends.

**`HapSignProofs`.** For files, limits and pages of any size. `TypeCorrect`, from
`TypeInv`, is about more than types here: no offset or length written is wider
than its field. `SignedFilesCanBeRead` (`OutputReadable`) and `VerifiersAccept`
(`VerifierAccepts`) from `LayoutInv`: rows and values are written in the order of
the blocks, one behind the other, and no two rows share an offset, so each row
finds its value. `CodeSignStaysInPlace` and `ResigningKeepsPlace`
(`CodeSignInPlace`, `ResignKeepsPlace`) from `PlaceInv`: the profile is the only
block when the offset is told, the property goes in front of it and the signer
behind. Neither holds by one stage alone: the count of blocks is carried from
`KeepBlock` to `WriteOutput`. `LevelsShrink` is the variant of the loop of
`generate_merkle_tree`; it is where a page of at least two digests is needed.

**`FoldTheorems`** holds lemmas only, which the next module cites. The properties
that follow speak of sums and concatenations over sequences of any length, which
the models write with the folds of the community modules. A fold is a recursive
function, hence a CHOOSE, and nothing is known of it until a function with its
equation is shown to exist (`AddsExists`, `FlattensExists`, `PowersExist`) and to
be the only one. The library's induction theorems take an operator as a parameter,
which the provers cannot instantiate; `NatSet` and `SubsetsSet` state induction
over numbers and over finite sets about a *set* that contains what has the
property, and are proved from the existence of minimal elements (`WFMin`), so that
any proof can cite them. From there: a sum is the same in any order and over any
naming of its terms (`TotalRemove`, `TotalRange`, `TotalReverse`), and
`FlattenContents` says at which index of a concatenation each element is.

**`HapCoverProofs`.** For archives of any entries and trees of any size.

- `CodeIsCovered` (`CodeCovered`), from `CoverInv`: while code is left, only code
  has been written, so an entry that is none is behind all code (`ArchiveLaid`),
  and the loop over the entries takes the first such entry as the end of what the
  tree covers (`Collected`); `TreesOfNatives` pairs trees and libraries.
- `AlignedIsNotRefused` (`AlignedIsAccepted`), from `AcceptInv` with `CoverInv` and
  `PlaceInv`. The archive is checked twice, before it is laid out again and after,
  and the second check must not fail for what the first let pass. While it is
  written, the sizes written and the sizes left add up to those of the plan, which
  are at most those of the input; the sums run over a set and over two sequences
  in different orders. That a sum over the set of entries is the sum over the
  directory needs that no two entries have one name.
- `SigningLosesNothing` (`NothingLost`), from `NamesInv` and `BlocksInv`. The names
  written and the names left are disjoint and together those of the plan; the old
  table's properties up to the row that is read are as many as the blocks gathered
  so far, and none of these is a profile, a signer or a rotation.
- `TreesAreFound` (`TreesVerify`), from `TreesInv`: a level has
  `VerifierPages(data_len, k)` pages, that is the number of data pages divided by
  the k-th power of the digests in a page, rounded up **once**, while the code
  divides and rounds up at every level. `DivCeilTwice` says that this is the same.
  `TreeIsFound` then places the pages: the sum of the higher levels, taken from
  the top by the code and from below by the verifier, is the offset of a level
  (`TotalReverse`, `FlattenContents`).

- `SigningEnds`: every step takes `sign_hap` to a later stage, or to a later turn
  of the loop of its stage, or makes the top level of a tree smaller, until it ends
  with a file or an error. The turns of the loop that writes the archive are
  counted by the entries that are left, which are finitely many (`AcceptInv`); that
  a level shrinks is `LevelsShrink`.

`AcceptInv`, `NamesInv`, `BlocksInv` and `TreesInv` were checked by TLC on the
instance of `hap_sign` before they were proved. So were the variants of this
section and `AttendInv`, each on the instance of its component.

**Assumptions of these theorems.** `InputsAssumption` includes that no two entries
of an input have one name: all entries are seen through the zip crate
(`Cargo.toml:63`), whose archive is a map by name, in which of two headers with one
name the last wins. `LimitsAssumption`: the limits on sizes are numbers
(`code_sign.rs:19-20`). `PageAssumption`: a page holds at least two digests, and
no part of one; the code has 4096 and 32.

**Model-checked only.** Everything under fairness (`KeepsScanning`,
`OperationEnds`, the liveness of `ScansOneAtATime`, `PreparedInTheEnd`,
`EveryCallEnds`, `JobsEnd`, `HdcUsable`, `LoginEnds`), three of them under a
premise of section 3 that the code does not guarantee: the proof system has no
reasoning about ENABLED. What can be said without it is proved: the variants
`CallsAreCounted`, `JobsAreCounted` and `LoginsAreCounted`, `CaptureGivenBack` for
`HdcUsable`, `BusyIsAttended` for `OperationEnds`, and `ScanFlagExact` for
`KeepsScanning` (a scan is not started only while one runs or its result waits).
For these TLC shows in addition that a step is always possible, under the premises
where there are some, and that fairness takes it. `PreparedInTheEnd` has no such
theorem. Every safety property that a run checks is also a theorem, except those
that runs show to be violated.

## 5. Divergences found

- **A file for another device is installed** (`gui_wrong_device`). `can_start`
  (`state.rs:73`) holds in `ReadyToInstall`. A HAP dropped while the automatic
  install of the previous one starts makes a second worker, whose output path is
  the same when the input is; the first install then pushes what the second worker
  wrote for its own device.
- **A ready file that nobody installs** (`gui_ready`). `install_started`
  (`gui.rs:240`) is one flag for all operations: a stale event of a replaced
  operation lets a third start, and its `Signed` event finds the flag set.
  `ReadyToInstall` shows no button.
- **A pending key that cannot be resumed** (`materials_two_workers`). File stem
  and password entry depend on the team alone. Two workers interleave their three
  writes, the record of one stays with the password of the other, and every later
  request stops at `manager.rs:220-234`.
- **A live key that is overwritten** (`materials_keyring`). `passwords_for`
  (`workflow.rs:205`) takes an error of the credential store for "no password".
  The certified pair looks unusable, and a new key replaces it under the same
  names, while its certificate still counts towards the limit. The same comes of a
  P12 that cannot be read (`manager.rs:246-248`), and of a certificate that AGC has
  returned and does not list at the next request, which then is not counted either.
  `SeenKeysKept` states what does hold.

- **A dropped token, answered as a success** (`login_post`). `read_request`
  (`auth.rs:357`) takes the first header line with a colon and only then looks
  whether it is `Content-Length`. After any other header the length counts as 0: a
  POST whose body comes in a second segment is answered "Login successful", and
  the login goes on to wait for its deadline.

## 6. What is abstracted and what is left out

- A device is its UDID, with one HDC target. Log entries, error texts, themes,
  layout and animation are left out.
- Materials are those of one team, and the certificates those of type "1": the code
  counts only these (`manager.rs:269-272`), and also looks at records without a type,
  which the model leaves out. The reads between two writes are one step. AGC has one
  certificate per name; the number of foreign certificates only decreases.
  Certificate expiry is a revocation as far as the program can see. The order in
  which several usable certificates are tried is not fixed.
- P12, CSR, X.509, CMS, hashes and PEM are opaque.
- The bodies of HTTP requests, redaction of messages and the recognition of AGC's
  error wordings (`is_certificate_limit_message`, ...) are left out: the answer's
  meaning is chosen with `\E`.
- What an HDC command prints is one of four classes; models, pids and paths are
  left out. A scan probes the targets of its list in any order.
- A login's exchange (`temptoken`, JWT, user, teams) is one step with its outcome;
  the team that `fetch_teams` chooses is not in the model. Requests of more than
  64 KiB, which `read_request` cuts off (`auth.rs:365`), are left out.
- HAP signing: hashes, CMS structures and the contents of entries are opaque, so
  that a digest is the description of what was digested. How the ZIP library
  writes headers is modelled by the sizes it produces (30 and 46 bytes and the
  name), and an entry that is packed again gets any of the sizes `Deflated`; extra
  fields, comments, ZIP64 records and time stamps are left out. That
  the limits of all entries are checked before the loop of
  `collect_code_sign_inputs` and not in its turns makes no difference to the
  outcome.
- **Not modelled**: `hap/info.rs` (reads the bundle's name, no state),
  `agc/http.rs` (configuration of clients), the command line (one sequential call
  of the modelled signer), the rest of `vendor/` (third-party). Of the window,
  `save_selected_device` across restarts is left out; of the login, the team that
  `fetch_teams` falls back to. The outcome `PendingLocked` of `Materials` occurs
  only with two workers.

## 7. Plan

1. Done: all components with state of their own or hard arithmetic: `AppState`,
   `AppWorkflow`, `AppGui`, `DeviceScanSlot`; `Materials`, `KeyLifecycle`;
   `AgcClient`; `HdcInline`; `LoginCallback`; `HapFormat`, `CodeSign`, `HapSign`;
   and the proofs of section 4.
2. `DeviceSelection`: selection and `save_selected_device` across restarts.
3. `LoginCallback`: the team of a token, chosen by `fetch_teams` with its
   fallback, and the materials it selects.
4. Proofs: what a request of `Materials` decreases (the step behind
   `PreparedInTheEnd` that needs no ENABLED), as `CallsAreCounted`,
   `JobsAreCounted`, `LoginsAreCounted` and `SigningEnds` do for the other parts.

Modules to be proved about use recursive functions or folds, no RECURSIVE
operators.

## 8. Running it

    tlc -workers 2 -config AppGui.cfg MCAppGui
    tlc -workers 2 -config Materials.cfg MCMaterials
    tlc -workers 2 -config AgcClient.cfg MCAgcClient
    tlc -workers 2 -config HdcInline.cfg MCHdcInline
    tlc -workers 2 -config LoginCallback.cfg MCLoginCallback
    tlc -workers 2 -config HapSign.cfg MCHapSign
    tlapm AppGuiProofs.tla
    tlapm MaterialsProofs.tla
    tlapm FoldTheorems.tla
    tlapm HapCoverProofs.tla

`PROJECT.json` lists every run with its module and configuration, the mutants, and
the source lines behind each definition.
