------------------------------ MODULE Materials ------------------------------
(***************************************************************************)
(* Signing materials of one AGC team: find_local_materials and             *)
(* prepare_materials_with_api of src/materials/manager.rs, with the store  *)
(* (store.rs), the passwords in the system credential store (workflow.rs)  *)
(* and the AGC service as the code uses it.                                *)
(*                                                                         *)
(* A worker takes one step per write to the store, to the credential store *)
(* or to AGC, and one per run of reads between two of them.  Files and     *)
(* passwords survive when a worker ends; what it holds does not.           *)
(*                                                                         *)
(* Data.  A request draws a password and a certificate name, and generates *)
(* at most one key: all three are written as the number of the request.    *)
(* A P12 file is the key in it; it is encrypted with the password of the   *)
(* same number.  A certificate chain is the key it certifies.  Key 0 was   *)
(* imported with the password "123456", which every look-up tries.  The    *)
(* certificates are those of type "1": the others are neither counted nor  *)
(* looked at.                                                              *)
(***************************************************************************)
EXTENDS Integers, FiniteSets

CONSTANTS Workers,         \* resign threads, of one process or of several
          Idents,          \* file stems in the materials directory
          TeamIdent,       \* the stem generate_key_material derives from the team
          Bundles, Devices,
          Overlooks,       \* what a request may fail to see: see Oversights
          Foreign,         \* certificates of other machines at the start
          MaxRequests,     \* bound: runs of prepare_materials_with_api
          MaxFaults        \* bound: crashes, errors and revocations

\* A request goes on without a password that the credential store refuses, a file
\* of a pair that cannot be read, or a certificate AGC has issued and not listed.
Oversights == {"password", "p12", "listing"}

ASSUME MaterialsAssumption ==
  /\ TeamIdent \in Idents
  /\ Bundles # {} /\ Devices # {}
  /\ Overlooks \subseteq Oversights
  /\ Foreign \subseteq Nat
  /\ MaxRequests \in Nat /\ MaxFaults \in Nat

AGC_DEBUG_CERTIFICATE_LIMIT == 3

NoKey       == -1
ImportedKey == 0
Keys        == Nat \cup {NoKey}

Pending   == [csr : Keys, name : Keys]
NoPending == [csr |-> NoKey, name |-> NoKey]

Profiles  == [key : Keys, device : Devices]
NoProfile == [key |-> NoKey, device |-> CHOOSE d \in Devices : TRUE]

Targets  == [bundle : Bundles, device : Devices]
NoTarget == CHOOSE t \in Targets : TRUE

\* How far AGC's list has a certificate: not yet, without its URL, or whole.
Shown == {"none", "part", "all"}

Certificates == [key : Keys, name : Keys, shown : Shown]

\* What a worker holds between its steps: the file stem, the key of the P12,
\* the key of the CSR, the certificate's name and the chain downloaded for it.
Hands  == [ident : Idents, key : Keys, csr : Keys, name : Keys, chain : Keys]
NoHand == [ident |-> TeamIdent, key |-> NoKey, csr |-> NoKey, name |-> NoKey,
           chain |-> NoKey]

VARIABLES secrets,    \* secrets[i]: the password stored as "p12:<i>.p12"
          p12, cer,   \* the files <i>.p12 and <i>.cer
          pending,    \* the file <i>.pending.json
          profile,    \* the file profile_<bundle>.p7b
          certs,      \* the team's certificates in AGC made with keys known here
          foreign,    \* how many other debug certificates the team has
          overlooked, \* history: keys of certificates that were there when a
                      \* newer key was generated, and that the request did not see
          uncounted,  \* history: those of them that AGC did not list at all
          pc, req, target,
          cands,      \* cands[w]: the P12 files w can unlock
          found,      \* found[w]: the validated pending key, with its P12
          hand,
          answer,     \* answer[w]: the profile downloaded by w
          requests, faults

store     == <<secrets, p12, cer, pending, profile>>
agc       == <<certs, foreign, overlooked, uncounted>>
locals    == <<req, target, cands, found, hand, answer>>
budget    == <<requests, faults>>
vars      == <<store, agc, pc, locals, budget>>

Pcs == {"idle", "local", "store", "list", "password", "pending_p12",
        "pending_record", "upload", "lookup", "save_p12", "save_cer", "clear",
        "provision", "save_profile", "validate", "done", "failed"}
Resting == {"idle", "done", "failed"}
-----------------------------------------------------------------------------
Goto(w, from, to) == pc[w] = from /\ pc' = [pc EXCEPT ![w] = to]

\* Something outside the code goes wrong; MaxFaults bounds how often.
Fault == faults < MaxFaults /\ faults' = faults + 1

Unlocks(i) ==
  /\ p12[i] # NoKey
  /\ p12[i] = ImportedKey \/ secrets[i] = p12[i]

IsPair(i) == p12[i] # NoKey /\ cer[i] # NoKey

\* The pairs a request can use when every file and password is read.
Openable == {i \in Idents : IsPair(i) /\ Unlocks(i)}

\* The pairs it does use: one whose file cannot be read is skipped, and an error of
\* the credential store leaves the fallback password alone (passwords_for).
Opened(seen) ==
  \/ seen = Openable /\ UNCHANGED faults
  \/ /\ seen \in SUBSET Openable /\ seen # Openable
     /\ \/ "p12" \in Overlooks
        \/ "password" \in Overlooks /\ \A i \in Openable \ seen : p12[i] # ImportedKey
     /\ Fault

validate_profile(prof, device, key) == prof.device = device /\ prof.key = key

LocalMaterials(t, seen) ==
  /\ profile[t.bundle].key # NoKey
  /\ \E i \in seen : /\ cer[i] = p12[i]
                    /\ validate_profile(profile[t.bundle], t.device, cer[i])

HasPending(rec) == rec.csr # NoKey
-----------------------------------------------------------------------------
Start(w, b, d) ==
  /\ pc[w] \in Resting
  /\ requests < MaxRequests
  /\ requests' = requests + 1
  /\ req'    = [req EXCEPT ![w] = requests + 1]
  /\ target' = [target EXCEPT ![w] = [bundle |-> b, device |-> d]]
  /\ pc'     = [pc EXCEPT ![w] = "local"]
  /\ cands'  = [cands EXCEPT ![w] = {}]
  /\ found'  = [found EXCEPT ![w] = NoHand]
  /\ hand'   = [hand EXCEPT ![w] = NoHand]
  /\ answer' = [answer EXCEPT ![w] = NoProfile]
  /\ UNCHANGED <<store, agc, faults>>

FindLocal(w) ==
  /\ \E seen \in SUBSET Openable :
        /\ Opened(seen)
        /\ Goto(w, "local", IF LocalMaterials(target[w], seen) THEN "done" ELSE "store")
  /\ UNCHANGED <<store, agc, locals, requests>>
-----------------------------------------------------------------------------
(* Reading the store: the pending key first, which must be read and be     *)
(* unlocked with its own password, then the pairs, of which those that     *)
(* cannot be read are skipped.                                             *)

UnlockedPairs(seen) == {[ident |-> i, key |-> p12[i]] : i \in seen}

\* Mutant: the pending record of an earlier request is not looked for.
ReadStore_PendingIgnored(w) ==
  /\ Goto(w, "store", "list")
  /\ cands' = [cands EXCEPT ![w] = UnlockedPairs(Openable)]
  /\ UNCHANGED <<store, agc, req, target, found, hand, answer, budget>>

ReadStore(w) ==
  /\ HasPending(pending[TeamIdent]) => secrets[TeamIdent] = p12[TeamIdent]
  /\ Goto(w, "store", "list")
  /\ \E seen \in SUBSET Openable :
        /\ Opened(seen)
        /\ IF HasPending(pending[TeamIdent])
             THEN /\ found' = [found EXCEPT ![w] =
                        [ident |-> TeamIdent, key |-> p12[TeamIdent],
                         csr   |-> pending[TeamIdent].csr,
                         name  |-> pending[TeamIdent].name, chain |-> NoKey]]
                  /\ cands' = [cands EXCEPT ![w] =
                        {c \in UnlockedPairs(seen) : c.ident # TeamIdent}
                        \cup {[ident |-> TeamIdent, key |-> p12[TeamIdent]]}]
             ELSE /\ cands' = [cands EXCEPT ![w] = UnlockedPairs(seen)]
                  /\ UNCHANGED found
  /\ UNCHANGED <<store, agc, req, target, hand, answer, requests>>

\* The pending P12 is missing or its password does not unlock it; that it cannot be
\* read, or its password cannot, is an error (Abort).
PendingLocked(w) ==
  /\ HasPending(pending[TeamIdent]) /\ secrets[TeamIdent] # p12[TeamIdent]
  /\ Goto(w, "store", "failed")
  /\ UNCHANGED <<store, agc, locals, budget>>

\* Reading the store succeeds, or stops at a pending key that stays locked.
LoadStore(w) ==
  IF HasPending(pending[TeamIdent]) /\ secrets[TeamIdent] # p12[TeamIdent]
  THEN PendingLocked(w) ELSE ReadStore(w)
-----------------------------------------------------------------------------
(* The listing of the team's certificates, and what follows from it.       *)

Matching(w) == {c \in certs : c.shown = "all" /\ \E x \in cands[w] : x.key = c.key}

Listed == {c \in certs : c.shown # "none"}

\* Mutant: one certificate too many is allowed.
AtCapacity_OffByOne == Cardinality(Listed) + foreign > AGC_DEBUG_CERTIFICATE_LIMIT

AtCapacity == Cardinality(Listed) + foreign >= AGC_DEBUG_CERTIFICATE_LIMIT

\* For the history only: the certificates the request knows nothing of, because the
\* list has them not, or not whole, or because it did not open a pair it could open.
Unseen(w) ==
  {c \in certs : \/ c.shown # "all"
                 \/ /\ \E i \in Openable : p12[i] = c.key
                    /\ \A x \in cands[w] : x.key # c.key}

SelectCertificate(w) ==
  /\ Goto(w, "list", "save_p12")
  /\ \E c \in Matching(w), x \in cands[w] :
        /\ x.key = c.key
        /\ hand' = [hand EXCEPT ![w] =
             [ident |-> x.ident, key |-> x.key, csr |-> NoKey, name |-> c.name,
              chain |-> c.key]]
  /\ UNCHANGED <<store, agc, req, target, cands, found, answer, budget>>

CertificateLimit(w) ==
  /\ Matching(w) = {} /\ AtCapacity
  /\ Goto(w, "list", "failed")
  /\ UNCHANGED <<store, agc, locals, budget>>

\* Mutant: the key is sent again under the new request's name.
ResumePending_NewName(w) ==
  /\ Matching(w) = {} /\ ~AtCapacity
  /\ HasPending(found[w])
  /\ Goto(w, "list", "upload")
  /\ hand' = [hand EXCEPT ![w] = [found[w] EXCEPT !.name = req[w]]]
  /\ UNCHANGED <<store, agc, req, target, cands, found, answer, budget>>

ResumePending(w) ==
  /\ Matching(w) = {} /\ ~AtCapacity
  /\ HasPending(found[w])
  /\ Goto(w, "list", "upload")
  /\ hand' = [hand EXCEPT ![w] = found[w]]
  /\ UNCHANGED <<store, agc, req, target, cands, found, answer, budget>>

GenerateKey(w) ==
  /\ Matching(w) = {} /\ ~AtCapacity
  /\ ~HasPending(found[w])
  /\ Goto(w, "list", "password")
  /\ hand' = [hand EXCEPT ![w] =
       [ident |-> TeamIdent, key |-> req[w], csr |-> req[w], name |-> req[w],
        chain |-> NoKey]]
  /\ overlooked' = overlooked \cup {c.key : c \in Unseen(w)}
  /\ uncounted'  = uncounted \cup {c.key : c \in certs \ Listed}
  /\ UNCHANGED <<store, certs, foreign, req, target, cands, found, answer, budget>>
-----------------------------------------------------------------------------
(* A new key: its password, then its P12, then the pending record.         *)

SavePassword(w) ==
  /\ Goto(w, "password", "pending_p12")
  /\ secrets' = [secrets EXCEPT ![hand[w].ident] = hand[w].key]
  /\ UNCHANGED <<p12, cer, pending, profile, agc, locals, budget>>

\* Mutant: the pending record is written before the P12 it describes.
SavePendingP12_RecordFirst(w) ==
  /\ Goto(w, "pending_p12", "pending_record")
  /\ pending' = [pending EXCEPT ![hand[w].ident] =
                   [csr |-> hand[w].csr, name |-> hand[w].name]]
  /\ UNCHANGED <<secrets, p12, cer, profile, agc, locals, budget>>

SavePendingP12(w) ==
  /\ Goto(w, "pending_p12", "pending_record")
  /\ p12' = [p12 EXCEPT ![hand[w].ident] = hand[w].key]
  /\ UNCHANGED <<secrets, cer, pending, profile, agc, locals, budget>>

SavePendingRecord(w) ==
  /\ Goto(w, "pending_record", "upload")
  /\ pending' = [pending EXCEPT ![hand[w].ident] =
                   [csr |-> hand[w].csr, name |-> hand[w].name]]
  /\ UNCHANGED <<secrets, p12, cer, profile, agc, locals, budget>>
-----------------------------------------------------------------------------
(* The certificate.  AGC refuses a name that is taken; the client then     *)
(* looks the name up, as it does when the new record is not complete in    *)
(* AGC's answer.  The record it returns may not be in the list yet.        *)

Named(n) == {c \in certs : c.name = n}

\* direct: the answer has the complete record, whose chain is that of the CSR.
UploadCsr(w) ==
  /\ Goto(w, "upload", "lookup")
  /\ \/ Named(hand[w].name) # {} /\ UNCHANGED <<certs, hand, faults>>
     \/ /\ Named(hand[w].name) = {}
        /\ \E shown \in Shown, direct \in BOOLEAN :
             /\ certs' = certs \cup
                  {[key |-> hand[w].csr, name |-> hand[w].name, shown |-> shown]}
             /\ hand' = IF direct THEN [hand EXCEPT ![w].chain = hand[w].csr] ELSE hand
             /\ \/ shown = "all" /\ UNCHANGED faults
                \/ shown = "part" /\ ~direct /\ Fault
                \/ shown # "all" /\ "listing" \in Overlooks /\ Fault
  /\ UNCHANGED <<store, foreign, overlooked, uncounted, req, target, cands, found,
                 answer, requests>>

\* The chain of the record upload_csr returns, as a set of at most one.
Returned(w) ==
  IF hand[w].chain # NoKey THEN {hand[w].chain}
  ELSE {c.key : c \in {d \in Named(hand[w].name) : d.shown = "all"}}

\* The chain is downloaded and it is the P12's.
CertificateIssued(w) ==
  /\ hand[w].key \in Returned(w)
  /\ Goto(w, "lookup", "save_p12")
  /\ hand' = [hand EXCEPT ![w].chain = hand[w].key]
  /\ UNCHANGED <<store, agc, req, target, cands, found, answer, budget>>

\* The chain does not belong to the P12, or the certificate is gone.
CertificateRejected(w) ==
  /\ hand[w].key \notin Returned(w)
  /\ Returned(w) # {} \/ Named(hand[w].name) = {}
  /\ Goto(w, "lookup", "failed")
  /\ UNCHANGED <<store, agc, locals, budget>>
-----------------------------------------------------------------------------
(* save_key_pair, then clear_pending_key.                                  *)

\* Mutant: the pending record is removed before the certificate is stored.
SaveP12_ClearsPending(w) ==
  /\ Goto(w, "save_p12", "save_cer")
  /\ p12' = [p12 EXCEPT ![hand[w].ident] = hand[w].key]
  /\ pending' = [pending EXCEPT ![hand[w].ident] = NoPending]
  /\ UNCHANGED <<secrets, cer, profile, agc, locals, budget>>

SaveP12(w) ==
  /\ Goto(w, "save_p12", "save_cer")
  /\ p12' = [p12 EXCEPT ![hand[w].ident] = hand[w].key]
  /\ UNCHANGED <<secrets, cer, pending, profile, agc, locals, budget>>

SaveCer(w) ==
  /\ Goto(w, "save_cer", "clear")
  /\ cer' = [cer EXCEPT ![hand[w].ident] = hand[w].chain]
  /\ UNCHANGED <<secrets, p12, pending, profile, agc, locals, budget>>

\* Mutant: a record that is not there is an error, as remove_file says.
ClearPending_MustExist(w) ==
  /\ Goto(w, "clear", IF HasPending(pending[hand[w].ident]) THEN "provision" ELSE "failed")
  /\ pending' = [pending EXCEPT ![hand[w].ident] = NoPending]
  /\ UNCHANGED <<secrets, p12, cer, profile, agc, locals, budget>>

ClearPending(w) ==
  /\ Goto(w, "clear", "provision")
  /\ pending' = [pending EXCEPT ![hand[w].ident] = NoPending]
  /\ UNCHANGED <<secrets, p12, cer, profile, agc, locals, budget>>
-----------------------------------------------------------------------------
(* register_device, create_test_provision and the download of the profile, *)
(* which is stored before it is validated.                                 *)

Held(w) == {c \in certs : c.key = hand[w].chain /\ c.name = hand[w].name}

\* Mutant: the device list of the request is left empty.
CreateProvision_NoDevice(w) ==
  /\ Held(w) # {}
  /\ Goto(w, "provision", "save_profile")
  /\ answer' = [answer EXCEPT ![w] = [key |-> hand[w].chain]]
  /\ UNCHANGED <<store, agc, req, target, cands, found, hand, budget>>

CreateProvision(w) ==
  /\ Held(w) # {}
  /\ Goto(w, "provision", "save_profile")
  /\ \E d \in Devices :
        /\ answer' = [answer EXCEPT ![w] = [key |-> hand[w].chain, device |-> d]]
        /\ IF d = target[w].device THEN UNCHANGED faults ELSE Fault
  /\ UNCHANGED <<store, agc, req, target, cands, found, hand, requests>>

ProvisionRefused(w) ==
  /\ Held(w) = {}
  /\ Goto(w, "provision", "failed")
  /\ UNCHANGED <<store, agc, locals, budget>>

SaveProfile(w) ==
  /\ Goto(w, "save_profile", "validate")
  /\ profile' = [profile EXCEPT ![target[w].bundle] = answer[w]]
  /\ UNCHANGED <<secrets, p12, cer, pending, agc, locals, budget>>

\* Mutant: the device of the profile is not compared.
ValidateProfile_AnyDevice(w) ==
  /\ Goto(w, "validate", IF answer[w].key = hand[w].key THEN "done" ELSE "failed")
  /\ UNCHANGED <<store, agc, locals, budget>>

ValidateProfile(w) ==
  /\ Goto(w, "validate",
          IF validate_profile(answer[w], target[w].device, hand[w].key)
          THEN "done" ELSE "failed")
  /\ UNCHANGED <<store, agc, locals, budget>>
-----------------------------------------------------------------------------
\* An access that fails, a look-up that gives up, or the end of the process:
\* the worker is gone and the stores are as its last step left them.
Abort(w) ==
  /\ pc[w] \notin Resting
  /\ Fault
  /\ pc' = [pc EXCEPT ![w] = "failed"]
  /\ UNCHANGED <<store, agc, locals, requests>>

\* AGC: an accepted record comes into the list, and becomes complete there.
Publish ==
  /\ \E c \in certs : \E shown \in {"part", "all"} \ {c.shown} :
        /\ c.shown # "all"
        /\ certs' = (certs \ {c}) \cup {[c EXCEPT !.shown = shown]}
  /\ UNCHANGED <<store, foreign, overlooked, uncounted, pc, locals, budget>>

\* AGC: the user deletes a certificate on the page CertificateLimit names.
Revoke ==
  /\ Fault
  /\ \/ \E c \in certs : certs' = certs \ {c} /\ UNCHANGED foreign
     \/ foreign > 0 /\ foreign' = foreign - 1 /\ UNCHANGED certs
  /\ UNCHANGED <<store, overlooked, uncounted, pc, locals, requests>>
-----------------------------------------------------------------------------
\* A key pair imported before may be there, with its certificate in AGC.
Init ==
  /\ secrets = [i \in Idents |-> NoKey]
  /\ \E imported \in SUBSET (Idents \ {TeamIdent}) :
        /\ Cardinality(imported) < 2
        /\ p12 = [i \in Idents |-> IF i \in imported THEN ImportedKey ELSE NoKey]
        /\ cer = p12
        /\ certs \in SUBSET {[key |-> ImportedKey, name |-> 0, shown |-> "all"] : i \in imported}
  /\ pending = [i \in Idents |-> NoPending]
  /\ profile = [b \in Bundles |-> NoProfile]
  /\ overlooked = {} /\ uncounted = {}
  /\ foreign \in Foreign /\ Cardinality(certs) + foreign <= AGC_DEBUG_CERTIFICATE_LIMIT
  /\ pc = [w \in Workers |-> "idle"]
  /\ req = [w \in Workers |-> 0]
  /\ target = [w \in Workers |-> NoTarget]
  /\ cands = [w \in Workers |-> {}]
  /\ found = [w \in Workers |-> NoHand]
  /\ hand = [w \in Workers |-> NoHand]
  /\ answer = [w \in Workers |-> NoProfile]
  /\ requests = 0 /\ faults = 0

Work(w) ==
  \/ FindLocal(w) \/ LoadStore(w)
  \/ SelectCertificate(w) \/ CertificateLimit(w) \/ ResumePending(w)
  \/ GenerateKey(w) \/ SavePassword(w) \/ SavePendingP12(w)
  \/ SavePendingRecord(w) \/ UploadCsr(w) \/ CertificateIssued(w)
  \/ CertificateRejected(w) \/ SaveP12(w) \/ SaveCer(w) \/ ClearPending(w)
  \/ CreateProvision(w) \/ ProvisionRefused(w) \/ SaveProfile(w)
  \/ ValidateProfile(w)

Next ==
  \/ \E w \in Workers : \/ Work(w) \/ Abort(w)
                        \/ \E b \in Bundles, d \in Devices : Start(w, b, d)
  \/ Publish
  \/ Revoke

Spec == Init /\ [][Next]_vars

\* The threads run, AGC completes its records and the user asks again.
FairSpec ==
  /\ Spec
  /\ WF_vars(Publish)
  /\ \A w \in Workers :
        /\ WF_vars(Work(w))
        /\ WF_vars(\E b \in Bundles, d \in Devices : Start(w, b, d))
-----------------------------------------------------------------------------
(* Type correctness of the stores, of AGC and of the workers.              *)
TypeOK ==
  /\ secrets \in [Idents -> Keys] /\ p12 \in [Idents -> Keys]
  /\ cer \in [Idents -> Keys]     /\ pending \in [Idents -> Pending]
  /\ profile \in [Bundles -> Profiles]
  /\ certs \subseteq Certificates /\ IsFiniteSet(certs)
  /\ foreign \in Nat
  /\ uncounted \subseteq overlooked /\ overlooked \subseteq Keys
  /\ pc \in [Workers -> Pcs]      /\ req \in [Workers -> Nat]
  /\ target \in [Workers -> Targets]
  /\ cands \in [Workers -> SUBSET [ident : Idents, key : Keys]]
  /\ found \in [Workers -> Hands] /\ hand \in [Workers -> Hands]
  /\ answer \in [Workers -> Profiles]
  /\ requests \in 0..MaxRequests  /\ faults \in 0..MaxFaults

(* A pending record that is on disk can be resumed: the P12 beside it holds
   the key of its CSR and the stored password unlocks it, whatever step of
   the request that wrote it was its last. *)
PendingUnlocks ==
  \A i \in Idents : HasPending(pending[i]) =>
     p12[i] = pending[i].csr /\ secrets[i] = pending[i].csr

\* The key of a certificate is on disk, with a password that opens it.
Kept(c) == \E i \in Idents : p12[i] = c.key /\ Unlocks(i)

(* A newer key overwrites, or locks out, the key of a live certificate only when
   the request that generated it could not know that the certificate or its pair
   is there: no crash, lost answer, revocation or resumed request costs a key.
   What the code does not see it does replace (manager.rs:246-248, 273-279,
   workflow.rs:205-217). *)
SeenKeysKept == \A c \in certs : c.key \notin overlooked => Kept(c)

(* The key of a certificate in AGC is never overwritten or locked out by a newer
   key, whatever could be read: a saved key is not replaced because its password
   is not to be had (tests/material_manager.rs:191). *)
LiveKeysKept == \A c \in certs : Kept(c)

(* Retrying an upload whose answer was lost does not spend another of the
   team's few certificates on the same key. *)
OneCertificatePerKey ==
  \A c, d \in certs : c.key = d.key => c = d

(* The requests of this machine never push the team over the limit of debug
   certificates, the incomplete and the foreign ones included, but for those that
   AGC's list did not have when a new key was generated: they cannot be counted. *)
Counted == {c \in certs : c.key \notin uncounted}

WithinLimit == Cardinality(Counted) + foreign <= AGC_DEBUG_CERTIFICATE_LIMIT

(* After a successful request the next one for the same bundle and device
   finds everything on disk: files, password and profile agree. *)
ReuseNext ==
  \A w \in Workers : pc[w] = "done" => LocalMaterials(target[w], Openable)

(* The team's key seen through the store. *)
Stage ==
  IF HasPending(pending[TeamIdent]) THEN "pending"
  ELSE IF p12[TeamIdent] # NoKey /\ cer[TeamIdent] = p12[TeamIdent]
       THEN "certified" ELSE "none"

StageKey == CASE Stage = "pending"   -> pending[TeamIdent].csr
              [] Stage = "certified" -> cer[TeamIdent]
              [] OTHER               -> NoKey

Life == INSTANCE KeyLifecycle WITH stage <- Stage, key <- StageKey

(* The store implements the life cycle of a key: a pending key is given up
   only for its own certificate. *)
KeyLife == Life!Spec

(* No crash, lost answer or revocation leaves a store that every later
   request fails on: asking again succeeds in the end, when certificates of other
   machines and of keys that were lost do not fill AGC's limit (manager.rs:301). *)
PreparedInTheEnd ==
  [](foreign + Cardinality({c \in certs : ~Kept(c)}) <= 1) =>
    <>(\E w \in Workers : pc[w] = "done")
-----------------------------------------------------------------------------
(* The inductive invariants behind these properties.                       *)

\* For any number of workers: a CSR and its name stay together.
NamesBound ==
  /\ \A i \in Idents : pending[i].csr = pending[i].name
  /\ \A w \in Workers :
        /\ found[w].csr = found[w].name
        /\ pc[w] \in {"password", "pending_p12", "pending_record", "upload"} =>
             hand[w].csr = hand[w].name
  /\ \A c, d \in certs : c.key = c.name /\ (c.name = d.name => c = d)

\* For a single worker: what it holds still agrees with the store.
UpToDate(w) ==
  /\ pc[w] \in {"local", "store"} => found[w] = NoHand
  /\ pc[w] = "list" =>
       /\ \A x \in cands[w] : x.key = p12[x.ident]
       /\ found[w].csr = pending[TeamIdent].csr
       /\ HasPending(found[w]) =>
            /\ found[w].ident = TeamIdent /\ found[w].key = p12[TeamIdent]
            /\ found[w].name = pending[TeamIdent].name
  /\ pc[w] \in {"password", "pending_p12", "pending_record"} =>
       /\ hand[w].ident = TeamIdent /\ hand[w].csr = hand[w].key
       /\ ~HasPending(pending[TeamIdent])
  /\ pc[w] \in {"pending_p12", "pending_record"} => secrets[TeamIdent] = hand[w].key
  /\ pc[w] = "pending_record" => p12[TeamIdent] = hand[w].key
  /\ pc[w] \in {"upload", "lookup", "save_p12", "save_cer", "clear"} =>
       p12[hand[w].ident] = hand[w].key

StoreInv ==
  /\ PendingUnlocks
  /\ \A i \in Idents : HasPending(pending[i]) => i = TeamIdent
  /\ \A w \in Workers : UpToDate(w)

\* The certificates beside the one a request is about to upload.
Competing(w) == {c \in Counted : pc[w] = "upload" => c.name # hand[w].name}

\* Once the limit was found not to be reached, nothing fills it before the upload;
\* a certificate that is not listed is known to be missed, or is the team's own.
LimitInv ==
  /\ WithinLimit
  /\ \A c \in certs \ Listed : c.key \in uncounted \/ c.key = p12[TeamIdent]
  /\ \A w \in Workers :
        /\ pc[w] \in {"password", "pending_p12", "pending_record", "upload"} =>
             Cardinality(Competing(w)) + foreign < AGC_DEBUG_CERTIFICATE_LIMIT
        /\ pc[w] \in {"password", "pending_p12"} => \A c \in certs \ Listed : c.key \in uncounted

\* What the worker goes on with can be unlocked, and is on disk piece by piece.
Reusable(w) ==
  /\ pc[w] = "list" => \A x \in cands[w] : Unlocks(x.ident)
  /\ pc[w] \in {"password", "pending_p12", "pending_record"} => hand[w].key # NoKey
  /\ pc[w] \in {"upload", "lookup"} => /\ hand[w].csr = pending[TeamIdent].csr
                                      /\ HasPending(pending[TeamIdent])
  /\ pc[w] \in {"upload", "lookup", "save_p12", "save_cer", "clear", "provision",
               "save_profile", "validate"} =>
       Unlocks(hand[w].ident) /\ p12[hand[w].ident] = hand[w].key
  /\ pc[w] \in {"save_p12", "save_cer", "clear", "provision", "save_profile", "validate"} =>
       hand[w].chain = hand[w].key
  /\ pc[w] \in {"clear", "provision", "save_profile", "validate"} =>
       cer[hand[w].ident] = hand[w].key
  /\ pc[w] \in {"save_profile", "validate"} => answer[w].key = hand[w].key
  /\ pc[w] = "validate" => profile[target[w].bundle] = answer[w]
  /\ pc[w] = "done" => LocalMaterials(target[w], Openable)

ReuseInv == \A w \in Workers : Reusable(w)

\* Where the key of a certificate is kept: in the imported pair, or as the
\* team's key, pending or with a certificate that can be found again.
Imported(c) == /\ c.key = ImportedKey
               /\ \E i \in Idents \ {TeamIdent} : p12[i] = ImportedKey

OfTeam(c) == /\ c.key # NoKey /\ p12[TeamIdent] = c.key /\ secrets[TeamIdent] = c.key
             /\ HasPending(pending[TeamIdent]) \/ cer[TeamIdent] # NoKey

\* A key is generated only when the team's key has no certificate, or was overlooked.
LiveInv ==
  /\ \A c \in certs : c.key \in overlooked \/ Imported(c) \/ OfTeam(c)
  /\ \A w \in Workers : pc[w] \in {"password", "pending_p12", "pending_record"} =>
        \A c \in certs : c.key \in overlooked \/ Imported(c)

\* A request's key is new: it has no certificate and is not the certified one.
Fresh(w) ==
  /\ req[w] <= requests
  /\ pc[w] \in {"local", "store", "list", "password", "pending_p12", "pending_record"} =>
       cer[TeamIdent] < req[w] /\ \A c \in certs : c.key < req[w]
  /\ pc[w] \in {"password", "pending_p12", "pending_record"} => hand[w].key = req[w]
  /\ pc[w] \in {"save_p12", "save_cer"} /\ hand[w].ident = TeamIdent
     /\ ~HasPending(pending[TeamIdent]) => cer[TeamIdent] = hand[w].key

\* The team's key, when AGC has a certificate for it, is pending or certified.
LifeInv ==
  /\ p12[TeamIdent] <= requests /\ cer[TeamIdent] <= requests
  /\ \A c \in certs :
       /\ c.key <= requests
       /\ c.key = p12[TeamIdent] => HasPending(pending[TeamIdent]) \/ cer[TeamIdent] = c.key
  /\ \A w \in Workers : Fresh(w)

OneWorker == \A u, w \in Workers : u = w
=============================================================================
