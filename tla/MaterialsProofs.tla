--------------------------- MODULE MaterialsProofs ---------------------------
(***************************************************************************)
(* Proofs about Materials for any workers, stems, bundles, devices and     *)
(* bounds; where a theorem needs a single worker it says so.               *)
(***************************************************************************)
EXTENDS Materials, FiniteSetTheorems, TLAPS

(* The constants that stand for "nothing" have the types of what is missing. *)
LEMMA Nothing ==
  /\ NoKey \in Keys /\ ImportedKey \in Keys /\ ImportedKey \in Nat
  /\ NoPending \in Pending /\ NoProfile \in Profiles
  /\ NoHand \in Hands /\ NoTarget \in Targets
<1>1. NoKey \in Keys /\ ImportedKey \in Keys /\ ImportedKey \in Nat
  BY DEF NoKey, Keys, ImportedKey
<1>2. PICK d \in Devices : TRUE
  BY MaterialsAssumption
<1>3. (CHOOSE e \in Devices : TRUE) \in Devices
  BY <1>2
<1>4. NoTarget \in Targets
  <2>1. PICK b \in Bundles : TRUE
    BY MaterialsAssumption
  <2>2. [bundle |-> b, device |-> d] \in Targets
    BY DEF Targets
  <2> QED BY <2>2 DEF NoTarget
<1>5. NoPending \in Pending
  BY <1>1 DEF NoPending, Pending
<1>6. NoProfile \in Profiles
  BY <1>1, <1>3 DEF NoProfile, Profiles
<1>7. NoHand \in Hands
  BY <1>1, MaterialsAssumption DEF NoHand, Hands
<1> QED BY <1>1, <1>4, <1>5, <1>6, <1>7

(* Goto moves one worker and no other. *)
LEMMA GotoFacts ==
  ASSUME TypeOK, NEW w \in Workers, NEW a \in Pcs, NEW b \in Pcs, Goto(w, a, b)
  PROVE  /\ pc' \in [Workers -> Pcs]
         /\ pc[w] = a /\ pc'[w] = b
         /\ \A u \in Workers : u # w => pc'[u] = pc[u]
BY DEF TypeOK, Goto

\* The count of faults stays within its bound.
LEMMA FaultType ==
  ASSUME TypeOK, UNCHANGED faults \/ Fault
  PROVE  faults' \in 0..MaxFaults
BY MaterialsAssumption DEF TypeOK, Fault

(* The empty store, the optional imported pair and its certificate. *)
LEMMA TypeInit == Init => TypeOK
<1> SUFFICES ASSUME Init PROVE TypeOK
  OBVIOUS
<1>1. PICK imported \in SUBSET (Idents \ {TeamIdent}) :
        /\ p12 = [i \in Idents |-> IF i \in imported THEN ImportedKey ELSE NoKey]
        /\ cer = p12
        /\ certs \in SUBSET {[key |-> ImportedKey, name |-> 0, shown |-> "all"] : i \in imported}
  BY DEF Init
<1>2. p12 \in [Idents -> Keys] /\ cer \in [Idents -> Keys]
  BY <1>1, Nothing
<1>3. certs \subseteq Certificates /\ IsFiniteSet(certs)
  <2>1. certs \subseteq {[key |-> ImportedKey, name |-> 0, shown |-> "all"]}
    BY <1>1
  <2>2. IsFiniteSet({[key |-> ImportedKey, name |-> 0, shown |-> "all"]})
    BY FS_Singleton
  <2>3. IsFiniteSet(certs)
    BY <2>1, <2>2, FS_Subset
  <2>4. [key |-> ImportedKey, name |-> 0, shown |-> "all"] \in Certificates
    BY DEF Certificates, Keys, ImportedKey, Shown
  <2> QED BY <2>1, <2>3, <2>4
<1>4. foreign \in Nat
  BY MaterialsAssumption DEF Init
<1>5. requests \in 0..MaxRequests /\ faults \in 0..MaxFaults
  BY MaterialsAssumption DEF Init
<1>6. /\ secrets \in [Idents -> Keys] /\ pending \in [Idents -> Pending]
      /\ profile \in [Bundles -> Profiles]
  BY Nothing DEF Init
<1>7. /\ pc \in [Workers -> Pcs] /\ req \in [Workers -> Nat]
      /\ target \in [Workers -> Targets] /\ answer \in [Workers -> Profiles]
      /\ found \in [Workers -> Hands] /\ hand \in [Workers -> Hands]
  BY Nothing DEF Init, Pcs
<1>8. cands \in [Workers -> SUBSET [ident : Idents, key : Keys]]
  BY DEF Init
<1>9. uncounted \subseteq overlooked /\ overlooked \subseteq Keys
  BY DEF Init
<1> QED BY <1>2, <1>3, <1>4, <1>5, <1>6, <1>7, <1>8, <1>9 DEF TypeOK

(* A new request. *)
LEMMA StartType ==
  ASSUME TypeOK, NEW w \in Workers, NEW b \in Bundles, NEW d \in Devices, Start(w, b, d)
  PROVE  TypeOK'
<1>1. pc' \in [Workers -> Pcs]
  BY DEF TypeOK, Start, Pcs
<1>2. requests' \in 0..MaxRequests /\ req' \in [Workers -> Nat]
  BY MaterialsAssumption DEF TypeOK, Start
<1>3. /\ target' \in [Workers -> Targets] /\ answer' \in [Workers -> Profiles]
      /\ found' \in [Workers -> Hands] /\ hand' \in [Workers -> Hands]
  BY Nothing DEF TypeOK, Start, Targets
<1>4. cands' \in [Workers -> SUBSET [ident : Idents, key : Keys]]
  BY DEF TypeOK, Start
<1> QED BY <1>1, <1>2, <1>3, <1>4 DEF TypeOK, Start, store, agc

(* The pairs that can be unlocked hold keys. *)
LEMMA PairsType ==
  ASSUME TypeOK, NEW seen \in SUBSET Openable
  PROVE  UnlockedPairs(seen) \subseteq [ident : Idents, key : Keys]
BY DEF TypeOK, UnlockedPairs, Openable

(* The steps that only read. *)
LEMMA ReadType ==
  ASSUME TypeOK, NEW w \in Workers,
         FindLocal(w) \/ ReadStore(w) \/ PendingLocked(w) \/ SelectCertificate(w)
         \/ CertificateLimit(w) \/ ResumePending(w) \/ GenerateKey(w)
  PROVE  TypeOK'
<1>1. CASE FindLocal(w)
  <2>1. pc' \in [Workers -> Pcs]
    BY <1>1 DEF TypeOK, FindLocal, Goto, Pcs
  <2>2. faults' \in 0..MaxFaults
    BY <1>1, FaultType DEF FindLocal, Opened
  <2> QED BY <1>1, <2>1, <2>2 DEF TypeOK, FindLocal, store, agc, locals
<1>2. CASE ReadStore(w)
  <2>1. pc' \in [Workers -> Pcs]
    BY <1>2 DEF TypeOK, ReadStore, Goto, Pcs
  <2>2. PICK seen \in SUBSET Openable :
          /\ Opened(seen)
          /\ IF HasPending(pending[TeamIdent])
             THEN /\ found' = [found EXCEPT ![w] =
                        [ident |-> TeamIdent, key |-> p12[TeamIdent],
                         csr   |-> pending[TeamIdent].csr,
                         name  |-> pending[TeamIdent].name, chain |-> NoKey]]
                  /\ cands' = [cands EXCEPT ![w] =
                        {c \in UnlockedPairs(seen) : c.ident # TeamIdent}
                        \cup {[ident |-> TeamIdent, key |-> p12[TeamIdent]]}]
             ELSE /\ cands' = [cands EXCEPT ![w] = UnlockedPairs(seen)]
                  /\ UNCHANGED found
    BY <1>2 DEF ReadStore
  <2>3. faults' \in 0..MaxFaults
    BY <2>2, FaultType DEF Opened
  <2>4. [ident |-> TeamIdent, key |-> p12[TeamIdent], csr |-> pending[TeamIdent].csr,
         name |-> pending[TeamIdent].name, chain |-> NoKey] \in Hands
    BY Nothing, MaterialsAssumption DEF TypeOK, Hands, Pending
  <2>5. found' \in [Workers -> Hands]
    BY <2>2, <2>4 DEF TypeOK
  <2>6. [ident |-> TeamIdent, key |-> p12[TeamIdent]] \in [ident : Idents, key : Keys]
    BY MaterialsAssumption DEF TypeOK
  <2>7. cands' \in [Workers -> SUBSET [ident : Idents, key : Keys]]
    BY <2>2, <2>6, PairsType DEF TypeOK
  <2> QED BY <1>2, <2>1, <2>3, <2>5, <2>7 DEF TypeOK, ReadStore, store, agc
<1>3. CASE PendingLocked(w) \/ CertificateLimit(w)
  <2>1. pc' \in [Workers -> Pcs]
    BY <1>3 DEF TypeOK, PendingLocked, CertificateLimit, Goto, Pcs
  <2> QED BY <1>3, <2>1
          DEF TypeOK, PendingLocked, CertificateLimit, store, agc, locals, budget
<1>4. CASE SelectCertificate(w)
  <2>1. pc' \in [Workers -> Pcs]
    BY <1>4 DEF TypeOK, SelectCertificate, Goto, Pcs
  <2>2. PICK c \in Matching(w), x \in cands[w] :
          hand' = [hand EXCEPT ![w] = [ident |-> x.ident, key |-> x.key,
                     csr |-> NoKey, name |-> c.name, chain |-> c.key]]
    BY <1>4 DEF SelectCertificate
  <2>3. c \in Certificates /\ x \in [ident : Idents, key : Keys]
    BY DEF TypeOK, Matching
  <2>4. [ident |-> x.ident, key |-> x.key, csr |-> NoKey, name |-> c.name,
         chain |-> c.key] \in Hands
    BY <2>3, Nothing DEF Hands, Certificates, Keys
  <2>5. hand' \in [Workers -> Hands]
    BY <2>2, <2>4 DEF TypeOK
  <2> QED BY <1>4, <2>1, <2>5 DEF TypeOK, SelectCertificate, store, agc, budget
<1>5. CASE ResumePending(w)
  <2>1. pc' \in [Workers -> Pcs]
    BY <1>5 DEF TypeOK, ResumePending, Goto, Pcs
  <2>2. hand' \in [Workers -> Hands]
    BY <1>5 DEF TypeOK, ResumePending
  <2> QED BY <1>5, <2>1, <2>2 DEF TypeOK, ResumePending, store, agc, budget
<1>6. CASE GenerateKey(w)
  <2>1. pc' \in [Workers -> Pcs]
    BY <1>6 DEF TypeOK, GenerateKey, Goto, Pcs
  <2>2. [ident |-> TeamIdent, key |-> req[w], csr |-> req[w], name |-> req[w],
         chain |-> NoKey] \in Hands
    BY Nothing, MaterialsAssumption DEF TypeOK, Hands, Keys
  <2>3. hand' \in [Workers -> Hands]
    BY <1>6, <2>2 DEF TypeOK, GenerateKey
  <2>4. \A c \in certs : c.key \in Keys
    BY DEF TypeOK, Certificates
  <2>5. certs \ Listed \subseteq Unseen(w) /\ Unseen(w) \subseteq certs
    BY DEF Unseen, Listed
  <2>6. overlooked' \subseteq Keys /\ uncounted' \subseteq overlooked'
    BY <1>6, <2>4, <2>5 DEF TypeOK, GenerateKey
  <2> QED BY <1>6, <2>1, <2>3, <2>6 DEF TypeOK, GenerateKey, store, budget
<1> QED BY <1>1, <1>2, <1>3, <1>4, <1>5, <1>6

(* The steps that write to the store. *)
LEMMA WriteType ==
  ASSUME TypeOK, NEW w \in Workers,
         SavePassword(w) \/ SavePendingP12(w) \/ SavePendingRecord(w) \/ SaveP12(w)
         \/ SaveCer(w) \/ ClearPending(w) \/ SaveProfile(w)
  PROVE  TypeOK'
<1>1. pc' \in [Workers -> Pcs]
  BY DEF TypeOK, SavePassword, SavePendingP12, SavePendingRecord, SaveP12, SaveCer,
         ClearPending, SaveProfile, Goto, Pcs
<1>2. hand[w] \in Hands /\ answer[w] \in Profiles
  BY DEF TypeOK
<1>3. /\ hand[w].key \in Keys /\ hand[w].chain \in Keys
      /\ [csr |-> hand[w].csr, name |-> hand[w].name] \in Pending
  BY <1>2 DEF Hands, Pending
<1>4. CASE SavePassword(w)
  <2>1. secrets' \in [Idents -> Keys]
    BY <1>3, <1>4 DEF TypeOK, SavePassword
  <2> QED BY <1>1, <1>4, <2>1 DEF TypeOK, SavePassword, agc, locals, budget
<1>5. CASE SavePendingP12(w) \/ SaveP12(w)
  <2>1. p12' \in [Idents -> Keys]
    BY <1>3, <1>5 DEF TypeOK, SavePendingP12, SaveP12
  <2> QED BY <1>1, <1>5, <2>1 DEF TypeOK, SavePendingP12, SaveP12, agc, locals, budget
<1>6. CASE SavePendingRecord(w) \/ ClearPending(w)
  <2>1. pending' \in [Idents -> Pending]
    BY <1>3, <1>6, Nothing DEF TypeOK, SavePendingRecord, ClearPending
  <2> QED BY <1>1, <1>6, <2>1
          DEF TypeOK, SavePendingRecord, ClearPending, agc, locals, budget
<1>7. CASE SaveCer(w)
  <2>1. cer' \in [Idents -> Keys]
    BY <1>3, <1>7 DEF TypeOK, SaveCer
  <2> QED BY <1>1, <1>7, <2>1 DEF TypeOK, SaveCer, agc, locals, budget
<1>8. CASE SaveProfile(w)
  <2>1. profile' \in [Bundles -> Profiles]
    BY <1>2, <1>8 DEF TypeOK, SaveProfile
  <2> QED BY <1>1, <1>8, <2>1 DEF TypeOK, SaveProfile, agc, locals, budget
<1> QED BY <1>4, <1>5, <1>6, <1>7, <1>8

(* The steps that ask AGC, and those that end a request. *)
LEMMA RemoteType ==
  ASSUME TypeOK, NEW w \in Workers,
         UploadCsr(w) \/ CertificateIssued(w) \/ CertificateRejected(w)
         \/ CreateProvision(w) \/ ProvisionRefused(w) \/ ValidateProfile(w)
  PROVE  TypeOK'
<1>1. pc' \in [Workers -> Pcs]
  BY DEF TypeOK, UploadCsr, CertificateIssued, CertificateRejected, CreateProvision,
         ProvisionRefused, ValidateProfile, Goto, Pcs
<1>2. hand[w] \in Hands
  BY DEF TypeOK
<1>3. CASE UploadCsr(w)
  <2>1. faults' \in 0..MaxFaults
    BY <1>3, FaultType DEF UploadCsr
  <2>3. hand' \in [Workers -> Hands]
    <3>1. hand' = hand \/ hand' = [hand EXCEPT ![w].chain = hand[w].csr]
      BY <1>3 DEF UploadCsr
    <3>2. [hand[w] EXCEPT !.chain = hand[w].csr] \in Hands
      BY <1>2 DEF Hands
    <3>3. hand \in [Workers -> Hands]
      BY DEF TypeOK
    <3> QED BY <3>1, <3>2, <3>3
  <2>2. certs' \subseteq Certificates /\ IsFiniteSet(certs')
    <3>1. CASE UNCHANGED certs
      BY <3>1 DEF TypeOK
    <3>2. CASE certs' # certs
      <4>1. PICK shown \in Shown :
              certs' = certs \cup {[key |-> hand[w].csr, name |-> hand[w].name, shown |-> shown]}
        BY <1>3, <3>2 DEF UploadCsr
      <4>2. [key |-> hand[w].csr, name |-> hand[w].name, shown |-> shown] \in Certificates
        BY <1>2 DEF Hands, Certificates
      <4> QED BY <4>1, <4>2, FS_AddElement, ZenonT(30) DEF TypeOK
    <3> QED BY <3>1, <3>2
  <2> QED BY <1>1, <1>3, <2>1, <2>2, <2>3 DEF TypeOK, UploadCsr, store
<1>4. CASE CertificateIssued(w)
  <2>4. hand' \in [Workers -> Hands]
    BY <1>2, <1>4 DEF TypeOK, Hands, CertificateIssued
  <2> QED BY <1>1, <1>4, <2>4 DEF TypeOK, CertificateIssued, store, agc, budget
<1>5. CASE CreateProvision(w)
  <2>1. PICK d \in Devices :
          /\ answer' = [answer EXCEPT ![w] = [key |-> hand[w].chain, device |-> d]]
          /\ UNCHANGED faults \/ Fault
    BY <1>5 DEF CreateProvision
  <2>2. [key |-> hand[w].chain, device |-> d] \in Profiles
    BY <1>2 DEF Hands, Profiles
  <2>3. answer' \in [Workers -> Profiles] /\ faults' \in 0..MaxFaults
    BY <2>1, <2>2, FaultType DEF TypeOK
  <2> QED BY <1>1, <1>5, <2>3 DEF TypeOK, CreateProvision, store, agc
<1>6. CASE CertificateRejected(w) \/ ProvisionRefused(w) \/ ValidateProfile(w)
  BY <1>1, <1>6 DEF TypeOK, CertificateRejected, ProvisionRefused, ValidateProfile,
                    store, agc, locals, budget
<1> QED BY <1>3, <1>4, <1>5, <1>6

\* Any step leaves every store, every worker and AGC with a value of its type.
LEMMA TypeStep == TypeOK /\ [Next]_vars => TypeOK'
<1> SUFFICES ASSUME TypeOK, [Next]_vars PROVE TypeOK'
  OBVIOUS
<1>1. CASE \E w \in Workers : Work(w)
  BY <1>1, ReadType, WriteType, RemoteType DEF Work, LoadStore
<1>2. CASE \E w \in Workers : Abort(w)
  <2>1. PICK w \in Workers : Abort(w)
    BY <1>2
  <2>2. pc' \in [Workers -> Pcs]
    BY <2>1 DEF TypeOK, Abort, Pcs
  <2>3. faults' \in 0..MaxFaults
    BY <2>1, FaultType DEF Abort
  <2> QED BY <2>1, <2>2, <2>3 DEF TypeOK, Abort, store, agc, locals
<1>3. CASE \E w \in Workers : \E b \in Bundles, d \in Devices : Start(w, b, d)
  BY <1>3, StartType
<1>4. CASE Publish
  <2>1. PICK c \in certs, shown \in Shown : certs' = (certs \ {c}) \cup {[c EXCEPT !.shown = shown]}
    BY <1>4 DEF Publish, Shown
  <2>2. [c EXCEPT !.shown = shown] \in Certificates
    BY DEF TypeOK, Certificates
  <2>3. IsFiniteSet(certs \ {c}) /\ certs \ {c} \subseteq Certificates
    BY FS_RemoveElement DEF TypeOK
  <2>4. IsFiniteSet(certs') /\ certs' \subseteq Certificates
    BY <2>1, <2>2, <2>3, FS_AddElement
  <2> QED BY <1>4, <2>4 DEF TypeOK, Publish, store, locals, budget
<1>5. CASE Revoke
  <2>1. faults' \in 0..MaxFaults
    BY <1>5, FaultType DEF Revoke
  <2>2. CASE \E c \in certs : certs' = certs \ {c} /\ UNCHANGED foreign
    <3>1. certs' \subseteq Certificates /\ IsFiniteSet(certs')
      BY <2>2, FS_RemoveElement DEF TypeOK
    <3> QED BY <1>5, <2>1, <2>2, <3>1 DEF TypeOK, Revoke, store, locals
  <2>3. CASE foreign > 0 /\ foreign' = foreign - 1 /\ UNCHANGED certs
    <3>1. foreign' \in Nat
      BY <2>3 DEF TypeOK
    <3> QED BY <1>5, <2>1, <2>3, <3>1 DEF TypeOK, Revoke, store, locals
  <2> QED BY <1>5, <2>2, <2>3 DEF Revoke
<1>6. CASE UNCHANGED vars
  BY <1>6 DEF TypeOK, vars, store, agc, locals, budget
<1> QED BY <1>1, <1>2, <1>3, <1>4, <1>5, <1>6 DEF Next

(* The stores, the workers and AGC always hold values of their types, with
   any number of workers and whatever fails. *)
THEOREM TypeCorrect == Spec => []TypeOK
<1>1. Init => TypeOK
  BY TypeInit
<1>2. TypeOK /\ [Next]_vars => TypeOK'
  BY TypeStep
<1> QED BY <1>1, <1>2, PTL DEF Spec
-----------------------------------------------------------------------------
(* A key keeps its certificate name, with any number of workers.           *)

\* The part of NamesBound about one worker.
WorkerNames(w) ==
  /\ found[w].csr = found[w].name
  /\ pc[w] \in {"password", "pending_p12", "pending_record", "upload"} =>
       hand[w].csr = hand[w].name

\* No request is pending at the start and the only certificate is the imported one.
LEMMA NamesInit == Init => NamesBound
<1> SUFFICES ASSUME Init PROVE NamesBound
  OBVIOUS
<1>1. \A i \in Idents : pending[i].csr = pending[i].name
  BY DEF Init, NoPending
<1>2. \A w \in Workers : found[w].csr = found[w].name /\ pc[w] = "idle"
  BY DEF Init, NoHand
<1>3. PICK imported \in SUBSET (Idents \ {TeamIdent}) :
        certs \in SUBSET {[key |-> ImportedKey, name |-> 0, shown |-> "all"] : i \in imported}
  BY DEF Init
<1>4. \A c \in certs : c = [key |-> ImportedKey, name |-> 0, shown |-> "all"]
  BY <1>3
<1>5. \A c, d \in certs : c.key = c.name /\ (c.name = d.name => c = d)
  <2> SUFFICES ASSUME NEW c \in certs, NEW d \in certs
               PROVE  c.key = c.name /\ (c.name = d.name => c = d)
    OBVIOUS
  <2>1. c.key = ImportedKey /\ c.name = 0
    BY <1>4
  <2>2. c = d
    BY <1>4
  <2> QED BY <2>1, <2>2 DEF ImportedKey
<1> QED BY <1>1, <1>2, <1>5 DEF NamesBound

\* A step of w that leaves the files and AGC alone keeps the names together
\* when it keeps w's.
LEMMA NamesLocal ==
  ASSUME TypeOK, NamesBound, NEW w \in Workers,
         UNCHANGED <<pending, certs>>, WorkerNames(w)',
         \A u \in Workers : u # w => /\ pc'[u] = pc[u] /\ found'[u] = found[u]
                                    /\ hand'[u] = hand[u]
  PROVE  NamesBound'
BY DEF NamesBound, WorkerNames

\* The steps that only read keep NamesBound.
LEMMA NamesRead ==
  ASSUME TypeOK, NamesBound, NEW w \in Workers,
         FindLocal(w) \/ ReadStore(w) \/ PendingLocked(w) \/ SelectCertificate(w)
         \/ CertificateLimit(w) \/ ResumePending(w) \/ GenerateKey(w)
  PROVE  NamesBound'
<1> USE DEF store, agc, locals, budget
<1>1. CASE FindLocal(w) \/ PendingLocked(w) \/ CertificateLimit(w)
  <2>1. /\ pc'[w] \in {"done", "store", "failed"}
        /\ UNCHANGED <<pending, certs, found, hand>>
        /\ \A u \in Workers : u # w => pc'[u] = pc[u]
    BY <1>1 DEF TypeOK, FindLocal, PendingLocked, CertificateLimit, Goto
  <2>2. WorkerNames(w)'
    BY <2>1 DEF WorkerNames, NamesBound
  <2> QED BY <2>1, <2>2, NamesLocal
<1>2. CASE ReadStore(w)
  <2>1. /\ pc'[w] = "list" /\ UNCHANGED <<pending, certs, hand>>
        /\ \A u \in Workers : u # w => pc'[u] = pc[u] /\ found'[u] = found[u]
    BY <1>2 DEF TypeOK, ReadStore, Goto
  <2>2. pending[TeamIdent].csr = pending[TeamIdent].name /\ found[w].csr = found[w].name
    BY MaterialsAssumption DEF NamesBound
  <2>3. found'[w].csr = found'[w].name
    <3>1. CASE HasPending(pending[TeamIdent])
      <4>1. found' = [found EXCEPT ![w] =
              [ident |-> TeamIdent, key |-> p12[TeamIdent], csr |-> pending[TeamIdent].csr,
               name |-> pending[TeamIdent].name, chain |-> NoKey]]
        BY <1>2, <3>1 DEF ReadStore
      <4> QED BY <2>2, <4>1 DEF TypeOK
    <3>2. CASE ~HasPending(pending[TeamIdent])
      BY <1>2, <2>2, <3>2 DEF ReadStore
    <3> QED BY <3>1, <3>2
  <2>4. WorkerNames(w)'
    BY <2>1, <2>3 DEF WorkerNames
  <2> QED BY <2>1, <2>4, NamesLocal
<1>3. CASE SelectCertificate(w)
  <2>1. /\ pc'[w] = "save_p12" /\ UNCHANGED <<pending, certs, found>>
        /\ \A u \in Workers : u # w => pc'[u] = pc[u] /\ hand'[u] = hand[u]
    BY <1>3 DEF TypeOK, SelectCertificate, Goto
  <2>2. WorkerNames(w)'
    BY <2>1 DEF WorkerNames, NamesBound
  <2> QED BY <2>1, <2>2, NamesLocal
<1>4. CASE ResumePending(w) \/ GenerateKey(w)
  <2>1. /\ UNCHANGED <<pending, certs, found>>
        /\ \A u \in Workers : u # w => pc'[u] = pc[u] /\ hand'[u] = hand[u]
    BY <1>4 DEF TypeOK, ResumePending, GenerateKey, Goto
  <2>2. found[w].csr = found[w].name
    BY DEF NamesBound
  <2>3. hand'[w].csr = hand'[w].name
    BY <1>4, <2>2 DEF TypeOK, ResumePending, GenerateKey
  <2>4. WorkerNames(w)'
    BY <2>1, <2>2, <2>3 DEF WorkerNames
  <2> QED BY <2>1, <2>4, NamesLocal
<1> QED BY <1>1, <1>2, <1>3, <1>4

\* The steps that write to the store keep NamesBound.
LEMMA NamesWrite ==
  ASSUME TypeOK, NamesBound, NEW w \in Workers,
         SavePassword(w) \/ SavePendingP12(w) \/ SavePendingRecord(w) \/ SaveP12(w)
         \/ SaveCer(w) \/ ClearPending(w) \/ SaveProfile(w)
  PROVE  NamesBound'
<1> USE DEF store, agc, locals, budget
<1>1. /\ UNCHANGED <<certs, found, hand>>
      /\ \A u \in Workers : u # w => pc'[u] = pc[u]
  BY DEF TypeOK, SavePassword, SavePendingP12, SavePendingRecord, SaveP12, SaveCer,
         ClearPending, SaveProfile, Goto
<1>2. pc'[w] \in {"password", "pending_p12", "pending_record", "upload"} =>
        pc[w] \in {"password", "pending_p12", "pending_record", "upload"}
  BY DEF TypeOK, SavePassword, SavePendingP12, SavePendingRecord, SaveP12, SaveCer,
         ClearPending, SaveProfile, Goto
<1>3. WorkerNames(w)'
  BY <1>1, <1>2 DEF WorkerNames, NamesBound
<1>4. \A i \in Idents : pending'[i].csr = pending'[i].name
  <2>1. CASE SavePendingRecord(w)
    <3>1. hand[w].csr = hand[w].name
      BY <2>1 DEF SavePendingRecord, Goto, NamesBound
    <3> QED BY <2>1, <3>1 DEF SavePendingRecord, TypeOK, NamesBound
  <2>2. CASE ClearPending(w)
    BY <2>2 DEF ClearPending, TypeOK, NamesBound, NoPending
  <2>3. CASE UNCHANGED pending
    BY <2>3 DEF NamesBound
  <2> QED BY <2>1, <2>2, <2>3
          DEF SavePassword, SavePendingP12, SaveP12, SaveCer, SaveProfile
<1> QED BY <1>1, <1>3, <1>4 DEF NamesBound, WorkerNames

\* The steps that ask AGC, and those that end a request, keep NamesBound.
LEMMA NamesRemote ==
  ASSUME TypeOK, NamesBound, NEW w \in Workers,
         UploadCsr(w) \/ CertificateIssued(w) \/ CertificateRejected(w)
         \/ CreateProvision(w) \/ ProvisionRefused(w) \/ ValidateProfile(w)
  PROVE  NamesBound'
<1> USE DEF store, agc, locals, budget
<1>1. CASE UploadCsr(w)
  <2>1. /\ UNCHANGED <<pending, found>> /\ pc[w] = "upload" /\ pc'[w] = "lookup"
        /\ \A u \in Workers : u # w => pc'[u] = pc[u] /\ hand'[u] = hand[u]
    BY <1>1 DEF TypeOK, UploadCsr, Goto
  <2>2. \A c, d \in certs' : c.key = c.name /\ (c.name = d.name => c = d)
    <3>1. CASE UNCHANGED certs
      BY <3>1 DEF NamesBound
    <3>2. CASE ~UNCHANGED certs
      <4>1. Named(hand[w].name) = {}
        BY <1>1, <3>2 DEF UploadCsr
      <4>2. PICK shown \in Shown :
              certs' = certs \cup {[key |-> hand[w].csr, name |-> hand[w].name, shown |-> shown]}
        BY <1>1, <3>2 DEF UploadCsr
      <4>3. hand[w].csr = hand[w].name
        BY <2>1 DEF NamesBound
      <4>4. \A c \in certs : c.name # hand[w].name
        BY <4>1 DEF Named
      <4> DEFINE new == [key |-> hand[w].csr, name |-> hand[w].name, shown |-> shown]
      <4>5. new.key = new.name /\ \A c \in certs : c.name # new.name
        BY <4>3, <4>4
      <4>6. certs' = certs \cup {new}
        BY <4>2
      <4> HIDE DEF new
      <4> QED BY <4>5, <4>6 DEF NamesBound
    <3> QED BY <3>1, <3>2
  <2>3. \A u \in Workers : WorkerNames(u)'
    BY <2>1 DEF NamesBound, WorkerNames
  <2> QED BY <2>1, <2>2, <2>3 DEF NamesBound, WorkerNames
<1>2. CASE CertificateIssued(w)
  <2>1. /\ UNCHANGED <<pending, certs, found>> /\ pc'[w] = "save_p12"
        /\ \A u \in Workers : u # w => pc'[u] = pc[u] /\ hand'[u] = hand[u]
    BY <1>2 DEF TypeOK, CertificateIssued, Goto
  <2>2. WorkerNames(w)'
    BY <2>1 DEF WorkerNames, NamesBound
  <2> QED BY <2>1, <2>2, NamesLocal
<1>3. CASE CertificateRejected(w) \/ CreateProvision(w) \/ ProvisionRefused(w)
           \/ ValidateProfile(w)
  <2>1. /\ UNCHANGED <<pending, certs, found, hand>>
        /\ pc'[w] \in {"failed", "save_profile", "done"}
        /\ \A u \in Workers : u # w => pc'[u] = pc[u]
    BY <1>3 DEF TypeOK, CertificateRejected, CreateProvision, ProvisionRefused,
                ValidateProfile, Goto
  <2>2. WorkerNames(w)'
    BY <2>1 DEF WorkerNames, NamesBound
  <2> QED BY <2>1, <2>2, NamesLocal
<1> QED BY <1>1, <1>2, <1>3

\* Every step keeps NamesBound.
LEMMA NamesStep == TypeOK /\ NamesBound /\ [Next]_vars => NamesBound'
<1> SUFFICES ASSUME TypeOK, NamesBound, [Next]_vars PROVE NamesBound'
  OBVIOUS
<1> USE DEF store, agc, locals, budget
<1>1. CASE \E w \in Workers : Work(w)
  BY <1>1, NamesRead, NamesWrite, NamesRemote DEF Work, LoadStore
<1>2. CASE \E w \in Workers : Abort(w)
  <2>1. PICK w \in Workers : Abort(w)
    BY <1>2
  <2>2. /\ UNCHANGED <<pending, certs, found, hand>> /\ pc'[w] = "failed"
        /\ \A u \in Workers : u # w => pc'[u] = pc[u]
    BY <2>1 DEF TypeOK, Abort
  <2>3. WorkerNames(w)'
    BY <2>2 DEF WorkerNames, NamesBound
  <2> QED BY <2>2, <2>3, NamesLocal
<1>3. CASE \E w \in Workers : \E b \in Bundles, d \in Devices : Start(w, b, d)
  <2>1. PICK w \in Workers : \E b \in Bundles, d \in Devices : Start(w, b, d)
    BY <1>3
  <2>2. /\ UNCHANGED <<pending, certs>> /\ pc'[w] = "local" /\ found'[w] = NoHand
        /\ \A u \in Workers : u # w => /\ pc'[u] = pc[u] /\ found'[u] = found[u]
                                     /\ hand'[u] = hand[u]
    BY <2>1 DEF TypeOK, Start
  <2>3. WorkerNames(w)'
    BY <2>2 DEF WorkerNames, NoHand
  <2> QED BY <2>2, <2>3, NamesLocal
<1>4. CASE Publish
  <2>1. PICK c \in certs, shown \in Shown : certs' = (certs \ {c}) \cup {[c EXCEPT !.shown = shown]}
    BY <1>4 DEF Publish, Shown
  <2>2. c \in Certificates
    BY DEF TypeOK
  <2> DEFINE new == [c EXCEPT !.shown = shown]
  <2>3. new.key = c.key /\ new.name = c.name
    BY <2>2 DEF Certificates
  <2>4. certs' = (certs \ {c}) \cup {new}
    BY <2>1
  <2> HIDE DEF new
  <2>5. \A x, y \in certs' : x.key = x.name /\ (x.name = y.name => x = y)
    BY <2>3, <2>4 DEF NamesBound
  <2> QED BY <1>4, <2>5 DEF Publish, NamesBound
<1>5. CASE Revoke
  <2>1. certs' \subseteq certs /\ UNCHANGED <<pending, found, hand, pc>>
    BY <1>5 DEF Revoke
  <2> QED BY <2>1 DEF NamesBound
<1>6. CASE UNCHANGED vars
  BY <1>6 DEF NamesBound, vars
<1> QED BY <1>1, <1>2, <1>3, <1>4, <1>5, <1>6 DEF Next

(* However often an upload is retried, and with any number of workers, a key
   has at most one certificate: its name is stored with it, and AGC refuses a
   name that is taken. *)
THEOREM RetriesReuseTheName == Spec => []OneCertificatePerKey
<1>1. Init => TypeOK /\ NamesBound
  BY TypeInit, NamesInit
<1>2. TypeOK /\ NamesBound /\ [Next]_vars => (TypeOK /\ NamesBound)'
  BY TypeStep, NamesStep
<1>3. NamesBound => OneCertificatePerKey
  BY DEF NamesBound, OneCertificatePerKey
<1> QED BY <1>1, <1>2, <1>3, PTL DEF Spec
-----------------------------------------------------------------------------
(* A pending key can be resumed, with a single worker.                     *)

\* The part of StoreInv about the files alone.
RecordsOK ==
  /\ PendingUnlocks
  /\ \A i \in Idents : HasPending(pending[i]) => i = TeamIdent

\* With a single worker, only what that worker holds has to be looked at.
LEMMA OneIsAll ==
  ASSUME OneWorker, NEW w \in Workers, RecordsOK', UpToDate(w)'
  PROVE  StoreInv'
BY DEF OneWorker, StoreInv, RecordsOK

\* StoreInv holds of the first store, which has no pending record.
LEMMA StoreInit == Init => StoreInv
<1> SUFFICES ASSUME Init PROVE StoreInv
  OBVIOUS
<1>1. \A i \in Idents : ~HasPending(pending[i])
  BY DEF Init, HasPending, NoPending
<1>2. \A w \in Workers : pc[w] = "idle"
  BY DEF Init
<1> QED BY <1>1, <1>2 DEF StoreInv, PendingUnlocks, UpToDate

\* What the worker that moves knows before its step.
LEMMA StoreFacts ==
  ASSUME TypeOK, StoreInv, NEW w \in Workers
  PROVE  RecordsOK /\ UpToDate(w)
BY DEF StoreInv, RecordsOK

\* The steps that only read keep StoreInv.
LEMMA StoreRead ==
  ASSUME OneWorker, TypeOK, StoreInv, NEW w \in Workers,
         FindLocal(w) \/ ReadStore(w) \/ PendingLocked(w) \/ SelectCertificate(w)
         \/ CertificateLimit(w) \/ ResumePending(w) \/ GenerateKey(w)
  PROVE  StoreInv'
<1> USE DEF agc, locals, budget
<1>1. RecordsOK /\ UpToDate(w)
  BY StoreFacts
<1>2. UNCHANGED <<secrets, p12, cer, pending, profile>>
  BY DEF store, FindLocal, ReadStore, PendingLocked, SelectCertificate,
         CertificateLimit, ResumePending, GenerateKey
<1>3. RecordsOK'
  BY <1>1, <1>2 DEF RecordsOK, PendingUnlocks
<1>4. CASE FindLocal(w) \/ PendingLocked(w) \/ CertificateLimit(w)
  <2>1. /\ pc'[w] \in {"done", "store", "failed"} /\ UNCHANGED <<found, hand, cands>>
        /\ pc'[w] = "store" => pc[w] = "local"
    BY <1>4 DEF TypeOK, FindLocal, PendingLocked, CertificateLimit, Goto
  <2>2. UpToDate(w)'
    BY <1>1, <1>2, <2>1 DEF UpToDate
  <2> QED BY <1>3, <2>2, OneIsAll
<1>5. CASE ReadStore(w)
  <2>1. pc[w] = "store" /\ pc'[w] = "list" /\ found[w] = NoHand
    BY <1>1, <1>5 DEF TypeOK, ReadStore, Goto, UpToDate
  <2>2. /\ \A x \in cands'[w] : x.key = p12[x.ident]
        /\ found'[w].csr = pending[TeamIdent].csr
        /\ HasPending(found'[w]) =>
             /\ found'[w].ident = TeamIdent /\ found'[w].key = p12[TeamIdent]
             /\ found'[w].name = pending[TeamIdent].name
    <3>1. \A seen \in SUBSET Openable : \A x \in UnlockedPairs(seen) : x.key = p12[x.ident]
      BY DEF UnlockedPairs
    <3>2. CASE HasPending(pending[TeamIdent])
      <4>1. PICK seen \in SUBSET Openable :
              /\ found' = [found EXCEPT ![w] =
                   [ident |-> TeamIdent, key |-> p12[TeamIdent],
                    csr |-> pending[TeamIdent].csr,
                    name |-> pending[TeamIdent].name, chain |-> NoKey]]
              /\ cands' = [cands EXCEPT ![w] =
                   {c \in UnlockedPairs(seen) : c.ident # TeamIdent}
                   \cup {[ident |-> TeamIdent, key |-> p12[TeamIdent]]}]
        BY <1>5, <3>2 DEF ReadStore
      <4>2. cands'[w] = {c \in UnlockedPairs(seen) : c.ident # TeamIdent}
                        \cup {[ident |-> TeamIdent, key |-> p12[TeamIdent]]}
        BY <4>1 DEF TypeOK
      <4>3. \A x \in cands'[w] : x.key = p12[x.ident]
        BY <3>1, <4>2
      <4> QED BY <4>1, <4>3 DEF TypeOK
    <3>3. CASE ~HasPending(pending[TeamIdent])
      <4>1. PICK seen \in SUBSET Openable :
              cands' = [cands EXCEPT ![w] = UnlockedPairs(seen)] /\ UNCHANGED found
        BY <1>5, <3>3 DEF ReadStore
      <4>2. cands'[w] = UnlockedPairs(seen)
        BY <4>1 DEF TypeOK
      <4>3. found'[w].csr = NoKey /\ pending[TeamIdent].csr = NoKey
        BY <2>1, <3>3, <4>1 DEF HasPending, NoHand
      <4> QED BY <3>1, <4>2, <4>3 DEF HasPending
    <3> QED BY <3>2, <3>3
  <2>3. UpToDate(w)'
    BY <1>2, <2>1, <2>2 DEF UpToDate, HasPending
  <2> QED BY <1>3, <2>3, OneIsAll
<1>6. CASE SelectCertificate(w)
  <2>1. pc[w] = "list" /\ pc'[w] = "save_p12"
    BY <1>6 DEF TypeOK, SelectCertificate, Goto
  <2>2. PICK x \in cands[w] : hand'[w].ident = x.ident /\ hand'[w].key = x.key
    BY <1>6 DEF TypeOK, SelectCertificate
  <2>3. hand'[w].key = p12[hand'[w].ident]
    BY <1>1, <2>1, <2>2 DEF UpToDate
  <2>4. UpToDate(w)'
    BY <1>2, <2>1, <2>3 DEF UpToDate
  <2> QED BY <1>3, <2>4, OneIsAll
<1>7. CASE ResumePending(w)
  <2>1. /\ pc[w] = "list" /\ pc'[w] = "upload" /\ HasPending(found[w])
        /\ hand'[w] = found[w]
    BY <1>7 DEF TypeOK, ResumePending, Goto
  <2>2. found[w].ident = TeamIdent /\ found[w].key = p12[TeamIdent]
    BY <1>1, <2>1 DEF UpToDate
  <2>3. UpToDate(w)'
    BY <1>2, <2>1, <2>2 DEF UpToDate
  <2> QED BY <1>3, <2>3, OneIsAll
<1>8. CASE GenerateKey(w)
  <2>1. /\ pc[w] = "list" /\ pc'[w] = "password" /\ ~HasPending(found[w])
        /\ hand'[w] = [ident |-> TeamIdent, key |-> req[w], csr |-> req[w],
                       name |-> req[w], chain |-> NoKey]
    BY <1>8 DEF TypeOK, GenerateKey, Goto
  <2>2. ~HasPending(pending[TeamIdent])
    BY <1>1, <2>1 DEF UpToDate, HasPending
  <2>3. UpToDate(w)'
    BY <1>2, <2>1, <2>2 DEF UpToDate, HasPending
  <2> QED BY <1>3, <2>3, OneIsAll
<1> QED BY <1>4, <1>5, <1>6, <1>7, <1>8

\* The steps that write to the store keep StoreInv.
LEMMA StoreWrite ==
  ASSUME OneWorker, TypeOK, StoreInv, NEW w \in Workers,
         SavePassword(w) \/ SavePendingP12(w) \/ SavePendingRecord(w) \/ SaveP12(w)
         \/ SaveCer(w) \/ ClearPending(w) \/ SaveProfile(w)
  PROVE  StoreInv'
<1> USE DEF agc, locals, budget
<1>1. RecordsOK /\ UpToDate(w)
  BY StoreFacts
<1>2. UNCHANGED <<found, hand, cands>> /\ hand[w] \in Hands
  BY DEF TypeOK, SavePassword, SavePendingP12, SavePendingRecord, SaveP12, SaveCer,
         ClearPending, SaveProfile
<1>3. CASE SavePassword(w)
  <2>1. /\ pc[w] = "password" /\ pc'[w] = "pending_p12"
        /\ UNCHANGED <<p12, pending>>
        /\ secrets' = [secrets EXCEPT ![hand[w].ident] = hand[w].key]
    BY <1>3 DEF TypeOK, SavePassword, Goto
  <2>2. /\ hand[w].ident = TeamIdent /\ hand[w].csr = hand[w].key
        /\ ~HasPending(pending[TeamIdent])
    BY <1>1, <2>1 DEF UpToDate
  <2>3. \A i \in Idents : ~HasPending(pending[i])
    BY <1>1, <2>2 DEF RecordsOK
  <2>4. RecordsOK'
    BY <2>1, <2>3 DEF RecordsOK, PendingUnlocks
  <2>5. secrets'[TeamIdent] = hand[w].key
    BY <2>1, <2>2, MaterialsAssumption DEF TypeOK
  <2>6. UpToDate(w)'
    BY <1>2, <2>1, <2>2, <2>5 DEF UpToDate
  <2> QED BY <2>4, <2>6, OneIsAll
<1>4. CASE SavePendingP12(w)
  <2>1. /\ pc[w] = "pending_p12" /\ pc'[w] = "pending_record"
        /\ UNCHANGED <<secrets, pending>>
        /\ p12' = [p12 EXCEPT ![hand[w].ident] = hand[w].key]
    BY <1>4 DEF TypeOK, SavePendingP12, Goto
  <2>2. /\ hand[w].ident = TeamIdent /\ hand[w].csr = hand[w].key
        /\ ~HasPending(pending[TeamIdent]) /\ secrets[TeamIdent] = hand[w].key
    BY <1>1, <2>1 DEF UpToDate
  <2>3. \A i \in Idents : ~HasPending(pending[i])
    BY <1>1, <2>2 DEF RecordsOK
  <2>4. RecordsOK'
    BY <2>1, <2>3 DEF RecordsOK, PendingUnlocks
  <2>5. p12'[TeamIdent] = hand[w].key
    BY <2>1, <2>2, MaterialsAssumption DEF TypeOK
  <2>6. UpToDate(w)'
    BY <1>2, <2>1, <2>2, <2>5 DEF UpToDate
  <2> QED BY <2>4, <2>6, OneIsAll
<1>5. CASE SavePendingRecord(w)
  <2>1. /\ pc[w] = "pending_record" /\ pc'[w] = "upload"
        /\ UNCHANGED <<secrets, p12>>
        /\ pending' = [pending EXCEPT ![hand[w].ident] =
                         [csr |-> hand[w].csr, name |-> hand[w].name]]
    BY <1>5 DEF TypeOK, SavePendingRecord, Goto
  <2>2. /\ hand[w].ident = TeamIdent /\ hand[w].csr = hand[w].key
        /\ secrets[TeamIdent] = hand[w].key /\ p12[TeamIdent] = hand[w].key
    BY <1>1, <2>1 DEF UpToDate
  <2>3. /\ pending'[TeamIdent].csr = hand[w].key
        /\ \A i \in Idents : i # TeamIdent => pending'[i] = pending[i]
    BY <2>1, <2>2, MaterialsAssumption DEF TypeOK
  <2>4. RecordsOK'
    BY <1>1, <2>1, <2>2, <2>3 DEF RecordsOK, PendingUnlocks
  <2>5. UpToDate(w)'
    BY <1>2, <2>1, <2>2 DEF UpToDate
  <2> QED BY <2>4, <2>5, OneIsAll
<1>6. CASE SaveP12(w)
  <2>1. /\ pc[w] = "save_p12" /\ pc'[w] = "save_cer"
        /\ UNCHANGED <<secrets, pending>>
        /\ p12' = [p12 EXCEPT ![hand[w].ident] = hand[w].key]
    BY <1>6 DEF TypeOK, SaveP12, Goto
  <2>2. p12[hand[w].ident] = hand[w].key
    BY <1>1, <2>1 DEF UpToDate
  <2>3. p12' = p12
    BY <2>1, <2>2 DEF TypeOK
  <2>4. RecordsOK'
    BY <1>1, <2>1, <2>3 DEF RecordsOK, PendingUnlocks
  <2>5. UpToDate(w)'
    BY <1>2, <2>1, <2>2, <2>3 DEF UpToDate
  <2> QED BY <2>4, <2>5, OneIsAll
<1>7. CASE SaveCer(w) \/ SaveProfile(w)
  <2>1. /\ UNCHANGED <<secrets, p12, pending>> /\ pc'[w] \in {"clear", "validate"}
        /\ pc'[w] = "clear" => pc[w] = "save_cer"
    BY <1>7 DEF TypeOK, SaveCer, SaveProfile, Goto
  <2>2. RecordsOK'
    BY <1>1, <2>1 DEF RecordsOK, PendingUnlocks
  <2>3. UpToDate(w)'
    BY <1>1, <1>2, <2>1 DEF UpToDate
  <2> QED BY <2>2, <2>3, OneIsAll
<1>8. CASE ClearPending(w)
  <2>1. /\ pc'[w] = "provision" /\ UNCHANGED <<secrets, p12>>
        /\ pending' = [pending EXCEPT ![hand[w].ident] = NoPending]
    BY <1>8 DEF TypeOK, ClearPending, Goto
  <2>2. \A i \in Idents : HasPending(pending'[i]) => pending'[i] = pending[i]
    BY <2>1 DEF TypeOK, HasPending, NoPending
  <2>3. RecordsOK'
    BY <1>1, <2>1, <2>2 DEF RecordsOK, PendingUnlocks
  <2>4. UpToDate(w)'
    BY <2>1 DEF UpToDate
  <2> QED BY <2>3, <2>4, OneIsAll
<1> QED BY <1>3, <1>4, <1>5, <1>6, <1>7, <1>8

\* The steps that ask AGC, and those that end a request, keep StoreInv.
LEMMA StoreRemote ==
  ASSUME OneWorker, TypeOK, StoreInv, NEW w \in Workers,
         UploadCsr(w) \/ CertificateIssued(w) \/ CertificateRejected(w)
         \/ CreateProvision(w) \/ ProvisionRefused(w) \/ ValidateProfile(w)
  PROVE  StoreInv'
<1> USE DEF store, agc, locals, budget
<1>1. RecordsOK /\ UpToDate(w)
  BY StoreFacts
<1>2. UNCHANGED <<secrets, p12, pending>>
  BY DEF UploadCsr, CertificateIssued, CertificateRejected, CreateProvision,
         ProvisionRefused, ValidateProfile
<1>3. RecordsOK'
  BY <1>1, <1>2 DEF RecordsOK, PendingUnlocks
<1>4. CASE UploadCsr(w) \/ CertificateIssued(w)
  <2>1. /\ pc[w] \in {"upload", "lookup"} /\ pc'[w] \in {"lookup", "save_p12"}
        /\ hand'[w].ident = hand[w].ident /\ hand'[w].key = hand[w].key
    BY <1>4 DEF TypeOK, UploadCsr, CertificateIssued, Goto, Hands
  <2>2. UpToDate(w)'
    BY <1>1, <1>2, <2>1 DEF UpToDate
  <2> QED BY <1>3, <2>2, OneIsAll
<1>5. CASE ~(UploadCsr(w) \/ CertificateIssued(w))
  <2>1. pc'[w] \in {"failed", "save_profile", "done"}
    BY <1>5 DEF TypeOK, CertificateRejected, CreateProvision, ProvisionRefused,
                ValidateProfile, Goto
  <2>2. UpToDate(w)'
    BY <2>1 DEF UpToDate
  <2> QED BY <1>3, <2>2, OneIsAll
<1> QED BY <1>4, <1>5

\* Every step of the one worker keeps StoreInv.
LEMMA StoreStep == OneWorker /\ TypeOK /\ StoreInv /\ [Next]_vars => StoreInv'
<1> SUFFICES ASSUME OneWorker, TypeOK, StoreInv, [Next]_vars PROVE StoreInv'
  OBVIOUS
<1> USE DEF store, agc, locals, budget
<1>1. CASE \E w \in Workers : Work(w)
  BY <1>1, StoreRead, StoreWrite, StoreRemote DEF Work, LoadStore
<1>2. CASE \E w \in Workers : Abort(w)
  <2>1. PICK w \in Workers : Abort(w)
    BY <1>2
  <2>2. UNCHANGED <<secrets, p12, pending>> /\ pc'[w] = "failed"
    BY <2>1 DEF TypeOK, Abort
  <2>3. RecordsOK' /\ UpToDate(w)'
    BY <2>2, StoreFacts DEF RecordsOK, PendingUnlocks, UpToDate
  <2> QED BY <2>3, OneIsAll
<1>3. CASE \E w \in Workers : \E b \in Bundles, d \in Devices : Start(w, b, d)
  <2>1. PICK w \in Workers : \E b \in Bundles, d \in Devices : Start(w, b, d)
    BY <1>3
  <2>2. /\ UNCHANGED <<secrets, p12, pending>>
        /\ pc'[w] = "local" /\ found'[w] = NoHand
    BY <2>1 DEF TypeOK, Start
  <2>3. RecordsOK' /\ UpToDate(w)'
    BY <2>2, StoreFacts DEF RecordsOK, PendingUnlocks, UpToDate
  <2> QED BY <2>3, OneIsAll
<1>4. CASE Publish \/ Revoke \/ UNCHANGED vars
  <2>1. UNCHANGED <<secrets, p12, pending, pc, found, hand, cands>>
    BY <1>4 DEF Publish, Revoke, vars
  <2> QED BY <2>1 DEF StoreInv, PendingUnlocks, UpToDate
<1> QED BY <1>1, <1>2, <1>3, <1>4 DEF Next

(* With a single worker, a pending record on disk can always be resumed: no
   crash, error or revocation leaves one whose P12 or password is not its
   own. *)
THEOREM PendingCanBeResumed == ASSUME OneWorker PROVE Spec => []PendingUnlocks
<1>1. Init => TypeOK /\ StoreInv
  BY TypeInit, StoreInit
<1>2. TypeOK /\ StoreInv /\ [Next]_vars => (TypeOK /\ StoreInv)'
  BY OneWorker, TypeStep, StoreStep
<1>3. StoreInv => PendingUnlocks
  BY DEF StoreInv
<1> QED BY <1>1, <1>2, <1>3, PTL DEF Spec
-----------------------------------------------------------------------------
(***************************************************************************)
(* What a single worker does with the keys and certificates of its team:   *)
(* the limit is respected, what a request leaves is found by the next, and *)
(* the key of a live certificate is never lost.                            *)
(***************************************************************************)
\* With a single worker, another one is the same.
LEMMA OnlyOne ==
  ASSUME OneWorker, NEW w \in Workers, NEW u \in Workers
  PROVE  u = w
BY DEF OneWorker

\* What AGC does to its list leaves it with no key that it had not.
LEMMA SameKeys ==
  ASSUME TypeOK, Publish \/ Revoke
  PROVE  \A c \in certs' : \E d \in certs : c.key = d.key
<1>1. CASE Publish
  <2>1. PICK d \in certs, shown \in {"part", "all"} :
          certs' = (certs \ {d}) \cup {[d EXCEPT !.shown = shown]}
    BY <1>1 DEF Publish
  <2> DEFINE new == [d EXCEPT !.shown = shown]
  <2>2. new.key = d.key
    BY DEF TypeOK, Certificates
  <2>3. \A c \in certs' : c \in certs \/ c = new
    BY <2>1
  <2> HIDE DEF new
  <2> QED BY <2>2, <2>3
<1>2. CASE Revoke
  BY <1>2 DEF Revoke
<1> QED BY <1>1, <1>2

-----------------------------------------------------------------------------
(* What a successful request leaves.                                       *)

\* With a single worker, only what that worker does has to be looked at.
LEMMA ReusableIsAll ==
  ASSUME OneWorker, NEW w \in Workers, Reusable(w)'
  PROVE  ReuseInv'
BY DEF OneWorker, ReuseInv

\* Materials that are found although something is not read are found when it is.
LEMMA SeenIsEnough ==
  ASSUME NEW t, NEW seen \in SUBSET Openable, LocalMaterials(t, seen)
  PROVE  LocalMaterials(t, Openable)
BY DEF LocalMaterials

\* A pending key can be unlocked.
LEMMA PendingUnlocked ==
  ASSUME StoreInv, HasPending(pending[TeamIdent])
  PROVE  /\ p12[TeamIdent] = pending[TeamIdent].csr
         /\ secrets[TeamIdent] = pending[TeamIdent].csr
         /\ Unlocks(TeamIdent)
BY MaterialsAssumption DEF StoreInv, PendingUnlocks, HasPending, Unlocks

\* The steps that only read.
LEMMA ReuseRead ==
  ASSUME OneWorker, TypeOK, StoreInv, ReuseInv, NEW w \in Workers,
         FindLocal(w) \/ ReadStore(w) \/ PendingLocked(w) \/ SelectCertificate(w)
         \/ CertificateLimit(w) \/ ResumePending(w) \/ GenerateKey(w)
  PROVE  ReuseInv'
<1> USE DEF locals
<1>1. UNCHANGED store /\ Reusable(w) /\ UpToDate(w)
  BY DEF FindLocal, ReadStore, PendingLocked, SelectCertificate, CertificateLimit,
         ResumePending, GenerateKey, ReuseInv, StoreInv
<1>2. UNCHANGED <<secrets, p12, cer, pending, profile>>
  BY <1>1 DEF store
<1>3. CASE FindLocal(w) \/ PendingLocked(w) \/ CertificateLimit(w)
  <2>1. /\ pc'[w] \in {"done", "store", "failed"} /\ UNCHANGED <<target, hand, cands, answer>>
        /\ pc'[w] = "done" => LocalMaterials(target[w], Openable)
    BY <1>3, SeenIsEnough DEF TypeOK, FindLocal, PendingLocked, CertificateLimit, Goto
  <2>2. pc'[w] = "done" => LocalMaterials(target[w], Openable)'
    BY <1>2, <2>1 DEF LocalMaterials, IsPair, Unlocks, Openable
  <2>3. Reusable(w)'
    BY <2>1, <2>2 DEF Reusable
  <2> QED BY <2>3, ReusableIsAll
<1>4. CASE ReadStore(w)
  <2>1. pc'[w] = "list"
    BY <1>4 DEF TypeOK, ReadStore, Goto
  <2>2. \A seen \in SUBSET Openable : \A x \in UnlockedPairs(seen) : Unlocks(x.ident)
    BY DEF UnlockedPairs, Openable
  <2>3. \A x \in cands'[w] : Unlocks(x.ident)
    <3>1. CASE HasPending(pending[TeamIdent])
      <4>1. PICK seen \in SUBSET Openable :
              cands' = [cands EXCEPT ![w] =
                   {c \in UnlockedPairs(seen) : c.ident # TeamIdent}
                   \cup {[ident |-> TeamIdent, key |-> p12[TeamIdent]]}]
        BY <1>4, <3>1 DEF ReadStore
      <4>2. cands'[w] = {c \in UnlockedPairs(seen) : c.ident # TeamIdent}
                        \cup {[ident |-> TeamIdent, key |-> p12[TeamIdent]]}
        BY <4>1 DEF TypeOK
      <4>3. Unlocks(TeamIdent)
        BY <3>1, PendingUnlocked
      <4>4. \A c \in {[ident |-> TeamIdent, key |-> p12[TeamIdent]]} : c.ident = TeamIdent
        OBVIOUS
      <4>5. SUFFICES ASSUME NEW x \in cands'[w] PROVE Unlocks(x.ident)
        OBVIOUS
      <4>6. CASE x \in UnlockedPairs(seen)
        BY <2>2, <4>6
      <4>7. CASE x \notin UnlockedPairs(seen)
        <5>1. x.ident = TeamIdent
          BY <4>2, <4>4, <4>7
        <5> QED BY <4>3, <5>1
      <4> QED BY <4>6, <4>7
    <3>2. CASE ~HasPending(pending[TeamIdent])
      <4>1. PICK seen \in SUBSET Openable :
              cands' = [cands EXCEPT ![w] = UnlockedPairs(seen)]
        BY <1>4, <3>2 DEF ReadStore
      <4>2. cands'[w] = UnlockedPairs(seen)
        BY <4>1 DEF TypeOK
      <4> QED BY <2>2, <4>2
    <3> QED BY <3>1, <3>2
  <2>4. \A x \in cands'[w] : Unlocks(x.ident)'
    BY <1>2, <2>3 DEF Unlocks
  <2>5. Reusable(w)'
    BY <2>1, <2>4 DEF Reusable
  <2> QED BY <2>5, ReusableIsAll
<1>5. CASE SelectCertificate(w)
  <2>1. pc[w] = "list" /\ pc'[w] = "save_p12"
    BY <1>5 DEF TypeOK, SelectCertificate, Goto
  <2>2. PICK c \in Matching(w), x \in cands[w] :
          /\ x.key = c.key
          /\ hand' = [hand EXCEPT ![w] =
               [ident |-> x.ident, key |-> x.key, csr |-> NoKey, name |-> c.name,
                chain |-> c.key]]
    BY <1>5 DEF SelectCertificate
  <2>3. hand'[w].ident = x.ident /\ hand'[w].key = x.key /\ hand'[w].chain = x.key
    BY <2>2 DEF TypeOK
  <2>4. Unlocks(x.ident) /\ p12[x.ident] = x.key
    BY <1>1, <2>1 DEF Reusable, UpToDate
  <2>5. Unlocks(hand[w].ident)' /\ p12'[hand'[w].ident] = hand'[w].key
    BY <1>2, <2>3, <2>4 DEF Unlocks
  <2>6. Reusable(w)'
    BY <2>1, <2>3, <2>5 DEF Reusable
  <2> QED BY <2>6, ReusableIsAll
<1>6. CASE ResumePending(w)
  <2>1. pc[w] = "list" /\ pc'[w] = "upload" /\ hand'[w] = found[w] /\ HasPending(found[w])
    BY <1>6 DEF TypeOK, ResumePending, Goto
  <2>2. /\ found[w].csr = pending[TeamIdent].csr
        /\ found[w].ident = TeamIdent /\ found[w].key = p12[TeamIdent]
    BY <1>1, <2>1 DEF UpToDate
  <2>3. Unlocks(TeamIdent)
    BY <2>1, <2>2, PendingUnlocked DEF HasPending
  <2>4. Unlocks(hand[w].ident)' /\ p12'[hand'[w].ident] = hand'[w].key
    BY <1>2, <2>1, <2>2, <2>3 DEF Unlocks
  <2>5. hand'[w].csr = pending'[TeamIdent].csr /\ HasPending(pending'[TeamIdent])
    BY <1>2, <2>1, <2>2 DEF HasPending
  <2>6. Reusable(w)'
    BY <2>1, <2>4, <2>5 DEF Reusable
  <2> QED BY <2>6, ReusableIsAll
<1>7. CASE GenerateKey(w)
  <2>1. pc'[w] = "password" /\ hand'[w].key = req[w] /\ req[w] \in Nat
    BY <1>7 DEF TypeOK, GenerateKey, Goto
  <2>2. hand'[w].key # NoKey
    BY <2>1 DEF NoKey
  <2>3. Reusable(w)'
    BY <2>1, <2>2 DEF Reusable
  <2> QED BY <2>3, ReusableIsAll
<1> QED BY <1>3, <1>4, <1>5, <1>6, <1>7

\* The steps that write to the store.
LEMMA ReuseWrite ==
  ASSUME OneWorker, TypeOK, StoreInv, ReuseInv, NEW w \in Workers,
         SavePassword(w) \/ SavePendingP12(w) \/ SavePendingRecord(w) \/ SaveP12(w)
         \/ SaveCer(w) \/ ClearPending(w) \/ SaveProfile(w)
  PROVE  ReuseInv'
<1> USE DEF locals
<1>1. Reusable(w) /\ UpToDate(w) /\ hand[w] \in Hands /\ target[w].bundle \in Bundles
  BY DEF ReuseInv, StoreInv, TypeOK, Targets
<1>2. UNCHANGED <<target, hand, cands, answer>> /\ hand[w].ident \in Idents
  BY <1>1 DEF SavePassword, SavePendingP12, SavePendingRecord, SaveP12, SaveCer,
         ClearPending, SaveProfile, Hands
<1>3. CASE SavePassword(w) \/ SavePendingP12(w)
  <2>1. /\ pc[w] \in {"password", "pending_p12"} /\ pc'[w] \in {"pending_p12", "pending_record"}
    BY <1>3 DEF TypeOK, SavePassword, SavePendingP12, Goto
  <2>2. Reusable(w)'
    BY <1>1, <1>2, <2>1 DEF Reusable
  <2> QED BY <2>2, ReusableIsAll
<1>4. CASE SavePendingRecord(w)
  <2>1. /\ pc[w] = "pending_record" /\ pc'[w] = "upload" /\ UNCHANGED <<p12, secrets>>
        /\ pending' = [pending EXCEPT ![hand[w].ident] =
                         [csr |-> hand[w].csr, name |-> hand[w].name]]
    BY <1>4 DEF TypeOK, SavePendingRecord, Goto
  <2>2. /\ hand[w].ident = TeamIdent /\ hand[w].key # NoKey
        /\ p12[TeamIdent] = hand[w].key /\ secrets[TeamIdent] = hand[w].key
        /\ hand[w].csr = hand[w].key
    BY <1>1, <2>1 DEF Reusable, UpToDate
  <2>3. Unlocks(hand[w].ident)'
    BY <1>2, <2>1, <2>2 DEF Unlocks
  <2>4. pending'[TeamIdent].csr = hand[w].csr
    BY <1>2, <2>1, <2>2 DEF TypeOK
  <2>5. Reusable(w)'
    BY <1>2, <2>1, <2>2, <2>3, <2>4 DEF Reusable, HasPending
  <2> QED BY <2>5, ReusableIsAll
<1>5. CASE SaveP12(w)
  <2>1. /\ pc[w] = "save_p12" /\ pc'[w] = "save_cer" /\ UNCHANGED <<secrets, cer>>
        /\ p12' = [p12 EXCEPT ![hand[w].ident] = hand[w].key]
    BY <1>5 DEF TypeOK, SaveP12, Goto
  <2>2. p12' = p12
    BY <1>1, <2>1 DEF TypeOK, UpToDate
  <2>3. Unlocks(hand[w].ident)'
    BY <1>1, <1>2, <2>1, <2>2 DEF Reusable, Unlocks
  <2>4. Reusable(w)'
    BY <1>1, <1>2, <2>1, <2>2, <2>3 DEF Reusable
  <2> QED BY <2>4, ReusableIsAll
<1>6. CASE SaveCer(w)
  <2>1. /\ pc[w] = "save_cer" /\ pc'[w] = "clear" /\ UNCHANGED <<secrets, p12>>
        /\ cer' = [cer EXCEPT ![hand[w].ident] = hand[w].chain]
    BY <1>6 DEF TypeOK, SaveCer, Goto
  <2>2. cer'[hand[w].ident] = hand[w].key
    BY <1>1, <1>2, <2>1 DEF TypeOK, Reusable
  <2>3. Unlocks(hand[w].ident)'
    BY <1>1, <1>2, <2>1 DEF Reusable, Unlocks
  <2>4. Reusable(w)'
    BY <1>1, <1>2, <2>1, <2>2, <2>3 DEF Reusable
  <2> QED BY <2>4, ReusableIsAll
<1>7. CASE ClearPending(w)
  <2>1. pc[w] = "clear" /\ pc'[w] = "provision" /\ UNCHANGED <<secrets, p12, cer>>
    BY <1>7 DEF TypeOK, ClearPending, Goto
  <2>2. Unlocks(hand[w].ident)'
    BY <1>1, <1>2, <2>1 DEF Reusable, Unlocks
  <2>3. Reusable(w)'
    BY <1>1, <1>2, <2>1, <2>2 DEF Reusable
  <2> QED BY <2>3, ReusableIsAll
<1>8. CASE SaveProfile(w)
  <2>1. /\ pc[w] = "save_profile" /\ pc'[w] = "validate" /\ UNCHANGED <<secrets, p12, cer>>
        /\ profile' = [profile EXCEPT ![target[w].bundle] = answer[w]]
    BY <1>8 DEF TypeOK, SaveProfile, Goto
  <2>2. profile'[target[w].bundle] = answer[w]
    BY <1>1, <2>1 DEF TypeOK
  <2>3. Unlocks(hand[w].ident)'
    BY <1>1, <1>2, <2>1 DEF Reusable, Unlocks
  <2>4. Reusable(w)'
    BY <1>1, <1>2, <2>1, <2>2, <2>3 DEF Reusable
  <2> QED BY <2>4, ReusableIsAll
<1> QED BY <1>3, <1>4, <1>5, <1>6, <1>7, <1>8

\* The steps that ask AGC, and those that end a request.
LEMMA ReuseRemote ==
  ASSUME OneWorker, TypeOK, StoreInv, ReuseInv, NEW w \in Workers,
         UploadCsr(w) \/ CertificateIssued(w) \/ CertificateRejected(w)
         \/ CreateProvision(w) \/ ProvisionRefused(w) \/ ValidateProfile(w)
  PROVE  ReuseInv'
<1> USE DEF locals
<1>1. UNCHANGED store /\ Reusable(w) /\ hand[w] \in Hands
  BY DEF UploadCsr, CertificateIssued, CertificateRejected, CreateProvision,
         ProvisionRefused, ValidateProfile, ReuseInv, TypeOK
<1>2. UNCHANGED <<secrets, p12, cer, pending, profile>>
  BY <1>1 DEF store
<1>3. CASE UploadCsr(w) \/ CertificateIssued(w)
  <2>1. /\ pc[w] \in {"upload", "lookup"} /\ pc'[w] \in {"lookup", "save_p12"}
        /\ hand'[w].ident = hand[w].ident /\ hand'[w].key = hand[w].key
        /\ hand'[w].csr = hand[w].csr
        /\ pc'[w] = "save_p12" => hand'[w].chain = hand[w].key
    BY <1>1, <1>3 DEF TypeOK, UploadCsr, CertificateIssued, Goto, Hands
  <2>2. Unlocks(hand[w].ident)' /\ p12'[hand'[w].ident] = hand'[w].key
    BY <1>1, <1>2, <2>1 DEF Reusable, Unlocks
  <2>3. hand'[w].csr = pending'[TeamIdent].csr /\ HasPending(pending'[TeamIdent])
    BY <1>1, <1>2, <2>1 DEF Reusable, HasPending
  <2>4. Reusable(w)'
    BY <2>1, <2>2, <2>3 DEF Reusable
  <2> QED BY <2>4, ReusableIsAll
<1>4. CASE CreateProvision(w)
  <2>1. /\ pc[w] = "provision" /\ pc'[w] = "save_profile" /\ UNCHANGED hand
        /\ answer'[w].key = hand[w].chain
    BY <1>4 DEF TypeOK, CreateProvision, Goto
  <2>2. Unlocks(hand[w].ident)'
    BY <1>1, <1>2, <2>1 DEF Reusable, Unlocks
  <2>3. Reusable(w)'
    BY <1>1, <1>2, <2>1, <2>2 DEF Reusable
  <2> QED BY <2>3, ReusableIsAll
<1>5. CASE ValidateProfile(w)
  <2>1. /\ pc[w] = "validate" /\ pc'[w] \in {"done", "failed"} /\ UNCHANGED target
        /\ pc'[w] = "done" => validate_profile(answer[w], target[w].device, hand[w].key)
    BY <1>5 DEF TypeOK, ValidateProfile, Goto
  <2>2. pc'[w] = "done" => LocalMaterials(target[w], Openable)
    <3>1. SUFFICES ASSUME pc'[w] = "done" PROVE LocalMaterials(target[w], Openable)
      OBVIOUS
    <3> DEFINE i == hand[w].ident
    <3>2. /\ Unlocks(i) /\ p12[i] = hand[w].key /\ cer[i] = hand[w].key
          /\ profile[target[w].bundle] = answer[w] /\ answer[w].key = hand[w].key
      BY <1>1, <2>1 DEF Reusable
    <3>3. i \in Idents /\ p12[i] # NoKey
      BY <1>1, <3>2 DEF Hands, Unlocks
    <3>4. i \in Openable /\ cer[i] = p12[i] /\ profile[target[w].bundle].key # NoKey
      BY <3>2, <3>3 DEF IsPair, Openable
    <3>5. validate_profile(profile[target[w].bundle], target[w].device, cer[i])
      BY <2>1, <3>1, <3>2
    <3> QED BY <3>4, <3>5 DEF LocalMaterials
  <2>3. pc'[w] = "done" => LocalMaterials(target[w], Openable)'
    BY <1>2, <2>1, <2>2 DEF LocalMaterials, IsPair, Unlocks, Openable
  <2>4. Reusable(w)'
    BY <2>1, <2>3 DEF Reusable
  <2> QED BY <2>4, ReusableIsAll
<1>6. CASE CertificateRejected(w) \/ ProvisionRefused(w)
  <2>1. pc'[w] = "failed"
    BY <1>6 DEF TypeOK, CertificateRejected, ProvisionRefused, Goto
  <2>2. Reusable(w)'
    BY <2>1 DEF Reusable
  <2> QED BY <2>2, ReusableIsAll
<1> QED BY <1>3, <1>4, <1>5, <1>6

\* No worker holds anything at the start.
LEMMA ReuseInit == Init => ReuseInv
BY DEF Init, ReuseInv, Reusable

LEMMA ReuseStep ==
  OneWorker /\ TypeOK /\ StoreInv /\ ReuseInv /\ [Next]_vars => ReuseInv'
<1> SUFFICES ASSUME OneWorker, TypeOK, StoreInv, ReuseInv, [Next]_vars PROVE ReuseInv'
  OBVIOUS
<1>1. CASE \E w \in Workers : Work(w)
  BY <1>1, ReuseRead, ReuseWrite, ReuseRemote DEF Work, LoadStore
<1>2. CASE \E w \in Workers : \/ Abort(w)
                              \/ \E b \in Bundles, d \in Devices : Start(w, b, d)
  <2>1. PICK w \in Workers : Abort(w) \/ \E b \in Bundles, d \in Devices : Start(w, b, d)
    BY <1>2
  <2>2. pc'[w] \in {"failed", "local"}
    BY <2>1 DEF TypeOK, Abort, Start
  <2>3. Reusable(w)'
    BY <2>2 DEF Reusable
  <2> QED BY <2>3, ReusableIsAll
<1>3. CASE Publish \/ Revoke \/ UNCHANGED vars
  <2>1. UNCHANGED <<secrets, p12, cer, pending, profile, pc, target, hand, cands, answer>>
    BY <1>3 DEF Publish, Revoke, vars, store, locals
  <2> QED BY <2>1 DEF ReuseInv, Reusable, Unlocks, LocalMaterials, IsPair, Openable, HasPending
<1> QED BY <1>1, <1>2, <1>3 DEF Next

(* With a single worker, the request after a successful one finds P12,
   certificate, password and profile in agreement, and needs no network. *)
THEOREM SuccessIsReused == ASSUME OneWorker PROVE Spec => []ReuseNext
<1>1. Init => TypeOK /\ StoreInv /\ ReuseInv
  BY TypeInit, StoreInit, ReuseInit
<1>2. TypeOK /\ StoreInv /\ ReuseInv /\ [Next]_vars => (TypeOK /\ StoreInv /\ ReuseInv)'
  BY OneWorker, TypeStep, StoreStep, ReuseStep
<1>3. ReuseInv => ReuseNext
  BY DEF ReuseInv, Reusable, ReuseNext
<1> QED BY <1>1, <1>2, <1>3, PTL DEF Spec
-----------------------------------------------------------------------------
(* The limit of debug certificates.                                        *)

\* The part of LimitInv about one worker.
Ahead(w) ==
  /\ pc[w] \in {"password", "pending_p12", "pending_record", "upload"} =>
       Cardinality(Competing(w)) + foreign < AGC_DEBUG_CERTIFICATE_LIMIT
  /\ pc[w] \in {"password", "pending_p12"} => \A c \in certs \ Listed : c.key \in uncounted

\* With a single worker, only that worker has to be looked at.
LEMMA AheadIsAll ==
  ASSUME OneWorker, NEW w \in Workers, WithinLimit', Ahead(w)',
         \A c \in (certs \ Listed)' : c.key \in uncounted' \/ c.key = p12'[TeamIdent]
  PROVE  LimitInv'
<1>1. \A u \in Workers : u = w
  BY OnlyOne
<1> QED BY <1>1 DEF LimitInv, Ahead

\* A set of AGC's certificates has a size, and a part of it has no larger one.
LEMMA Sizes ==
  ASSUME TypeOK, NEW S \in SUBSET certs, NEW T \in SUBSET S
  PROVE  /\ IsFiniteSet(S) /\ Cardinality(S) \in Nat /\ Cardinality(T) \in Nat
         /\ Cardinality(T) <= Cardinality(S)
         /\ foreign \in Nat /\ AGC_DEBUG_CERTIFICATE_LIMIT \in Nat
<1>1. IsFiniteSet(S) /\ IsFiniteSet(T) /\ Cardinality(T) <= Cardinality(S)
  BY FS_Subset DEF TypeOK
<1>2. Cardinality(S) \in Nat /\ Cardinality(T) \in Nat
  BY <1>1, FS_CardinalityType
<1> QED BY <1>1, <1>2 DEF TypeOK, AGC_DEBUG_CERTIFICATE_LIMIT

\* A set whose only new element takes the place of an old one is no larger.
LEMMA Replaced ==
  ASSUME NEW S, IsFiniteSet(S), NEW c, NEW d, NEW T, T \subseteq (S \ {c}) \cup {d},
         d \in T => c \in S \/ d \in S
  PROVE  Cardinality(T) \in Nat /\ Cardinality(S) \in Nat /\ Cardinality(T) <= Cardinality(S)
<1>1. Cardinality(S) \in Nat
  BY FS_CardinalityType
<1>2. CASE T \subseteq S
  <2>1. IsFiniteSet(T) /\ Cardinality(T) <= Cardinality(S)
    BY <1>2, FS_Subset
  <2> QED BY <1>1, <2>1, FS_CardinalityType
<1>3. CASE ~(T \subseteq S)
  <2>1. d \notin S /\ c \in S
    BY <1>3
  <2> DEFINE rest == S \ {c}
  <2>2. IsFiniteSet(rest) /\ Cardinality(rest) = Cardinality(S) - 1
    BY <2>1, FS_RemoveElement
  <2>3. d \notin rest
    BY <2>1
  <2>4. IsFiniteSet(rest \cup {d}) /\ Cardinality(rest \cup {d}) = Cardinality(rest) + 1
    BY <2>2, <2>3, FS_AddElement
  <2>5. IsFiniteSet(T) /\ Cardinality(T) <= Cardinality(rest \cup {d})
    BY <2>4, FS_Subset
  <2>6. Cardinality(T) \in Nat
    BY <2>5, FS_CardinalityType
  <2> HIDE DEF rest
  <2> QED BY <1>1, <2>2, <2>4, <2>5, <2>6
<1> QED BY <1>2, <1>3

\* What is compared is a part of AGC's list.
LEMMA Counts ==
  /\ Counted \subseteq certs /\ Listed \subseteq certs
  /\ \A w : Competing(w) \subseteq Counted
BY DEF Counted, Listed, Competing

\* A step of the worker that leaves AGC and the keys alone.
LEMMA LimitKept ==
  ASSUME OneWorker, LimitInv, NEW w \in Workers, UNCHANGED <<agc, p12>>, Ahead(w)'
  PROVE  LimitInv'
<1>1. UNCHANGED <<certs, foreign, uncounted, p12>>
  BY DEF agc
<1>2. WithinLimit'
  BY <1>1 DEF LimitInv, WithinLimit, Counted
<1>3. \A c \in (certs \ Listed)' : c.key \in uncounted' \/ c.key = p12'[TeamIdent]
  BY <1>1 DEF LimitInv, Listed
<1> QED BY <1>2, <1>3, AheadIsAll

\* The look at the list, when it leads to an upload.
LEMMA LimitRead ==
  ASSUME OneWorker, TypeOK, NamesBound, StoreInv, LimitInv, NEW w \in Workers,
         ResumePending(w) \/ GenerateKey(w)
  PROVE  LimitInv'
<1>1. UNCHANGED <<certs, foreign, p12>> /\ Listed' = Listed
  BY DEF ResumePending, GenerateKey, agc, store, Listed
<1>2. Cardinality(Listed) + foreign < AGC_DEBUG_CERTIFICATE_LIMIT
  <2>1. Cardinality(Listed) \in Nat /\ foreign \in Nat /\ AGC_DEBUG_CERTIFICATE_LIMIT \in Nat
    BY Counts, Sizes
  <2> QED BY <2>1 DEF ResumePending, GenerateKey, AtCapacity
<1>3. ASSUME NEW S \in SUBSET Listed
      PROVE  Cardinality(S) + foreign < AGC_DEBUG_CERTIFICATE_LIMIT
  <2>1. /\ Cardinality(S) \in Nat /\ Cardinality(Listed) \in Nat
        /\ Cardinality(S) <= Cardinality(Listed)
        /\ foreign \in Nat /\ AGC_DEBUG_CERTIFICATE_LIMIT \in Nat
    BY Counts, Sizes
  <2> QED BY <1>2, <2>1
<1>4. CASE ResumePending(w)
  <2>1. /\ pc[w] = "list" /\ pc'[w] = "upload" /\ hand'[w] = found[w]
        /\ HasPending(found[w]) /\ UNCHANGED agc
    BY <1>4 DEF TypeOK, ResumePending, Goto
  <2>2. found[w].name = p12[TeamIdent]
    <3>1. found[w].key = p12[TeamIdent] /\ found[w].csr = pending[TeamIdent].csr
      BY <2>1 DEF StoreInv, UpToDate
    <3>2. HasPending(pending[TeamIdent])
      BY <2>1, <3>1 DEF HasPending
    <3> QED BY <3>1, <3>2, PendingUnlocked DEF NamesBound
  <2>3. \A c \in Counted \ Listed : c.name = found[w].name
    BY <2>2 DEF LimitInv, NamesBound, Counted
  <2>4. Competing(w)' \subseteq Listed
    BY <1>1, <2>1, <2>3, Counts DEF Competing, Counted, agc
  <2>5. Ahead(w)'
    BY <1>1, <1>3, <2>1, <2>4 DEF Ahead
  <2> QED BY <1>1, <2>1, <2>5, LimitKept
<1>5. CASE GenerateKey(w)
  <2>1. /\ pc'[w] = "password"
        /\ uncounted' = uncounted \cup {c.key : c \in certs \ Listed}
    BY <1>5 DEF TypeOK, GenerateKey, Goto
  <2>2. Counted' \subseteq Listed
    BY <1>1, <2>1 DEF Counted
  <2>3. Competing(w)' \subseteq Listed
    BY <1>1, <2>2 DEF Competing
  <2>4. WithinLimit'
    <3>1. Cardinality(Counted') + foreign < AGC_DEBUG_CERTIFICATE_LIMIT
      BY <1>3, <2>2
    <3>2. Cardinality(Counted') \in Nat /\ foreign \in Nat /\ AGC_DEBUG_CERTIFICATE_LIMIT \in Nat
      BY <2>2, Counts, Sizes
    <3> QED BY <1>1, <3>1, <3>2 DEF WithinLimit
  <2>5. \A c \in (certs \ Listed)' : c.key \in uncounted'
    BY <1>1, <2>1
  <2>6. Ahead(w)'
    BY <1>1, <1>3, <2>1, <2>3, <2>5 DEF Ahead
  <2> QED BY <2>4, <2>5, <2>6, AheadIsAll
<1> QED BY <1>4, <1>5

\* The writes of a new key, before its upload.
LEMMA LimitWrite ==
  ASSUME OneWorker, TypeOK, LimitInv, NEW w \in Workers,
         SavePassword(w) \/ SavePendingP12(w) \/ SavePendingRecord(w)
  PROVE  LimitInv'
<1>1. UNCHANGED <<certs, foreign, uncounted, hand>>
  BY DEF SavePassword, SavePendingP12, SavePendingRecord, agc, locals
<1>2. /\ pc[w] \in {"password", "pending_p12", "pending_record"}
      /\ pc'[w] \in {"pending_p12", "pending_record", "upload"}
      /\ pc'[w] = "pending_p12" => pc[w] = "password" /\ UNCHANGED p12
      /\ pc'[w] = "pending_record" => pc[w] = "pending_p12"
      /\ pc'[w] = "upload" => UNCHANGED p12
  BY DEF TypeOK, SavePassword, SavePendingP12, SavePendingRecord, Goto
<1>3. Counted' = Counted /\ Listed' = Listed
  BY <1>1 DEF Counted, Listed
<1>4. Competing(w)' \subseteq Competing(w)
  BY <1>2, <1>3 DEF Competing
<1>5. Cardinality(Competing(w)') + foreign' < AGC_DEBUG_CERTIFICATE_LIMIT
  <2>1. Cardinality(Competing(w)) + foreign < AGC_DEBUG_CERTIFICATE_LIMIT
    BY <1>2 DEF LimitInv
  <2>2. Competing(w) \in SUBSET certs
    BY Counts
  <2>3. /\ Cardinality(Competing(w)) \in Nat /\ Cardinality(Competing(w)') \in Nat
        /\ Cardinality(Competing(w)') <= Cardinality(Competing(w))
        /\ foreign \in Nat /\ AGC_DEBUG_CERTIFICATE_LIMIT \in Nat
    BY <1>4, <2>2, Sizes
  <2> QED BY <1>1, <2>1, <2>3
<1>6. Ahead(w)'
  BY <1>1, <1>2, <1>3, <1>5 DEF Ahead, LimitInv
<1>7. \A c \in (certs \ Listed)' : c.key \in uncounted' \/ c.key = p12'[TeamIdent]
  BY <1>1, <1>2, <1>3 DEF LimitInv
<1>8. WithinLimit'
  BY <1>1, <1>3 DEF LimitInv, WithinLimit
<1> QED BY <1>6, <1>7, <1>8, AheadIsAll

\* The one step that takes a place.
LEMMA LimitUpload ==
  ASSUME OneWorker, TypeOK, NamesBound, StoreInv, ReuseInv, LimitInv, NEW w \in Workers,
         UploadCsr(w)
  PROVE  LimitInv'
<1>1. pc[w] = "upload" /\ pc'[w] = "lookup" /\ UNCHANGED <<foreign, uncounted, p12>>
  BY DEF TypeOK, UploadCsr, Goto, store
<1>2. Ahead(w)'
  BY <1>1 DEF Ahead
<1>3. CASE UNCHANGED certs
  BY <1>1, <1>2, <1>3, AheadIsAll DEF LimitInv, WithinLimit, Counted, Listed
<1>4. CASE ~UNCHANGED certs
  <2>1. PICK shown \in Shown :
          certs' = certs \cup {[key |-> hand[w].csr, name |-> hand[w].name, shown |-> shown]}
    BY <1>4 DEF UploadCsr
  <2> DEFINE new == [key |-> hand[w].csr, name |-> hand[w].name, shown |-> shown]
  <2>2. Named(hand[w].name) = {}
    BY <1>4 DEF UploadCsr
  <2>3. Counted \subseteq Competing(w)
    BY <2>2, Counts DEF Competing, Named
  <2>4. new.key = p12[TeamIdent]
    <3>1. hand[w].csr = pending[TeamIdent].csr /\ HasPending(pending[TeamIdent])
      BY <1>1 DEF ReuseInv, Reusable
    <3> QED BY <3>1, PendingUnlocked
  <2>5. certs' = certs \cup {new}
    BY <2>1
  <2> HIDE DEF new
  <2>6. Counted' \subseteq Competing(w) \cup {new}
    BY <1>1, <2>3, <2>5 DEF Counted
  <2>7. /\ Cardinality(Competing(w)) + foreign < AGC_DEBUG_CERTIFICATE_LIMIT
        /\ Competing(w) \in SUBSET certs
    BY <1>1, Counts DEF LimitInv
  <2>8. /\ IsFiniteSet(Competing(w)) /\ Cardinality(Competing(w)) \in Nat
        /\ foreign \in Nat /\ AGC_DEBUG_CERTIFICATE_LIMIT \in Nat
    BY <2>7, Sizes
  <2>9. /\ IsFiniteSet(Competing(w) \cup {new})
        /\ \/ Cardinality(Competing(w) \cup {new}) = Cardinality(Competing(w))
           \/ Cardinality(Competing(w) \cup {new}) = Cardinality(Competing(w)) + 1
    BY <2>8, FS_AddElement
  <2>10. IsFiniteSet(Counted') /\ Cardinality(Counted') <= Cardinality(Competing(w) \cup {new})
    BY <2>6, <2>9, FS_Subset
  <2>11. Cardinality(Counted') \in Nat
    BY <2>10, FS_CardinalityType
  <2>12. WithinLimit'
    BY <1>1, <2>7, <2>8, <2>9, <2>10, <2>11 DEF WithinLimit
  <2>13. \A c \in (certs \ Listed)' : c.key \in uncounted' \/ c.key = p12'[TeamIdent]
    BY <1>1, <2>4, <2>5 DEF LimitInv, Listed
  <2> QED BY <1>2, <2>12, <2>13, AheadIsAll
<1> QED BY <1>3, <1>4

\* A step of AGC, which takes no place.
LEMMA LimitAgc ==
  ASSUME TypeOK, LimitInv, Publish \/ Revoke
  PROVE  LimitInv'
<1>1. UNCHANGED <<pc, hand, uncounted, p12>>
  BY DEF Publish, Revoke, store, locals
<1>2. /\ foreign \in Nat /\ foreign' \in Nat /\ foreign' <= foreign
      /\ AGC_DEBUG_CERTIFICATE_LIMIT \in Nat
  BY DEF TypeOK, Publish, Revoke, AGC_DEBUG_CERTIFICATE_LIMIT
<1>3. PICK c, d : /\ certs' \subseteq (certs \ {c}) \cup {d}
                  /\ d \in certs' => \/ d \in certs
                                    \/ /\ c \in certs /\ d.key = c.key /\ d.name = c.name
                                       /\ d.shown # "none"
  <2>1. CASE Publish
    <3>1. PICK c \in certs, shown \in {"part", "all"} :
            certs' = (certs \ {c}) \cup {[c EXCEPT !.shown = shown]}
      BY <2>1 DEF Publish
    <3> DEFINE new == [c EXCEPT !.shown = shown]
    <3>2. new.key = c.key /\ new.name = c.name /\ new.shown # "none"
      BY DEF TypeOK, Certificates
    <3>3. certs' = (certs \ {c}) \cup {new}
      BY <3>1
    <3> HIDE DEF new
    <3> QED BY <3>2, <3>3
  <2>2. CASE Revoke
    <3>1. certs' \subseteq certs
      BY <2>2 DEF Revoke
    <3>2. certs' \subseteq (certs \ {0}) \cup {0} /\ (0 \in certs' => 0 \in certs)
      BY <3>1
    <3> QED BY <3>2
  <2> QED BY <2>1, <2>2
<1>4. /\ Cardinality(Counted') \in Nat /\ Cardinality(Counted) \in Nat
      /\ Cardinality(Counted') <= Cardinality(Counted)
  <2>1. Counted' \subseteq (Counted \ {c}) \cup {d}
    BY <1>1, <1>3 DEF Counted
  <2>2. d \in Counted' => c \in Counted \/ d \in Counted
    BY <1>1, <1>3 DEF Counted
  <2>3. IsFiniteSet(Counted)
    BY Counts, Sizes
  <2> QED BY <2>1, <2>2, <2>3, Replaced
<1>5. ASSUME NEW w \in Workers
      PROVE  /\ Cardinality(Competing(w)') \in Nat /\ Cardinality(Competing(w)) \in Nat
             /\ Cardinality(Competing(w)') <= Cardinality(Competing(w))
  <2>1. Competing(w)' \subseteq (Competing(w) \ {c}) \cup {d}
    BY <1>1, <1>3 DEF Competing, Counted
  <2>2. d \in Competing(w)' => c \in Competing(w) \/ d \in Competing(w)
    BY <1>1, <1>3 DEF Competing, Counted
  <2>3. Competing(w) \in SUBSET certs
    BY Counts
  <2>4. IsFiniteSet(Competing(w))
    BY <2>3, Sizes
  <2> QED BY <2>1, <2>2, <2>4, Replaced
<1>6. \A x \in (certs \ Listed)' : x \in certs \ Listed
  BY <1>3 DEF Listed
<1>7. WithinLimit'
  BY <1>2, <1>4 DEF LimitInv, WithinLimit
<1>8. ASSUME NEW w \in Workers PROVE Ahead(w)'
  BY <1>1, <1>2, <1>5, <1>6 DEF LimitInv, Ahead
<1>9. \A x \in (certs \ Listed)' : x.key \in uncounted' \/ x.key = p12'[TeamIdent]
  BY <1>1, <1>6 DEF LimitInv
<1> QED BY <1>7, <1>8, <1>9 DEF LimitInv, Ahead

LEMMA LimitStep ==
  OneWorker /\ TypeOK /\ NamesBound /\ StoreInv /\ ReuseInv /\ LimitInv /\ [Next]_vars
    => LimitInv'
<1> SUFFICES ASSUME OneWorker, TypeOK, NamesBound, StoreInv, ReuseInv, LimitInv, [Next]_vars
             PROVE  LimitInv'
  OBVIOUS
<1>1. ASSUME NEW w \in Workers, Work(w),
             ~(ResumePending(w) \/ GenerateKey(w) \/ SavePassword(w) \/ SavePendingP12(w)
               \/ SavePendingRecord(w) \/ UploadCsr(w))
      PROVE  LimitInv'
  <2>1. UNCHANGED agc
    BY <1>1 DEF Work, FindLocal, LoadStore, ReadStore, PendingLocked, SelectCertificate,
       CertificateLimit, CertificateIssued, CertificateRejected, SaveP12, SaveCer,
       ClearPending, CreateProvision, ProvisionRefused, SaveProfile, ValidateProfile
  <2>2. pc'[w] \notin {"password", "pending_p12", "pending_record", "upload"}
    BY <1>1 DEF TypeOK, Work, FindLocal, LoadStore, ReadStore, PendingLocked,
       SelectCertificate, CertificateLimit, CertificateIssued, CertificateRejected, SaveP12,
       SaveCer, ClearPending, CreateProvision, ProvisionRefused, SaveProfile,
       ValidateProfile, Goto
  <2>3. UNCHANGED p12
    <3>1. CASE SaveP12(w)
      <4>1. p12[hand[w].ident] = hand[w].key
        BY <3>1 DEF SaveP12, Goto, StoreInv, UpToDate
      <4> QED BY <3>1, <4>1 DEF TypeOK, SaveP12
    <3>2. CASE ~SaveP12(w)
      BY <1>1, <3>2 DEF Work, FindLocal, LoadStore, ReadStore, PendingLocked,
         SelectCertificate, CertificateLimit, CertificateIssued, CertificateRejected, SaveCer,
         ClearPending, CreateProvision, ProvisionRefused, SaveProfile, ValidateProfile, store
    <3> QED BY <3>1, <3>2
  <2> QED BY <2>1, <2>2, <2>3, LimitKept DEF Ahead
<1>2. CASE \E w \in Workers : Work(w)
  BY <1>1, <1>2, LimitRead, LimitWrite, LimitUpload
<1>3. CASE \E w \in Workers : \/ Abort(w)
                              \/ \E b \in Bundles, d \in Devices : Start(w, b, d)
  <2>1. PICK w \in Workers : Abort(w) \/ \E b \in Bundles, d \in Devices : Start(w, b, d)
    BY <1>3
  <2>2. UNCHANGED <<agc, p12>> /\ pc'[w] \in {"failed", "local"}
    BY <2>1 DEF TypeOK, Abort, Start, store
  <2> QED BY <2>2, LimitKept DEF Ahead
<1>4. CASE Publish \/ Revoke
  BY <1>4, LimitAgc
<1>5. CASE UNCHANGED vars
  BY <1>5 DEF vars, store, agc, locals, LimitInv, WithinLimit, Counted, Listed, Competing
<1> QED BY <1>2, <1>3, <1>4, <1>5 DEF Next

\* The certificates of the start are within the limit, and all listed.
LEMMA LimitInit == Init => LimitInv
<1> SUFFICES ASSUME Init PROVE LimitInv
  OBVIOUS
<1>1. PICK imported \in SUBSET (Idents \ {TeamIdent}) :
        certs \in SUBSET {[key |-> ImportedKey, name |-> 0, shown |-> "all"] : i \in imported}
  BY DEF Init
<1>2. certs \ Listed = {}
  BY <1>1 DEF Listed
<1>3. Counted = certs
  BY DEF Init, Counted
<1> QED BY <1>2, <1>3 DEF Init, LimitInv, WithinLimit

(* With a single worker, the requests of this machine never push the team over
   AGC's limit, whatever is deleted or listed while they run, but for certificates
   that AGC had issued and did not list when a new key was generated. *)
THEOREM LimitRespected == ASSUME OneWorker PROVE Spec => []WithinLimit
<1> DEFINE Inv == TypeOK /\ NamesBound /\ StoreInv /\ ReuseInv /\ LimitInv
<1>1. Init => Inv
  BY TypeInit, NamesInit, StoreInit, ReuseInit, LimitInit
<1>2. Inv /\ [Next]_vars => Inv'
  BY OneWorker, TypeStep, NamesStep, StoreStep, ReuseStep, LimitStep
<1>3. Inv => WithinLimit
  BY DEF LimitInv
<1> QED BY <1>1, <1>2, <1>3, PTL DEF Spec
-----------------------------------------------------------------------------
(* The keys of live certificates.                                          *)

\* With a single worker, only that worker has to be looked at.
LEMMA LiveIsAll ==
  ASSUME OneWorker, NEW w \in Workers,
         \A c \in certs' : c.key \in overlooked' \/ Imported(c)' \/ OfTeam(c)',
         pc'[w] \in {"password", "pending_p12", "pending_record"} =>
           \A c \in certs' : c.key \in overlooked' \/ Imported(c)'
  PROVE  LiveInv'
<1>1. \A u \in Workers : u = w
  BY OnlyOne
<1> QED BY <1>1 DEF LiveInv

\* A step that leaves the keys and AGC alone.
LEMMA KeysKept ==
  ASSUME OneWorker, LiveInv, NEW w \in Workers,
         pc'[w] \notin {"password", "pending_p12", "pending_record"},
         UNCHANGED <<p12, secrets, cer, pending, certs, overlooked>>
  PROVE  LiveInv'
<1>1. \A c \in certs' : c.key \in overlooked' \/ Imported(c)' \/ OfTeam(c)'
  BY DEF LiveInv, Imported, OfTeam
<1> QED BY <1>1, LiveIsAll

\* A key is generated in place of the team's only when the team's is overlooked.
LEMMA TeamOverlooked ==
  ASSUME TypeOK, StoreInv, NEW w \in Workers, pc[w] = "list",
         Matching(w) = {}, ~HasPending(found[w]), NEW c \in certs, OfTeam(c)
  PROVE  c \in Unseen(w)
<1>1. ~HasPending(pending[TeamIdent])
  BY DEF StoreInv, UpToDate, HasPending
<1>2. cer[TeamIdent] # NoKey /\ p12[TeamIdent] = c.key /\ c.key # NoKey
  BY <1>1 DEF OfTeam
<1>3. TeamIdent \in Openable
  BY <1>2, MaterialsAssumption DEF Openable, IsPair, Unlocks, OfTeam
<1>4. CASE c.shown # "all"
  BY <1>4 DEF Unseen
<1>5. CASE c.shown = "all"
  <2>1. \A x \in cands[w] : x.key # c.key
    BY <1>5 DEF Matching
  <2> QED BY <1>2, <1>3, <2>1 DEF Unseen
<1> QED BY <1>4, <1>5

\* The steps that only read.
LEMMA LiveRead ==
  ASSUME OneWorker, TypeOK, StoreInv, LiveInv, NEW w \in Workers,
         FindLocal(w) \/ ReadStore(w) \/ PendingLocked(w) \/ SelectCertificate(w)
         \/ CertificateLimit(w) \/ ResumePending(w) \/ GenerateKey(w)
  PROVE  LiveInv'
<1>1. UNCHANGED <<p12, secrets, cer, pending, certs>>
  BY DEF FindLocal, ReadStore, PendingLocked, SelectCertificate, CertificateLimit,
         ResumePending, GenerateKey, store, agc
<1>2. CASE ~GenerateKey(w)
  <2>1. /\ pc'[w] \in {"done", "store", "failed", "list", "save_p12", "upload"}
        /\ UNCHANGED overlooked
    BY <1>2 DEF TypeOK, FindLocal, ReadStore, PendingLocked, SelectCertificate,
                CertificateLimit, ResumePending, Goto, agc
  <2> QED BY <1>1, <2>1, KeysKept
<1>3. CASE GenerateKey(w)
  <2>1. /\ pc[w] = "list" /\ Matching(w) = {} /\ ~HasPending(found[w])
        /\ overlooked' = overlooked \cup {c.key : c \in Unseen(w)}
    BY <1>3 DEF GenerateKey, Goto
  <2>2. \A c \in certs : c.key \in overlooked' \/ Imported(c)
    BY <2>1, TeamOverlooked DEF LiveInv
  <2>3. \A c \in certs' : c.key \in overlooked' \/ Imported(c)'
    BY <1>1, <2>2 DEF Imported
  <2> QED BY <2>3, LiveIsAll
<1> QED BY <1>2, <1>3

\* The steps that write to the store.
LEMMA LiveWrite ==
  ASSUME OneWorker, TypeOK, StoreInv, ReuseInv, LiveInv, NEW w \in Workers,
         SavePassword(w) \/ SavePendingP12(w) \/ SavePendingRecord(w) \/ SaveP12(w)
         \/ SaveCer(w) \/ ClearPending(w) \/ SaveProfile(w)
  PROVE  LiveInv'
<1>1. Reusable(w) /\ UpToDate(w) /\ hand[w].ident \in Idents /\ TeamIdent \in Idents
  BY MaterialsAssumption DEF ReuseInv, StoreInv, TypeOK, Hands
<1>2. UNCHANGED <<hand, certs, overlooked>>
  BY DEF SavePassword, SavePendingP12, SavePendingRecord, SaveP12, SaveCer,
         ClearPending, SaveProfile, locals, agc
<1>3. CASE SavePassword(w) \/ SavePendingP12(w) \/ SavePendingRecord(w)
  <2>1. /\ pc[w] \in {"password", "pending_p12", "pending_record"}
        /\ p12' = p12 \/ p12' = [p12 EXCEPT ![hand[w].ident] = hand[w].key]
    BY <1>3 DEF TypeOK, SavePassword, SavePendingP12, SavePendingRecord, Goto
  <2>2. /\ hand[w].ident = TeamIdent
        /\ \A c \in certs : c.key \in overlooked \/ Imported(c)
    BY <1>1, <2>1 DEF UpToDate, LiveInv
  <2>3. \A i \in Idents \ {TeamIdent} : p12'[i] = p12[i]
    BY <2>1, <2>2 DEF TypeOK
  <2>4. \A c \in certs' : c.key \in overlooked' \/ Imported(c)'
    BY <1>2, <2>2, <2>3 DEF Imported
  <2> QED BY <2>4, LiveIsAll
<1>4. CASE SaveP12(w)
  <2>1. /\ pc[w] = "save_p12" /\ pc'[w] = "save_cer" /\ UNCHANGED <<secrets, cer, pending>>
        /\ p12' = [p12 EXCEPT ![hand[w].ident] = hand[w].key]
    BY <1>4 DEF TypeOK, SaveP12, Goto
  <2>2. p12' = p12
    BY <1>1, <2>1 DEF TypeOK, UpToDate
  <2> QED BY <1>2, <2>1, <2>2, KeysKept
<1>5. CASE SaveCer(w)
  <2>1. /\ pc[w] = "save_cer" /\ pc'[w] = "clear" /\ UNCHANGED <<secrets, p12, pending>>
        /\ cer' = [cer EXCEPT ![hand[w].ident] = hand[w].chain]
    BY <1>5 DEF TypeOK, SaveCer, Goto
  <2>2. hand[w].chain # NoKey
    BY <1>1, <2>1 DEF Reusable, Unlocks
  <2>3. cer[TeamIdent] # NoKey => cer'[TeamIdent] # NoKey
    BY <1>1, <2>1, <2>2 DEF TypeOK
  <2>4. \A c \in certs' : c.key \in overlooked' \/ Imported(c)' \/ OfTeam(c)'
    BY <1>2, <2>1, <2>3 DEF LiveInv, Imported, OfTeam
  <2> QED BY <2>1, <2>4, LiveIsAll
<1>6. CASE ClearPending(w)
  <2>1. /\ pc[w] = "clear" /\ pc'[w] = "provision" /\ UNCHANGED <<secrets, p12, cer>>
        /\ pending' = [pending EXCEPT ![hand[w].ident] = NoPending]
    BY <1>6 DEF TypeOK, ClearPending, Goto
  <2>2. cer[hand[w].ident] = hand[w].key /\ p12[hand[w].ident] = hand[w].key
    BY <1>1, <2>1 DEF Reusable
  <2>3. ASSUME NEW c, OfTeam(c) PROVE OfTeam(c)'
    <3>1. CASE hand[w].ident # TeamIdent
      <4>1. pending'[TeamIdent] = pending[TeamIdent]
        BY <1>1, <2>1, <3>1 DEF TypeOK
      <4> QED BY <2>1, <2>3, <4>1 DEF OfTeam
    <3>2. CASE hand[w].ident = TeamIdent
      BY <2>1, <2>2, <2>3, <3>2 DEF OfTeam
    <3> QED BY <3>1, <3>2
  <2>4. \A c \in certs' : c.key \in overlooked' \/ Imported(c)' \/ OfTeam(c)'
    BY <1>2, <2>1, <2>3 DEF LiveInv, Imported
  <2> QED BY <2>1, <2>4, LiveIsAll
<1>7. CASE SaveProfile(w)
  <2>1. pc'[w] = "validate" /\ UNCHANGED <<secrets, p12, cer, pending>>
    BY <1>7 DEF TypeOK, SaveProfile, Goto
  <2> QED BY <1>2, <2>1, KeysKept
<1> QED BY <1>3, <1>4, <1>5, <1>6, <1>7

\* The steps that ask AGC, and those that end a request.
LEMMA LiveRemote ==
  ASSUME OneWorker, TypeOK, StoreInv, ReuseInv, LiveInv, NEW w \in Workers,
         UploadCsr(w) \/ CertificateIssued(w) \/ CertificateRejected(w)
         \/ CreateProvision(w) \/ ProvisionRefused(w) \/ ValidateProfile(w)
  PROVE  LiveInv'
<1>1. UNCHANGED <<p12, secrets, cer, pending, overlooked>>
  BY DEF UploadCsr, CertificateIssued, CertificateRejected, CreateProvision,
         ProvisionRefused, ValidateProfile, store, agc
<1>2. pc'[w] \in {"lookup", "save_p12", "failed", "save_profile", "done"}
  BY DEF TypeOK, UploadCsr, CertificateIssued, CertificateRejected, CreateProvision,
         ProvisionRefused, ValidateProfile, Goto
<1>3. CASE UploadCsr(w)
  <2>1. hand[w].csr = pending[TeamIdent].csr /\ HasPending(pending[TeamIdent])
    BY <1>3 DEF UploadCsr, Goto, ReuseInv, Reusable
  <2>2. \A c \in certs' : c \in certs \/ c.key = hand[w].csr
    BY <1>3 DEF UploadCsr
  <2>3. ASSUME NEW c, c.key = hand[w].csr PROVE OfTeam(c)
    BY <2>1, <2>3, PendingUnlocked DEF OfTeam, HasPending
  <2>4. \A c \in certs' : c.key \in overlooked \/ Imported(c) \/ OfTeam(c)
    BY <2>2, <2>3 DEF LiveInv
  <2>5. \A c \in certs' : c.key \in overlooked' \/ Imported(c)' \/ OfTeam(c)'
    BY <1>1, <2>4 DEF Imported, OfTeam
  <2> QED BY <1>2, <2>5, LiveIsAll
<1>4. CASE ~UploadCsr(w)
  <2>1. UNCHANGED certs
    BY <1>4 DEF CertificateIssued, CertificateRejected, CreateProvision, ProvisionRefused,
                ValidateProfile, agc
  <2> QED BY <1>1, <1>2, <2>1, KeysKept
<1> QED BY <1>3, <1>4

\* AGC brings a certificate into the list, or the user deletes one.
LEMMA LiveAgc ==
  ASSUME TypeOK, LiveInv, Publish \/ Revoke
  PROVE  LiveInv'
<1>1. UNCHANGED <<p12, secrets, cer, pending, pc, overlooked>>
  BY DEF Publish, Revoke, store
<1>2. \A c \in certs' : \E d \in certs : c.key = d.key
  BY SameKeys
<1>3. \A c, d : c.key = d.key =>
        /\ Imported(d) => Imported(c)'
        /\ OfTeam(d) => OfTeam(c)'
  BY <1>1 DEF Imported, OfTeam
<1> QED BY <1>1, <1>2, <1>3 DEF LiveInv

\* The first store has the imported key, and AGC no other.
LEMMA LiveInit == Init => LiveInv
<1> SUFFICES ASSUME Init PROVE LiveInv
  OBVIOUS
<1>1. PICK imported \in SUBSET (Idents \ {TeamIdent}) :
        /\ p12 = [i \in Idents |-> IF i \in imported THEN ImportedKey ELSE NoKey]
        /\ certs \in SUBSET {[key |-> ImportedKey, name |-> 0, shown |-> "all"] : i \in imported}
  BY DEF Init
<1>2. \A c \in certs : Imported(c)
  BY <1>1 DEF Imported
<1> QED BY <1>2 DEF LiveInv

LEMMA LiveStep ==
  OneWorker /\ TypeOK /\ StoreInv /\ ReuseInv /\ LiveInv /\ [Next]_vars => LiveInv'
<1> SUFFICES ASSUME OneWorker, TypeOK, StoreInv, ReuseInv, LiveInv, [Next]_vars
             PROVE  LiveInv'
  OBVIOUS
<1>1. CASE \E w \in Workers : Work(w)
  BY <1>1, LiveRead, LiveWrite, LiveRemote DEF Work, LoadStore
<1>2. CASE \E w \in Workers : \/ Abort(w)
                              \/ \E b \in Bundles, d \in Devices : Start(w, b, d)
  <2>1. PICK w \in Workers : Abort(w) \/ \E b \in Bundles, d \in Devices : Start(w, b, d)
    BY <1>2
  <2>2. /\ pc'[w] \in {"failed", "local"}
        /\ UNCHANGED <<p12, secrets, cer, pending, certs, overlooked>>
    BY <2>1 DEF TypeOK, Abort, Start, store, agc
  <2> QED BY <2>2, KeysKept
<1>3. CASE Publish \/ Revoke
  BY <1>3, LiveAgc
<1>4. CASE UNCHANGED vars
  BY <1>4 DEF vars, store, agc, LiveInv, Imported, OfTeam
<1> QED BY <1>1, <1>2, <1>3, <1>4 DEF Next

(* With a single worker, no crash, no lost answer and no retry overwrites or locks
   out the key of a certificate in AGC, but for those that the request overlooked
   which generated the newer key. *)
THEOREM SeenKeysNeverLost == ASSUME OneWorker PROVE Spec => []SeenKeysKept
<1> DEFINE Inv == TypeOK /\ StoreInv /\ ReuseInv /\ LiveInv
<1>1. Init => Inv
  BY TypeInit, StoreInit, ReuseInit, LiveInit
<1>2. Inv /\ [Next]_vars => Inv'
  BY OneWorker, TypeStep, StoreStep, ReuseStep, LiveStep
<1>3. Inv => SeenKeysKept
  <2>1. SUFFICES ASSUME LiveInv, NEW c \in certs, c.key \notin overlooked PROVE Kept(c)
    BY DEF SeenKeysKept
  <2>2. CASE Imported(c)
    BY <2>2 DEF Kept, Imported, Unlocks, ImportedKey, NoKey
  <2>3. CASE OfTeam(c)
    BY <2>3, MaterialsAssumption DEF Kept, OfTeam, Unlocks
  <2> QED BY <2>1, <2>2, <2>3 DEF LiveInv
<1> QED BY <1>1, <1>2, <1>3, PTL DEF Spec
-----------------------------------------------------------------------------
(* The life of the team's key.                                             *)

\* With a single worker, only what that worker holds has to be looked at.
LEMMA FreshIsAll ==
  ASSUME OneWorker, NEW w \in Workers, Fresh(w)',
         p12'[TeamIdent] <= requests', cer'[TeamIdent] <= requests',
         \A c \in certs' : c.key <= requests',
         \A c \in certs' : c.key = p12'[TeamIdent] =>
           HasPending(pending'[TeamIdent]) \/ cer'[TeamIdent] = c.key
  PROVE  LifeInv'
BY DEF OneWorker, LifeInv

\* A step that leaves the team's key and AGC alone.
LEMMA LifeKept ==
  ASSUME OneWorker, LifeInv, NEW w \in Workers, Fresh(w)',
         UNCHANGED <<p12, cer, pending, certs, requests>>
  PROVE  LifeInv'
BY FreshIsAll DEF LifeInv, HasPending

\* The numbers that are compared.
LEMMA LifeTypes ==
  ASSUME TypeOK
  PROVE  /\ TeamIdent \in Idents /\ requests \in Nat
         /\ p12[TeamIdent] \in Int /\ cer[TeamIdent] \in Int
         /\ \A c \in certs : c.key \in Int
         /\ \A w \in Workers : req[w] \in Nat
BY MaterialsAssumption DEF TypeOK, Keys, NoKey, Certificates

\* What the worker knows before its step.
LEMMA LifeFacts ==
  ASSUME TypeOK, StoreInv, ReuseInv, LifeInv, NEW w \in Workers
  PROVE  Reusable(w) /\ UpToDate(w) /\ Fresh(w) /\ hand[w] \in Hands
BY DEF TypeOK, StoreInv, ReuseInv, LifeInv

\* The steps that only read.
LEMMA LifeRead ==
  ASSUME OneWorker, TypeOK, StoreInv, ReuseInv, LifeInv, NEW w \in Workers,
         FindLocal(w) \/ ReadStore(w) \/ PendingLocked(w) \/ SelectCertificate(w)
         \/ CertificateLimit(w) \/ ResumePending(w) \/ GenerateKey(w)
  PROVE  LifeInv'
<1>1. UNCHANGED <<p12, cer, pending, certs, requests, req>>
  BY DEF FindLocal, ReadStore, PendingLocked, SelectCertificate, CertificateLimit,
         ResumePending, GenerateKey, store, agc, locals, budget
<1>2. Reusable(w) /\ UpToDate(w) /\ Fresh(w)
  BY LifeFacts
<1>3. CASE FindLocal(w) \/ PendingLocked(w) \/ CertificateLimit(w) \/ ReadStore(w)
           \/ ResumePending(w)
  <2>1. /\ pc'[w] \in {"done", "store", "failed", "list", "upload"}
        /\ pc'[w] \in {"store", "list"} => pc[w] \in {"local", "store"}
    BY <1>3 DEF TypeOK, FindLocal, PendingLocked, CertificateLimit, ReadStore,
                ResumePending, Goto
  <2>2. Fresh(w)'
    BY <1>1, <1>2, <2>1 DEF Fresh
  <2> QED BY <1>1, <2>2, LifeKept
<1>4. CASE GenerateKey(w)
  <2>1. pc[w] = "list" /\ pc'[w] = "password" /\ hand'[w].key = req[w]
    BY <1>4 DEF TypeOK, GenerateKey, Goto
  <2>2. Fresh(w)'
    BY <1>1, <1>2, <2>1 DEF Fresh
  <2> QED BY <1>1, <2>2, LifeKept
<1>5. CASE SelectCertificate(w)
  <2>1. pc[w] = "list" /\ pc'[w] = "save_p12"
    BY <1>5 DEF TypeOK, SelectCertificate, Goto
  <2>2. PICK c \in Matching(w), x \in cands[w] :
          /\ x.key = c.key
          /\ hand' = [hand EXCEPT ![w] =
               [ident |-> x.ident, key |-> x.key, csr |-> NoKey, name |-> c.name,
                chain |-> c.key]]
    BY <1>5 DEF SelectCertificate
  <2>3. hand'[w].ident = x.ident /\ hand'[w].key = c.key /\ c \in certs /\ x.key = c.key
    BY <2>2 DEF TypeOK, Matching
  <2>4. x.key = p12[x.ident]
    BY <1>2, <2>1 DEF UpToDate
  <2>5. hand'[w].ident = TeamIdent /\ ~HasPending(pending[TeamIdent]) =>
          cer[TeamIdent] = hand'[w].key
    BY <2>3, <2>4 DEF LifeInv
  <2>6. Fresh(w)'
    BY <1>1, <1>2, <2>1, <2>5 DEF Fresh, HasPending
  <2> QED BY <1>1, <2>6, LifeKept
<1> QED BY <1>3, <1>4, <1>5

\* The steps that write to the store.
LEMMA LifeWrite ==
  ASSUME OneWorker, TypeOK, StoreInv, ReuseInv, LifeInv, NEW w \in Workers,
         SavePassword(w) \/ SavePendingP12(w) \/ SavePendingRecord(w) \/ SaveP12(w)
         \/ SaveCer(w) \/ ClearPending(w) \/ SaveProfile(w)
  PROVE  LifeInv'
<1>1. UNCHANGED <<hand, req, certs, requests>>
  BY DEF SavePassword, SavePendingP12, SavePendingRecord, SaveP12, SaveCer,
         ClearPending, SaveProfile, agc, locals, budget
<1>2. Reusable(w) /\ UpToDate(w) /\ Fresh(w) /\ hand[w] \in Hands /\ hand[w].ident \in Idents
  BY LifeFacts DEF Hands
<1>3. CASE SavePassword(w) \/ SaveProfile(w)
  <2>1. /\ pc[w] \in {"password", "save_profile"} /\ pc'[w] \in {"pending_p12", "validate"}
        /\ pc'[w] = "pending_p12" => pc[w] = "password"
        /\ UNCHANGED <<p12, cer, pending>>
    BY <1>3 DEF TypeOK, SavePassword, SaveProfile, Goto
  <2>2. Fresh(w)'
    BY <1>1, <1>2, <2>1 DEF Fresh
  <2> QED BY <1>1, <2>1, <2>2, LifeKept
<1>4. CASE SavePendingP12(w)
  <2>1. /\ pc[w] = "pending_p12" /\ pc'[w] = "pending_record" /\ UNCHANGED <<cer, pending>>
        /\ p12' = [p12 EXCEPT ![hand[w].ident] = hand[w].key]
    BY <1>4 DEF TypeOK, SavePendingP12, Goto
  <2>2. /\ hand[w].ident = TeamIdent /\ hand[w].key = req[w] /\ req[w] <= requests
        /\ \A c \in certs : c.key < req[w]
    BY <1>2, <2>1 DEF UpToDate, Fresh
  <2>3. p12'[TeamIdent] = req[w]
    BY <2>1, <2>2, LifeTypes DEF TypeOK
  <2>4. \A c \in certs : c.key # req[w]
    BY <2>2, LifeTypes
  <2>5. Fresh(w)'
    BY <1>1, <1>2, <2>1 DEF Fresh
  <2> QED BY <1>1, <2>1, <2>2, <2>3, <2>4, <2>5, FreshIsAll DEF LifeInv
<1>5. CASE SavePendingRecord(w)
  <2>1. /\ pc[w] = "pending_record" /\ pc'[w] = "upload" /\ UNCHANGED <<p12, cer>>
    BY <1>5 DEF TypeOK, SavePendingRecord, Goto
  <2>2. \A c \in certs : c.key # p12[TeamIdent]
    <3>1. p12[TeamIdent] = req[w] /\ \A c \in certs : c.key < req[w]
      BY <1>2, <2>1 DEF UpToDate, Fresh
    <3> QED BY <3>1, LifeTypes
  <2>3. Fresh(w)'
    BY <1>1, <1>2, <2>1 DEF Fresh
  <2> QED BY <1>1, <2>1, <2>2, <2>3, FreshIsAll DEF LifeInv
<1>6. CASE SaveP12(w)
  <2>1. /\ pc[w] = "save_p12" /\ pc'[w] = "save_cer" /\ UNCHANGED <<cer, pending>>
        /\ p12' = [p12 EXCEPT ![hand[w].ident] = hand[w].key]
    BY <1>6 DEF TypeOK, SaveP12, Goto
  <2>2. p12' = p12
    BY <1>2, <2>1 DEF TypeOK, UpToDate
  <2>3. Fresh(w)'
    BY <1>1, <1>2, <2>1 DEF Fresh, HasPending
  <2> QED BY <1>1, <2>1, <2>2, <2>3, LifeKept
<1>7. CASE SaveCer(w)
  <2>1. /\ pc[w] = "save_cer" /\ pc'[w] = "clear" /\ UNCHANGED <<p12, pending>>
        /\ cer' = [cer EXCEPT ![hand[w].ident] = hand[w].chain]
    BY <1>7 DEF TypeOK, SaveCer, Goto
  <2>2. hand[w].chain = hand[w].key /\ p12[hand[w].ident] = hand[w].key
    BY <1>2, <2>1 DEF Reusable
  <2>3. cer'[TeamIdent] = cer[TeamIdent] \/ cer'[TeamIdent] = p12[TeamIdent]
    BY <1>2, <2>1, <2>2, LifeTypes DEF TypeOK
  <2>4. Fresh(w)'
    BY <1>1, <1>2, <2>1 DEF Fresh
  <2> QED BY <1>1, <2>1, <2>3, <2>4, FreshIsAll DEF LifeInv
<1>8. CASE ClearPending(w)
  <2>1. /\ pc[w] = "clear" /\ pc'[w] = "provision" /\ UNCHANGED <<p12, cer>>
        /\ pending' = [pending EXCEPT ![hand[w].ident] = NoPending]
    BY <1>8 DEF TypeOK, ClearPending, Goto
  <2>2. cer[hand[w].ident] = hand[w].key /\ p12[hand[w].ident] = hand[w].key
    BY <1>2, <2>1 DEF Reusable
  <2>3. pending'[TeamIdent] = pending[TeamIdent] \/ cer[TeamIdent] = p12[TeamIdent]
    BY <1>2, <2>1, <2>2, LifeTypes DEF TypeOK
  <2>4. Fresh(w)'
    BY <1>1, <1>2, <2>1 DEF Fresh
  <2> QED BY <1>1, <2>1, <2>3, <2>4, FreshIsAll DEF LifeInv
<1> QED BY <1>3, <1>4, <1>5, <1>6, <1>7, <1>8

\* The steps that ask AGC, and those that end a request.
LEMMA LifeRemote ==
  ASSUME OneWorker, TypeOK, StoreInv, ReuseInv, LifeInv, NEW w \in Workers,
         UploadCsr(w) \/ CertificateIssued(w) \/ CertificateRejected(w)
         \/ CreateProvision(w) \/ ProvisionRefused(w) \/ ValidateProfile(w)
  PROVE  LifeInv'
<1>1. UNCHANGED <<p12, cer, pending, req, requests>>
  BY DEF UploadCsr, CertificateIssued, CertificateRejected, CreateProvision,
         ProvisionRefused, ValidateProfile, store, locals, budget
<1>2. Reusable(w) /\ UpToDate(w) /\ Fresh(w) /\ hand[w] \in Hands
  BY LifeFacts
<1>3. CASE UploadCsr(w)
  <2>1. pc[w] = "upload" /\ pc'[w] = "lookup"
    BY <1>3 DEF TypeOK, UploadCsr, Goto
  <2>2. HasPending(pending[TeamIdent]) /\ hand[w].csr = p12[TeamIdent]
    BY <1>2, <2>1, PendingUnlocked DEF Reusable
  <2>3. \A c \in certs' : c \in certs \/ c.key = hand[w].csr
    BY <1>3 DEF UploadCsr
  <2>4. Fresh(w)'
    BY <1>1, <1>2, <2>1 DEF Fresh
  <2> QED BY <1>1, <2>2, <2>3, <2>4, FreshIsAll DEF LifeInv, HasPending
<1>4. CASE CertificateIssued(w)
  <2>1. pc[w] = "lookup" /\ pc'[w] = "save_p12" /\ UNCHANGED certs
    BY <1>4 DEF TypeOK, CertificateIssued, Goto, agc
  <2>2. hand'[w].ident = hand[w].ident /\ hand'[w].key = hand[w].key
    BY <1>2, <1>4 DEF TypeOK, Hands, CertificateIssued
  <2>3. HasPending(pending[TeamIdent])
    BY <1>2, <2>1 DEF Reusable
  <2>5. Fresh(w)'
    BY <1>1, <1>2, <2>1, <2>2, <2>3 DEF Fresh, HasPending
  <2> QED BY <1>1, <2>1, <2>5, LifeKept
<1>5. CASE CertificateRejected(w) \/ CreateProvision(w) \/ ProvisionRefused(w)
           \/ ValidateProfile(w)
  <2>1. pc'[w] \in {"failed", "save_profile", "done"} /\ UNCHANGED certs
    BY <1>5 DEF TypeOK, CertificateRejected, CreateProvision, ProvisionRefused,
                ValidateProfile, Goto, agc
  <2>2. Fresh(w)'
    BY <1>1, <1>2, <2>1 DEF Fresh
  <2> QED BY <1>1, <2>1, <2>2, LifeKept
<1> QED BY <1>3, <1>4, <1>5

\* A new request, and the end of one.
LEMMA LifeEnds ==
  ASSUME OneWorker, TypeOK, LifeInv, NEW w \in Workers,
         Abort(w) \/ \E b \in Bundles, d \in Devices : Start(w, b, d)
  PROVE  LifeInv'
<1>1. UNCHANGED <<p12, cer, pending, certs>>
  BY DEF Abort, Start, store, agc
<1>2. Fresh(w)
  BY DEF LifeInv
<1>3. CASE Abort(w)
  <2>1. pc'[w] = "failed" /\ UNCHANGED <<req, requests>>
    BY <1>3 DEF TypeOK, Abort, locals
  <2>2. Fresh(w)'
    BY <1>2, <2>1 DEF Fresh
  <2> QED BY <1>1, <2>1, <2>2, LifeKept
<1>4. CASE \E b \in Bundles, d \in Devices : Start(w, b, d)
  <2>1. pc'[w] = "local" /\ req'[w] = requests + 1 /\ requests' = requests + 1
    BY <1>4 DEF TypeOK, Start
  <2>2. /\ p12[TeamIdent] <= requests' /\ cer[TeamIdent] <= requests'
        /\ cer[TeamIdent] < req'[w]
        /\ \A c \in certs : c.key <= requests' /\ c.key < req'[w]
    BY <2>1, LifeTypes DEF LifeInv
  <2>3. Fresh(w)'
    BY <1>1, <2>1, <2>2, LifeTypes DEF Fresh
  <2> QED BY <1>1, <2>2, <2>3, FreshIsAll DEF LifeInv
<1> QED BY <1>3, <1>4

\* AGC completes a certificate, or the user deletes one.
LEMMA LifeAgc ==
  ASSUME TypeOK, LifeInv, Publish \/ Revoke
  PROVE  LifeInv'
<1>1. UNCHANGED <<p12, cer, pending, pc, hand, req, requests>>
  BY DEF Publish, Revoke, store, locals, budget
<1>2. \A c \in certs' : \E d \in certs : c.key = d.key
  BY SameKeys
<1>3. \A w \in Workers : Fresh(w)'
  BY <1>1, <1>2 DEF LifeInv, Fresh, HasPending
<1> QED BY <1>1, <1>2, <1>3 DEF LifeInv, HasPending

LEMMA LifeInit == Init => LifeInv
<1> SUFFICES ASSUME Init PROVE LifeInv
  OBVIOUS
<1>1. PICK imported \in SUBSET (Idents \ {TeamIdent}) :
        /\ p12 = [i \in Idents |-> IF i \in imported THEN ImportedKey ELSE NoKey]
        /\ cer = p12
        /\ certs \in SUBSET {[key |-> ImportedKey, name |-> 0, shown |-> "all"] : i \in imported}
  BY DEF Init
<1>2. p12[TeamIdent] = NoKey /\ cer[TeamIdent] = NoKey /\ \A c \in certs : c.key = ImportedKey
  BY <1>1, MaterialsAssumption
<1>3. requests = 0 /\ \A w \in Workers : pc[w] = "idle" /\ req[w] = 0
  BY DEF Init
<1> QED BY <1>2, <1>3 DEF LifeInv, Fresh, ImportedKey, NoKey

LEMMA LifeStep ==
  OneWorker /\ TypeOK /\ StoreInv /\ ReuseInv /\ LifeInv /\ [Next]_vars => LifeInv'
<1> SUFFICES ASSUME OneWorker, TypeOK, StoreInv, ReuseInv, LifeInv, [Next]_vars
             PROVE  LifeInv'
  OBVIOUS
<1>1. CASE \E w \in Workers : Work(w)
  BY <1>1, LifeRead, LifeWrite, LifeRemote DEF Work, LoadStore
<1>2. CASE \E w \in Workers : \/ Abort(w)
                              \/ \E b \in Bundles, d \in Devices : Start(w, b, d)
  BY <1>2, LifeEnds
<1>3. CASE Publish \/ Revoke
  BY <1>3, LifeAgc
<1>4. CASE UNCHANGED vars
  BY <1>4 DEF vars, store, agc, locals, budget, LifeInv, Fresh, HasPending
<1> QED BY <1>1, <1>2, <1>3, <1>4 DEF Next

\* The stages of the team's key, one by one.
LEMMA Stages ==
  /\ HasPending(pending[TeamIdent]) =>
       Stage = "pending" /\ StageKey = pending[TeamIdent].csr
  /\ ~HasPending(pending[TeamIdent]) /\ p12[TeamIdent] # NoKey
       /\ cer[TeamIdent] = p12[TeamIdent] =>
       Stage = "certified" /\ StageKey = cer[TeamIdent]
  /\ ~HasPending(pending[TeamIdent])
       /\ (p12[TeamIdent] = NoKey \/ cer[TeamIdent] # p12[TeamIdent]) =>
       Stage = "none" /\ StageKey = NoKey
BY DEF Stage, StageKey

\* The same after a step.
LEMMA StagesNext ==
  /\ HasPending(pending'[TeamIdent]) =>
       Stage' = "pending" /\ StageKey' = pending'[TeamIdent].csr
  /\ ~HasPending(pending'[TeamIdent]) /\ p12'[TeamIdent] # NoKey
       /\ cer'[TeamIdent] = p12'[TeamIdent] =>
       Stage' = "certified" /\ StageKey' = cer'[TeamIdent]
  /\ ~HasPending(pending'[TeamIdent])
       /\ (p12'[TeamIdent] = NoKey \/ cer'[TeamIdent] # p12'[TeamIdent]) =>
       Stage' = "none" /\ StageKey' = NoKey
BY DEF Stage, StageKey, HasPending

\* What the stage depends on.
LEMMA StageKept ==
  ASSUME p12'[TeamIdent] = p12[TeamIdent], cer'[TeamIdent] = cer[TeamIdent],
         HasPending(pending'[TeamIdent]) <=> HasPending(pending[TeamIdent]),
         HasPending(pending[TeamIdent]) => pending'[TeamIdent] = pending[TeamIdent]
  PROVE  UNCHANGED <<Stage, StageKey>>
BY Stages, StagesNext

\* The steps of the worker that change the team's files.
LEMMA FilesLife ==
  ASSUME TypeOK, StoreInv, ReuseInv, LifeInv, NEW w \in Workers,
         SavePendingP12(w) \/ SavePendingRecord(w) \/ SaveP12(w) \/ SaveCer(w)
         \/ ClearPending(w)
  PROVE  Life!Next \/ UNCHANGED <<Stage, StageKey>>
<1>1. Reusable(w) /\ UpToDate(w) /\ Fresh(w) /\ hand[w] \in Hands /\ hand[w].ident \in Idents
  BY LifeFacts DEF Hands
<1>2. /\ TeamIdent \in Idents /\ req[w] \in Nat /\ p12[TeamIdent] \in Int
      /\ cer[TeamIdent] \in Int
  BY LifeTypes
<1>3. CASE SavePendingP12(w)
  <2>1. /\ pc[w] = "pending_p12" /\ UNCHANGED <<cer, pending>>
        /\ p12' = [p12 EXCEPT ![hand[w].ident] = hand[w].key]
    BY <1>3 DEF SavePendingP12, Goto
  <2>2. /\ hand[w].ident = TeamIdent /\ hand[w].key = req[w] /\ cer[TeamIdent] < req[w]
        /\ ~HasPending(pending[TeamIdent])
    BY <1>1, <2>1 DEF UpToDate, Fresh
  <2>3. p12'[TeamIdent] = req[w]
    BY <1>2, <2>1, <2>2 DEF TypeOK
  <2>4. cer'[TeamIdent] # p12'[TeamIdent]
    BY <1>2, <2>1, <2>2, <2>3
  <2>5. Stage' = "none" /\ StageKey' = NoKey
    BY <2>1, <2>2, <2>4, StagesNext
  <2>6. CASE Stage = "certified"
    BY <2>5, <2>6 DEF Life!Next, Life!Forget, Life!NoKey, NoKey
  <2>7. CASE Stage # "certified"
    <3>1. Stage = "none" /\ StageKey = NoKey
      BY <2>2, <2>7, Stages
    <3> QED BY <2>5, <3>1
  <2> QED BY <2>6, <2>7
<1>4. CASE SavePendingRecord(w)
  <2>1. /\ pc[w] = "pending_record" /\ UNCHANGED <<p12, cer>>
        /\ pending' = [pending EXCEPT ![hand[w].ident] =
                         [csr |-> hand[w].csr, name |-> hand[w].name]]
    BY <1>4 DEF SavePendingRecord, Goto
  <2>2. /\ hand[w].ident = TeamIdent /\ hand[w].key = req[w] /\ hand[w].csr = hand[w].key
        /\ p12[TeamIdent] = req[w] /\ cer[TeamIdent] < req[w]
        /\ ~HasPending(pending[TeamIdent])
    BY <1>1, <2>1 DEF UpToDate, Fresh
  <2>3. cer[TeamIdent] # p12[TeamIdent] /\ req[w] # NoKey
    BY <1>2, <2>2 DEF NoKey
  <2>4. Stage = "none" /\ StageKey = NoKey
    BY <2>2, <2>3, Stages
  <2>5. pending'[TeamIdent].csr = req[w]
    BY <1>2, <2>1, <2>2 DEF TypeOK
  <2>6. Stage' = "pending" /\ StageKey' = req[w]
    BY <2>3, <2>5, StagesNext DEF HasPending
  <2> QED BY <1>2, <2>3, <2>4, <2>6 DEF Life!Next, Life!Reserve
<1>5. CASE SaveP12(w)
  <2>1. /\ pc[w] = "save_p12" /\ UNCHANGED <<cer, pending>>
        /\ p12' = [p12 EXCEPT ![hand[w].ident] = hand[w].key]
    BY <1>5 DEF SaveP12, Goto
  <2>2. p12' = p12
    BY <1>1, <2>1 DEF TypeOK, UpToDate
  <2> QED BY <2>1, <2>2, StageKept
<1>6. CASE SaveCer(w)
  <2>1. /\ pc[w] = "save_cer" /\ UNCHANGED <<p12, pending>>
        /\ cer' = [cer EXCEPT ![hand[w].ident] = hand[w].chain]
    BY <1>6 DEF SaveCer, Goto
  <2>2. hand[w].chain = hand[w].key
    BY <1>1, <2>1 DEF Reusable
  <2>3. CASE HasPending(pending[TeamIdent])
    BY <2>1, <2>3, Stages, StagesNext
  <2>4. CASE ~HasPending(pending[TeamIdent])
    <3>1. hand[w].ident = TeamIdent => cer[TeamIdent] = hand[w].key
      BY <1>1, <2>1, <2>4 DEF Fresh
    <3>2. cer'[TeamIdent] = cer[TeamIdent]
      BY <1>1, <1>2, <2>1, <2>2, <3>1 DEF TypeOK
    <3> QED BY <2>1, <3>2, StageKept
  <2> QED BY <2>3, <2>4
<1>7. CASE ClearPending(w)
  <2>1. /\ pc[w] = "clear" /\ UNCHANGED <<p12, cer>>
        /\ pending' = [pending EXCEPT ![hand[w].ident] = NoPending]
    BY <1>7 DEF ClearPending, Goto
  <2>2. CASE hand[w].ident # TeamIdent
    <3>1. pending'[TeamIdent] = pending[TeamIdent]
      BY <1>2, <2>1, <2>2 DEF TypeOK
    <3> QED BY <2>1, <3>1, StageKept
  <2>3. CASE hand[w].ident = TeamIdent
    <3>1. ~HasPending(pending'[TeamIdent])
      BY <1>2, <2>1, <2>3 DEF TypeOK, HasPending, NoPending
    <3>2. CASE ~HasPending(pending[TeamIdent])
      BY <2>1, <3>1, <3>2, StageKept
    <3>3. CASE HasPending(pending[TeamIdent])
      <4>1. p12[TeamIdent] = pending[TeamIdent].csr /\ p12[TeamIdent] # NoKey
        BY <3>3, PendingUnlocked DEF HasPending
      <4>2. cer[TeamIdent] = p12[TeamIdent]
        BY <1>1, <2>1, <2>3 DEF Reusable
      <4>3. Stage = "pending" /\ StageKey = p12[TeamIdent]
        BY <3>3, <4>1, Stages
      <4>4. Stage' = "certified" /\ StageKey' = p12[TeamIdent]
        BY <2>1, <3>1, <4>1, <4>2, StagesNext
      <4> QED BY <4>3, <4>4 DEF Life!Next, Life!Certify
    <3> QED BY <3>2, <3>3
  <2> QED BY <2>2, <2>3
<1> QED BY <1>3, <1>4, <1>5, <1>6, <1>7

LEMMA LifeSimulated ==
  TypeOK /\ StoreInv /\ ReuseInv /\ LifeInv /\ [Next]_vars =>
    [Life!Next]_<<Stage, StageKey>>
<1> SUFFICES ASSUME TypeOK, StoreInv, ReuseInv, LifeInv, [Next]_vars
             PROVE  Life!Next \/ UNCHANGED <<Stage, StageKey>>
  OBVIOUS
<1>1. CASE UNCHANGED <<p12, cer, pending>>
  BY <1>1, StageKept
<1>2. ASSUME NEW w \in Workers, Work(w)
      PROVE  \/ UNCHANGED <<p12, cer, pending>>
             \/ SavePendingP12(w) \/ SavePendingRecord(w) \/ SaveP12(w) \/ SaveCer(w)
             \/ ClearPending(w)
  BY <1>2 DEF Work, store, FindLocal, LoadStore, ReadStore, PendingLocked, SelectCertificate,
     CertificateLimit, ResumePending, GenerateKey, SavePassword, UploadCsr,
     CertificateIssued, CertificateRejected, CreateProvision, ProvisionRefused,
     SaveProfile, ValidateProfile
<1>3. CASE \E w \in Workers : Work(w)
  BY <1>1, <1>2, <1>3, FilesLife
<1>4. CASE ~ \E w \in Workers : Work(w)
  <2>1. UNCHANGED <<p12, cer, pending>>
    BY <1>4 DEF Next, Abort, Start, Publish, Revoke, vars, store
  <2> QED BY <1>1, <2>1
<1> QED BY <1>3, <1>4

(* With a single worker, the store implements the life cycle of a key: a
   pending key is given up for nothing but its own certificate, whatever
   fails in between. *)
THEOREM ImplementsKeyLife == ASSUME OneWorker PROVE Spec => KeyLife
<1> DEFINE Inv == TypeOK /\ StoreInv /\ ReuseInv /\ LifeInv
<1>1. Init => Inv
  BY TypeInit, StoreInit, ReuseInit, LifeInit
<1>2. Inv /\ [Next]_vars => Inv'
  BY OneWorker, TypeStep, StoreStep, ReuseStep, LifeStep
<1>3. Init => Life!Init
  <2>1. SUFFICES ASSUME Init PROVE Life!Init
    OBVIOUS
  <2>2. pending[TeamIdent].csr = NoKey /\ p12[TeamIdent] = NoKey
    BY <2>1, MaterialsAssumption DEF Init, NoPending
  <2>3. Stage = "none" /\ StageKey = NoKey
    BY <2>2, Stages DEF HasPending
  <2> QED BY <2>3 DEF Life!Init, Life!NoKey, NoKey
<1>4. Inv /\ [Next]_vars => [Life!Next]_<<Stage, StageKey>>
  BY LifeSimulated
<1> QED BY <1>1, <1>2, <1>3, <1>4, PTL DEF Spec, KeyLife, Life!Spec
=============================================================================
