------------------------------ MODULE AgcClient ------------------------------
(***************************************************************************)
(* register_device and upload_csr of src/agc/client.rs: both make sure     *)
(* that AGC has one record of a name (a UDID, or the name of a             *)
(* certificate) and return it.  AGC may accept a request and answer with   *)
(* nothing, list a record late, list it without its id, or refuse a name   *)
(* that is taken; several clients may ask at once and a call may be        *)
(* repeated at any time.  One action is one request and its answer.        *)
(***************************************************************************)
EXTENDS Integers, FiniteSets

CONSTANTS Clients,
          Udids,            \* names registered with register_device
          CertNames,        \* names registered with upload_csr
          LookupAttempts    \* DEVICE_ and CERTIFICATE_LOOKUP_ATTEMPTS

ASSUME ClientAssumption ==
  /\ Udids \cap CertNames = {}
  /\ LookupAttempts \in Nat \ {0}

Names == Udids \cup CertNames
Ids   == Nat \ {0}
NoId  == 0

Records == [id : Ids, name : Names, complete : BOOLEAN, visible : BOOLEAN]

VARIABLES records,    \* what AGC has
          pc, name, attempt,
          result,     \* result[c]: the id c's last call returned
          given       \* given[n]: every id a call for n has returned

callVars == <<name, attempt, result, given>>
vars == <<records, pc, callVars>>

Pcs == {"idle", "list", "add", "poll", "done", "failed"}
Resting == {"idle", "done", "failed"}

Listed(n)   == {r \in records : r.visible /\ r.name = n}
Complete(n) == {r \in Listed(n) : r.complete}
-----------------------------------------------------------------------------
Return(c, r) ==
  /\ pc'     = [pc EXCEPT ![c] = "done"]
  /\ result' = [result EXCEPT ![c] = r.id]
  /\ given'  = [given EXCEPT ![name[c]] = @ \cup {r.id}]
  /\ UNCHANGED <<name, attempt>>

Goto(c, to) == pc' = [pc EXCEPT ![c] = to] /\ UNCHANGED callVars

\* register_device lists first; upload_csr sends the CSR at once.
Call(c, n) ==
  /\ pc[c] \in Resting
  /\ name'    = [name EXCEPT ![c] = n]
  /\ attempt' = [attempt EXCEPT ![c] = 0]
  /\ result'  = [result EXCEPT ![c] = NoId]
  /\ pc'      = [pc EXCEPT ![c] = IF n \in Udids THEN "list" ELSE "add"]
  /\ UNCHANGED <<records, given>>

\* Mutant: of several complete records the first one is taken.
UniqueComplete_First(n, r) == r \in Complete(n)

UniqueComplete(n, r) == Complete(n) = {r}

InitialList(c) ==
  /\ pc[c] = "list"
  /\ \/ \E r \in records : UniqueComplete(name[c], r) /\ Return(c, r)
     \/ Cardinality(Complete(name[c])) > 1 /\ Goto(c, "failed")
     \/ /\ Complete(name[c]) = {} /\ Listed(name[c]) # {}
        /\ Goto(c, "poll")
     \/ Listed(name[c]) = {} /\ Goto(c, "add")
     \/ Goto(c, "failed")
  /\ UNCHANGED records

Taken(n) == \E r \in records : r.name = n

Duplicate(c) ==
  /\ pc[c] = "add" /\ Taken(name[c])
  /\ Goto(c, "poll")
  /\ UNCHANGED records

NewRecords(n) ==
  [id : {Cardinality(records) + 1}, name : {n}, complete : BOOLEAN, visible : BOOLEAN]

\* Mutant: a direct answer is returned without looking for its id.
Added_Unchecked(c) ==
  /\ pc[c] = "add" /\ ~Taken(name[c])
  /\ \E r \in NewRecords(name[c]) : records' = records \cup {r} /\ Return(c, r)

\* An answer with the complete record is returned; one without its id, which it
\* may lack even when AGC has one, sends the call to the look-ups.
Added(c) ==
  /\ pc[c] = "add" /\ ~Taken(name[c])
  /\ \E r \in NewRecords(name[c]) :
        /\ records' = records \cup {r}
        /\ (r.complete /\ Return(c, r)) \/ Goto(c, "poll")

\* A rejection, or a transport error before or after AGC took the request.
AddFails(c) ==
  /\ pc[c] = "add"
  /\ Goto(c, "failed")
  /\ \/ UNCHANGED records
     \/ ~Taken(name[c]) /\ \E r \in NewRecords(name[c]) : records' = records \cup {r}

\* Mutant: the look-up is repeated until the record is there.
NextAttempt_Forever(c) == Goto(c, "poll")

\* Mutant: one attempt too many.
NextAttempt_OffByOne(c) ==
  /\ attempt' = [attempt EXCEPT ![c] = @ + 1]
  /\ pc' = [pc EXCEPT ![c] = IF attempt[c] < LookupAttempts THEN "poll" ELSE "failed"]
  /\ UNCHANGED <<name, result, given>>

NextAttempt(c) ==
  /\ attempt' = [attempt EXCEPT ![c] = @ + 1]
  /\ pc' = [pc EXCEPT ![c] = IF attempt'[c] < LookupAttempts THEN "poll" ELSE "failed"]
  /\ UNCHANGED <<name, result, given>>

\* Whatever AGC has, the listing itself may fail: the attempt counts as well.
Poll(c) ==
  /\ pc[c] = "poll"
  /\ \/ \E r \in records : UniqueComplete(name[c], r) /\ Return(c, r)
     \/ Cardinality(Complete(name[c])) > 1 /\ Goto(c, "failed")
     \/ NextAttempt(c)
  /\ UNCHANGED records
-----------------------------------------------------------------------------
\* AGC: a record gets its id, or comes into the listing.
Settle ==
  /\ \E r \in records : \E s \in {[r EXCEPT !.complete = TRUE], [r EXCEPT !.visible = TRUE]} :
        s # r /\ records' = (records \ {r}) \cup {s}
  /\ UNCHANGED <<pc, callVars>>

\* Devices registered before, twice even, may be there.
Init ==
  /\ records \in {R \in SUBSET [id : 1..2, name : Udids, complete : BOOLEAN,
                                visible : BOOLEAN] :
                    /\ \A r, s \in R : r.id = s.id => r = s
                    /\ {r.id : r \in R} = 1..Cardinality(R)}
  /\ pc = [c \in Clients |-> "idle"]
  /\ name = [c \in Clients |-> CHOOSE n \in Names : TRUE]
  /\ attempt = [c \in Clients |-> 0]
  /\ result = [c \in Clients |-> NoId]
  /\ given = [n \in Names |-> {}]

Work(c) == InitialList(c) \/ Duplicate(c) \/ Added(c) \/ AddFails(c) \/ Poll(c)

Next ==
  \/ \E c \in Clients : Work(c) \/ \E n \in Names : Call(c, n)
  \/ Settle

Spec == Init /\ [][Next]_vars

\* Every request is answered or fails (the HTTP client has a timeout).
FairSpec == Spec /\ \A c \in Clients : WF_vars(Work(c))
-----------------------------------------------------------------------------
(* Type correctness; the attempts of a call stay within their number. *)
TypeOK ==
  /\ records \subseteq Records
  /\ pc \in [Clients -> Pcs] /\ name \in [Clients -> Names]
  /\ attempt \in [Clients -> 0..LookupAttempts]
  /\ result \in [Clients -> Ids \cup {NoId}]
  /\ given \in [Names -> SUBSET Ids]

(* A call that succeeds returns a record AGC has under the requested name,
   with its id: the profile is made for that device and that certificate. *)
ReturnedIsReal ==
  \A c \in Clients : pc[c] = "done" =>
    \E r \in records : r.id = result[c] /\ r.name = name[c] /\ r.complete

(* Calls for one name, repeated after lost answers or made by two clients at
   once, never return two different records. *)
SameAnswer == \A n \in Names : Cardinality(given[n]) <= 1

(* A call ends, whatever AGC lists: the look-ups are counted. *)
EveryCallEnds ==
  \A c \in Clients : pc[c] \notin Resting ~> pc[c] \in Resting

\* What makes SameAnswer inductive: a record once returned is listed, or it is
\* the only one of its name.
AnswersKept ==
  \A n \in Names :
    /\ \A i, j \in given[n] : i = j
    /\ \A i \in given[n] : \E r \in records :
         /\ r.id = i /\ r.name = n /\ r.complete
         /\ r.visible \/ \A s \in records : s.name = n => s = r
=============================================================================
