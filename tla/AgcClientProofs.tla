--------------------------- MODULE AgcClientProofs ---------------------------
(***************************************************************************)
(* Proofs about AgcClient for any clients, names and number of look-ups.   *)
(***************************************************************************)
EXTENDS AgcClient, FiniteSetTheorems, TLAPS

\* The part of the type invariant the proof uses.
CallsOK ==
  /\ records \subseteq [id : Nat, name : Names, complete : BOOLEAN, visible : BOOLEAN]
  /\ IsFiniteSet(records)
  /\ name \in [Clients -> Names]
  /\ given \in [Names -> SUBSET Nat]

Inv == CallsOK /\ AnswersKept

\* At the start AGC has at most two records, with ids of their own, and no call has returned one.
LEMMA InitInv == ASSUME Names # {}, Init PROVE Inv
<1>1. records \subseteq [id : 1..2, name : Udids, complete : BOOLEAN, visible : BOOLEAN]
      /\ {r.id : r \in records} = 1..Cardinality(records)
      /\ \A r, s \in records : r.id = s.id => r = s
  BY DEF Init
<1>2. records \subseteq [id : Nat, name : Names, complete : BOOLEAN, visible : BOOLEAN]
  BY <1>1 DEF Names
<1>3. IsFiniteSet(records)
  <2>1. PICK f \in [1..2 -> records \cup {0}] :
          \A r \in records : f[r.id] = r
    <3> DEFINE g == [i \in 1..2 |-> IF \E r \in records : r.id = i
                                    THEN CHOOSE r \in records : r.id = i ELSE 0]
    <3>1. g \in [1..2 -> records \cup {0}]
      OBVIOUS
    <3>2. \A r \in records : g[r.id] = r
      BY <1>1
    <3> QED BY <3>1, <3>2
  <2>2. records \subseteq {f[1], f[2]}
    BY <1>1, <2>1
  <2>3. IsFiniteSet({f[1]} \cup {f[2]})
    BY FS_Singleton, FS_AddElement
  <2> QED BY <2>2, <2>3, FS_Subset
<1>4. name \in [Clients -> Names] /\ given \in [Names -> SUBSET Nat]
  BY DEF Init
<1>5. AnswersKept
  BY DEF Init, AnswersKept
<1> QED BY <1>2, <1>3, <1>4, <1>5 DEF Inv, CallsOK

\* Returning the only complete record listed, or the only record there is.
LEMMA ReturnInv ==
  ASSUME Inv, NEW c \in Clients, NEW r \in records,
         r.name = name[c], r.complete,
         \/ Complete(name[c]) = {r}
         \/ \A s \in records : s.name = name[c] => s = r,
         Return(c, r), UNCHANGED records
  PROVE  Inv'
<1>1. name' = name /\ given' = [given EXCEPT ![name[c]] = @ \cup {r.id}]
  BY DEF Return
<1>2. name[c] \in Names /\ r.id \in Nat
  BY DEF Inv, CallsOK
<1>3. \A n \in Names : given'[n] = IF n = name[c] THEN given[n] \cup {r.id} ELSE given[n]
  BY <1>1 DEF Inv, CallsOK
<1>4. given' \in [Names -> SUBSET Nat]
  BY <1>1, <1>2 DEF Inv, CallsOK
<1>5. \A i \in given[name[c]] : i = r.id
  <2> SUFFICES ASSUME NEW i \in given[name[c]] PROVE i = r.id
    OBVIOUS
  <2>1. PICK q \in records : /\ q.id = i /\ q.name = name[c] /\ q.complete
                             /\ q.visible \/ \A s \in records : s.name = name[c] => s = q
    BY <1>2 DEF Inv, AnswersKept
  <2>2. CASE q.visible
    <3>1. q \in Complete(name[c])
      BY <2>1, <2>2 DEF Complete, Listed
    <3>2. CASE Complete(name[c]) = {r}
      <4>1. q \in {r}
        BY <3>1, <3>2
      <4> QED BY <2>1, <4>1
    <3>3. CASE \A s \in records : s.name = name[c] => s = r
      <4>1. q = r
        BY <2>1, <3>3
      <4> QED BY <2>1, <4>1
    <3> QED BY <3>2, <3>3
  <2>3. CASE \A s \in records : s.name = name[c] => s = q
    BY <2>1, <2>3
  <2> QED BY <2>1, <2>2, <2>3
<1>6. r.visible \/ \A s \in records : s.name = name[c] => s = r
  BY DEF Complete, Listed
<1>7. AnswersKept'
  <2> SUFFICES ASSUME NEW n \in Names
               PROVE  /\ \A i, j \in given'[n] : i = j
                      /\ \A i \in given'[n] : \E q \in records :
                           /\ q.id = i /\ q.name = n /\ q.complete
                           /\ q.visible \/ \A s \in records : s.name = n => s = q
    BY DEF AnswersKept
  <2>1. CASE n = name[c]
    <3>1. \A i \in given'[n] : i = r.id
      BY <1>3, <1>5, <2>1
    <3> QED BY <1>6, <2>1, <3>1
  <2>2. CASE n # name[c]
    <3>1. given'[n] = given[n]
      BY <1>3, <2>2
    <3>2. /\ \A i, j \in given[n] : i = j
          /\ \A i \in given[n] : \E q \in records :
               /\ q.id = i /\ q.name = n /\ q.complete
               /\ q.visible \/ \A s \in records : s.name = n => s = q
      BY DEF Inv, AnswersKept
    <3> QED BY <3>1, <3>2, Zenon
  <2> QED BY <2>1, <2>2
<1> QED BY <1>1, <1>4, <1>7 DEF Inv, CallsOK

\* A record of a name that had none; nothing was returned for that name.
LEMMA AddInv ==
  ASSUME Inv, NEW n \in Names, ~Taken(n), NEW r \in NewRecords(n),
         records' = records \cup {r}, UNCHANGED <<name, given>>
  PROVE  Inv'
<1>1. Cardinality(records) \in Nat
  BY FS_CardinalityType DEF Inv, CallsOK
<1>2. r.name = n /\ r \in [id : Nat, name : Names, complete : BOOLEAN, visible : BOOLEAN]
  BY <1>1 DEF NewRecords
<1>3. CallsOK'
  BY <1>2, FS_AddElement DEF Inv, CallsOK
<1>4. given[n] = {} /\ \A q \in records : q.name # n
  BY DEF Inv, AnswersKept, Taken
<1>5. AnswersKept'
  <2> SUFFICES ASSUME NEW m \in Names
               PROVE  /\ \A i, j \in given[m] : i = j
                      /\ \A i \in given[m] : \E q \in records' :
                           /\ q.id = i /\ q.name = m /\ q.complete
                           /\ q.visible \/ \A s \in records' : s.name = m => s = q
    BY DEF AnswersKept
  <2>1. CASE m = n
    BY <1>4, <2>1
  <2>2. CASE m # n
    BY <1>2, <2>2 DEF Inv, AnswersKept
  <2> QED BY <2>1, <2>2
<1> QED BY <1>3, <1>5 DEF Inv

\* The new record is returned at once: it is the only one of its name.
LEMMA AddedInv ==
  ASSUME Inv, NEW c \in Clients, ~Taken(name[c]), NEW r \in NewRecords(name[c]),
         r.complete, records' = records \cup {r}, Return(c, r)
  PROVE  Inv'
<1>1. name[c] \in Names /\ name' = name
      /\ given' = [given EXCEPT ![name[c]] = @ \cup {r.id}]
  BY DEF Return, Inv, CallsOK
<1>2. Cardinality(records) \in Nat
  BY FS_CardinalityType DEF Inv, CallsOK
<1>3. /\ r.name = name[c] /\ r.id \in Nat
      /\ r \in [id : Nat, name : Names, complete : BOOLEAN, visible : BOOLEAN]
  BY <1>1, <1>2 DEF NewRecords
<1>4. CallsOK'
  BY <1>1, <1>3, FS_AddElement DEF Inv, CallsOK
<1>5. given[name[c]] = {}
  BY <1>1 DEF Inv, AnswersKept, Taken
<1>6. \A n \in Names : given'[n] = IF n = name[c] THEN {r.id} ELSE given[n]
  BY <1>1, <1>5 DEF Inv, CallsOK
<1>7. AnswersKept'
  <2> SUFFICES ASSUME NEW n \in Names
               PROVE  /\ \A i, j \in given'[n] : i = j
                      /\ \A i \in given'[n] : \E q \in records' :
                           /\ q.id = i /\ q.name = n /\ q.complete
                           /\ q.visible \/ \A s \in records' : s.name = n => s = q
    BY DEF AnswersKept
  <2>1. CASE n = name[c]
    <3>1. given'[n] = {r.id}
      BY <1>6, <2>1
    <3>2. \A s \in records' : s.name = n => s = r
      BY <2>1 DEF Taken
    <3> QED BY <1>3, <2>1, <3>1, <3>2
  <2>2. CASE n # name[c]
    BY <1>3, <1>6, <2>2 DEF Inv, AnswersKept
  <2> QED BY <2>1, <2>2
<1> QED BY <1>4, <1>7 DEF Inv

\* AGC completes a record or lists it.
LEMMA SettleInv == ASSUME Inv, Settle PROVE Inv'
<1>0. PICK r \in records : \E s \in {[r EXCEPT !.complete = TRUE], [r EXCEPT !.visible = TRUE]} :
        records' = (records \ {r}) \cup {s}
  BY DEF Settle
<1>1. PICK s \in {[r EXCEPT !.complete = TRUE], [r EXCEPT !.visible = TRUE]} :
        records' = (records \ {r}) \cup {s}
  BY <1>0
<1>2. UNCHANGED <<name, given>>
  BY DEF Settle, callVars
<1>3. r \in [id : Nat, name : Names, complete : BOOLEAN, visible : BOOLEAN]
  BY DEF Inv, CallsOK
<1>4. /\ s \in [id : Nat, name : Names, complete : BOOLEAN, visible : BOOLEAN]
      /\ s.id = r.id /\ s.name = r.name
      /\ r.complete => s.complete
      /\ r.visible => s.visible
  BY <1>1, <1>3
<1>5. CallsOK'
  <2>1. IsFiniteSet(records \ {r})
    BY FS_RemoveElement DEF Inv, CallsOK
  <2>2. IsFiniteSet((records \ {r}) \cup {s})
    BY <2>1, FS_AddElement
  <2> QED BY <1>1, <1>2, <1>4, <2>2 DEF Inv, CallsOK
<1>6. AnswersKept'
  <2> SUFFICES ASSUME NEW n \in Names
               PROVE  /\ \A i, j \in given[n] : i = j
                      /\ \A i \in given[n] : \E q \in records' :
                           /\ q.id = i /\ q.name = n /\ q.complete
                           /\ q.visible \/ \A t \in records' : t.name = n => t = q
    BY <1>2 DEF AnswersKept
  <2>1. \A i, j \in given[n] : i = j
    BY DEF Inv, AnswersKept
  <2>2. ASSUME NEW i \in given[n]
        PROVE  \E q \in records' :
                 /\ q.id = i /\ q.name = n /\ q.complete
                 /\ q.visible \/ \A t \in records' : t.name = n => t = q
    <3>1. PICK p \in records : /\ p.id = i /\ p.name = n /\ p.complete
                               /\ p.visible \/ \A t \in records : t.name = n => t = p
      BY DEF Inv, AnswersKept
    <3>2. CASE p = r
      <4>1. s \in records' /\ s.id = i /\ s.name = n /\ s.complete
        BY <1>1, <1>4, <3>1, <3>2
      <4>2. s.visible \/ \A t \in records' : t.name = n => t = s
        BY <1>1, <1>4, <3>1, <3>2
      <4> QED BY <4>1, <4>2
    <3>3. CASE p # r
      <4>1. p \in records'
        BY <1>1, <3>3
      <4>2. p.visible \/ \A t \in records' : t.name = n => t = p
        BY <1>1, <1>4, <3>1, <3>3
      <4> QED BY <3>1, <4>1, <4>2
    <3> QED BY <3>2, <3>3
  <2> QED BY <2>1, <2>2
<1> QED BY <1>5, <1>6 DEF Inv

\* A step that returns nothing and leaves the records alone.
LEMMA QuietInv ==
  ASSUME Inv, UNCHANGED <<records, given>>, name' \in [Clients -> Names]
  PROVE  Inv'
BY DEF Inv, CallsOK, AnswersKept

\* Every step of a client or of AGC keeps Inv.
LEMMA StepInv == Inv /\ [Next]_vars => Inv'
<1> SUFFICES ASSUME Inv, [Next]_vars PROVE Inv'
  OBVIOUS
<1> USE DEF callVars
<1>0. name \in [Clients -> Names]
  BY DEF Inv, CallsOK
<1>1. ASSUME NEW c \in Clients, InitialList(c) \/ Poll(c) PROVE Inv'
  <2>1. CASE \E r \in records : UniqueComplete(name[c], r) /\ Return(c, r)
    <3>1. PICK r \in records : Complete(name[c]) = {r} /\ Return(c, r)
      BY <2>1 DEF UniqueComplete
    <3>2. r.name = name[c] /\ r.complete
      BY <3>1 DEF Complete, Listed
    <3>3. UNCHANGED records
      BY <1>1 DEF InitialList, Poll
    <3> QED BY <3>1, <3>2, <3>3, ReturnInv
  <2>2. CASE ~\E r \in records : UniqueComplete(name[c], r) /\ Return(c, r)
    <3>1. UNCHANGED <<records, given, name>>
      BY <1>1, <2>2 DEF InitialList, Poll, Goto, NextAttempt
    <3> QED BY <1>0, <3>1, QuietInv
  <2> QED BY <2>1, <2>2
<1>2. ASSUME NEW c \in Clients, Added(c) PROVE Inv'
  <2>1. PICK r \in NewRecords(name[c]) :
          /\ records' = records \cup {r}
          /\ (r.complete /\ Return(c, r)) \/ Goto(c, "poll")
    BY <1>2 DEF Added
  <2>2. ~Taken(name[c]) /\ name[c] \in Names
    BY <1>0, <1>2 DEF Added
  <2>3. CASE r.complete /\ Return(c, r)
    BY <2>1, <2>2, <2>3, AddedInv
  <2>4. CASE Goto(c, "poll")
    BY <2>1, <2>2, <2>4, AddInv DEF Goto
  <2> QED BY <2>1, <2>3, <2>4
<1>3. ASSUME NEW c \in Clients, AddFails(c) PROVE Inv'
  <2>1. UNCHANGED <<name, given>> /\ name[c] \in Names
    BY <1>0, <1>3 DEF AddFails, Goto
  <2>2. CASE UNCHANGED records
    BY <1>0, <2>1, <2>2, QuietInv
  <2>3. CASE ~UNCHANGED records
    <3>1. /\ ~Taken(name[c])
          /\ \E r \in NewRecords(name[c]) : records' = records \cup {r}
      BY <1>3, <2>3 DEF AddFails
    <3> QED BY <2>1, <3>1, AddInv
  <2> QED BY <2>2, <2>3
<1>4. ASSUME NEW c \in Clients, Duplicate(c) PROVE Inv'
  BY <1>0, <1>4, QuietInv DEF Duplicate, Goto
<1>5. ASSUME NEW c \in Clients, NEW n \in Names, Call(c, n) PROVE Inv'
  <2>1. UNCHANGED <<records, given>> /\ name' \in [Clients -> Names]
    BY <1>0, <1>5 DEF Call
  <2> QED BY <2>1, QuietInv
<1>6. CASE UNCHANGED vars
  BY <1>0, <1>6, QuietInv DEF vars
<1> QED BY <1>1, <1>2, <1>3, <1>4, <1>5, <1>6, SettleInv DEF Next, Work

(* Calls for one name never return two different records, with any number of
   clients and of look-ups and however late AGC lists what it has. *)
THEOREM NeverTwoAnswers == ASSUME Names # {} PROVE Spec => []SameAnswer
<1>1. Init => Inv
  BY InitInv
<1>2. Inv /\ [Next]_vars => Inv'
  BY StepInv
<1>3. Inv => SameAnswer
  <2> SUFFICES ASSUME Inv, NEW n \in Names PROVE Cardinality(given[n]) <= 1
    BY DEF SameAnswer
  <2>0. \A i, j \in given[n] : i = j
    BY DEF Inv, AnswersKept
  <2>1. CASE given[n] = {}
    BY <2>1, FS_EmptySet
  <2>2. CASE given[n] # {}
    <3>1. PICK i \in given[n] : TRUE
      BY <2>2
    <3>2. given[n] = {i}
      BY <2>0, <3>1
    <3>3. Cardinality(given[n]) = 1
      BY <3>2, FS_Singleton
    <3> QED BY <3>3
  <2> QED BY <2>1, <2>2
<1> QED BY <1>1, <1>2, <1>3, PTL DEF Spec
-----------------------------------------------------------------------------
\* What a call has returned stays: AGC drops no record, and a record keeps its id
\* and its name.
CallerOK ==
  /\ records \subseteq [id : Nat, name : Names, complete : BOOLEAN, visible : BOOLEAN]
  /\ pc \in [Clients -> Pcs]
  /\ name \in [Clients -> Names]
  /\ DOMAIN result = Clients

RealInv == CallerOK /\ ReturnedIsReal

\* The step of a client c that ends in a record, or does not end well.
LEMMA CallerReal ==
  ASSUME RealInv, NEW c \in Clients,
         UNCHANGED records \/ \E r \in NewRecords(name[c]) : records' = records \cup {r},
         name' \in [Clients -> Names], Cardinality(records) \in Nat,
         \/ \E r \in records' : r.name = name[c] /\ r.complete /\ Return(c, r)
         \/ /\ \E to \in Pcs \ {"done"} : pc' = [pc EXCEPT ![c] = to]
            /\ \A d \in Clients \ {c} : result'[d] = result[d] /\ name'[d] = name[d]
            /\ DOMAIN result' = Clients
  PROVE  RealInv'
<1> USE DEF RealInv, CallerOK
<1>1. /\ records \subseteq records'
      /\ records' \subseteq [id : Nat, name : Names, complete : BOOLEAN, visible : BOOLEAN]
  BY DEF NewRecords
<1>2. CASE \E r \in records' : r.name = name[c] /\ r.complete /\ Return(c, r)
  <2>1. PICK r \in records' : r.name = name[c] /\ r.complete /\ Return(c, r)
    BY <1>2
  <2>2. /\ pc' = [pc EXCEPT ![c] = "done"] /\ name' = name
        /\ result' = [result EXCEPT ![c] = r.id]
    BY <2>1 DEF Return
  <2>3. pc' \in [Clients -> Pcs] /\ DOMAIN result' = Clients
    BY <2>2 DEF Pcs
  <2>4. result'[c] = r.id
    BY <2>2
  <2>5. \A d \in Clients \ {c} : pc'[d] = pc[d] /\ result'[d] = result[d]
    BY <2>2
  <2>6. ReturnedIsReal'
    BY <1>1, <2>1, <2>2, <2>4, <2>5 DEF ReturnedIsReal
  <2> QED BY <1>1, <2>3, <2>6
<1>3. CASE /\ \E to \in Pcs \ {"done"} : pc' = [pc EXCEPT ![c] = to]
           /\ \A d \in Clients \ {c} : result'[d] = result[d] /\ name'[d] = name[d]
           /\ DOMAIN result' = Clients
  <2>1. PICK to \in Pcs \ {"done"} : pc' = [pc EXCEPT ![c] = to]
    BY <1>3
  <2>2. pc' \in [Clients -> Pcs] /\ pc'[c] # "done"
    BY <2>1
  <2>3. \A d \in Clients \ {c} : pc'[d] = pc[d]
    BY <2>1
  <2>4. ReturnedIsReal'
    BY <1>1, <1>3, <2>2, <2>3 DEF ReturnedIsReal
  <2> QED BY <1>1, <1>3, <2>2, <2>4
<1> QED BY <1>2, <1>3

\* AGC changes nothing a call has returned.
LEMMA SettleReal == ASSUME RealInv, Settle PROVE RealInv'
<1> USE DEF RealInv, CallerOK
<1>1. PICK r \in records, s \in {[q EXCEPT !.complete = TRUE] : q \in records}
                                \cup {[q EXCEPT !.visible = TRUE] : q \in records} :
        /\ records' = (records \ {r}) \cup {s}
        /\ s \in {[r EXCEPT !.complete = TRUE], [r EXCEPT !.visible = TRUE]}
  BY DEF Settle
<1>2. UNCHANGED <<pc, name, result>>
  BY DEF Settle, callVars
<1>3. r \in [id : Nat, name : Names, complete : BOOLEAN, visible : BOOLEAN]
  OBVIOUS
<1>4. /\ s \in [id : Nat, name : Names, complete : BOOLEAN, visible : BOOLEAN]
      /\ s.id = r.id /\ s.name = r.name /\ (r.complete => s.complete)
  BY <1>1, <1>3
<1>5. records' \subseteq [id : Nat, name : Names, complete : BOOLEAN, visible : BOOLEAN]
  BY <1>1, <1>4
<1>6. \A q \in records : \E p \in records' : p.id = q.id /\ p.name = q.name
                                             /\ (q.complete => p.complete)
  BY <1>1, <1>4
<1>7. ReturnedIsReal'
  BY <1>2, <1>6 DEF ReturnedIsReal
<1> QED BY <1>2, <1>5, <1>7

LEMMA RealStep ==
  Inv /\ RealInv /\ [Next]_vars => RealInv'
<1> SUFFICES ASSUME Inv, RealInv, [Next]_vars PROVE RealInv'
  OBVIOUS
<1>0. /\ name \in [Clients -> Names] /\ Cardinality(records) \in Nat
      /\ DOMAIN result = Clients
  BY FS_CardinalityType DEF Inv, CallsOK, RealInv, CallerOK
<1>1. {"list", "add", "poll", "failed"} \subseteq Pcs \ {"done"}
  BY DEF Pcs
<1>2. ASSUME NEW c \in Clients, InitialList(c) \/ Poll(c) PROVE RealInv'
  <2>1. UNCHANGED records
    BY <1>2 DEF InitialList, Poll
  <2>2. CASE \E r \in records : UniqueComplete(name[c], r) /\ Return(c, r)
    <3>1. PICK r \in records : Complete(name[c]) = {r} /\ Return(c, r)
      BY <2>2 DEF UniqueComplete
    <3>2. r.name = name[c] /\ r.complete /\ r \in records' /\ name' = name
      BY <2>1, <3>1 DEF Complete, Listed, Return
    <3> QED BY <1>0, <2>1, <3>1, <3>2, CallerReal
  <2>3. CASE ~\E r \in records : UniqueComplete(name[c], r) /\ Return(c, r)
    <3>1. /\ \E to \in {"add", "poll", "failed"} : pc' = [pc EXCEPT ![c] = to]
          /\ UNCHANGED <<name, result>>
      BY <1>2, <2>3 DEF InitialList, Poll, Goto, NextAttempt, callVars
    <3> QED BY <1>0, <1>1, <2>1, <3>1, CallerReal
  <2> QED BY <2>2, <2>3
<1>3. ASSUME NEW c \in Clients, Added(c) PROVE RealInv'
  <2>1. PICK r \in NewRecords(name[c]) :
          /\ records' = records \cup {r}
          /\ (r.complete /\ Return(c, r)) \/ Goto(c, "poll")
    BY <1>3 DEF Added
  <2>2. r.name = name[c] /\ r \in records'
    BY <2>1 DEF NewRecords
  <2>3. CASE r.complete /\ Return(c, r)
    <3>1. name' = name
      BY <2>3 DEF Return
    <3> QED BY <1>0, <2>1, <2>2, <2>3, <3>1, CallerReal
  <2>4. CASE Goto(c, "poll")
    <3>1. pc' = [pc EXCEPT ![c] = "poll"] /\ UNCHANGED <<name, result>>
      BY <2>4 DEF Goto, callVars
    <3> QED BY <1>0, <1>1, <2>1, <3>1, CallerReal
  <2> QED BY <2>1, <2>3, <2>4
<1>4. ASSUME NEW c \in Clients, AddFails(c) \/ Duplicate(c) PROVE RealInv'
  <2>1. /\ \E to \in {"poll", "failed"} : pc' = [pc EXCEPT ![c] = to]
        /\ UNCHANGED <<name, result>>
    BY <1>4 DEF AddFails, Duplicate, Goto, callVars
  <2>2. UNCHANGED records \/ \E r \in NewRecords(name[c]) : records' = records \cup {r}
    BY <1>4 DEF AddFails, Duplicate
  <2> QED BY <1>0, <1>1, <2>1, <2>2, CallerReal
<1>5. ASSUME NEW c \in Clients, NEW n \in Names, Call(c, n) PROVE RealInv'
  <2>1. /\ \E to \in {"list", "add"} : pc' = [pc EXCEPT ![c] = to]
        /\ name' = [name EXCEPT ![c] = n] /\ result' = [result EXCEPT ![c] = NoId]
        /\ UNCHANGED records
    BY <1>5 DEF Call
  <2>2. /\ name' \in [Clients -> Names] /\ DOMAIN result' = Clients
        /\ \A d \in Clients \ {c} : result'[d] = result[d] /\ name'[d] = name[d]
    BY <1>0, <2>1
  <2> QED BY <1>0, <1>1, <2>1, <2>2, CallerReal, ZenonT(30)
<1>6. CASE UNCHANGED vars
  BY <1>6 DEF vars, callVars, RealInv, CallerOK, ReturnedIsReal
<1> QED BY <1>2, <1>3, <1>4, <1>5, <1>6, SettleReal DEF Next, Work

(* What a call returned is a record AGC has under that name, with its id, however
   many records there are and however often AGC changes them. *)
THEOREM AnswersAreReal == ASSUME Names # {} PROVE Spec => []ReturnedIsReal
<1>1. Init => Inv
  BY InitInv
<1>2. Inv /\ [Next]_vars => Inv'
  BY StepInv
<1>3. Init => RealInv
  <2> SUFFICES ASSUME Init PROVE RealInv
    OBVIOUS
  <2>1. records \subseteq [id : Nat, name : Names, complete : BOOLEAN, visible : BOOLEAN]
    BY <1>1 DEF Inv, CallsOK
  <2> QED BY <2>1 DEF Init, RealInv, CallerOK, ReturnedIsReal, Pcs
<1>4. RealInv => ReturnedIsReal
  BY DEF RealInv
<1> QED BY <1>1, <1>2, <1>3, <1>4, RealStep, PTL DEF Spec
-----------------------------------------------------------------------------
\* A record that is returned has an id; the look-ups are counted below their
\* number, or the call has failed.
CallsTyped ==
  /\ TypeOK
  /\ \A c \in Clients : attempt[c] = LookupAttempts => pc[c] \in Resting

LEMMA ReturnTyped ==
  ASSUME CallsTyped, NEW c \in Clients, NEW r \in Records, Return(c, r),
         records' \subseteq Records
  PROVE  CallsTyped'
<1>1. name[c] \in Names /\ r.id \in Ids /\ "done" \in Pcs /\ "done" \in Resting
  BY DEF CallsTyped, TypeOK, Records, Pcs, Resting
<1> QED BY <1>1 DEF Return, CallsTyped, TypeOK

LEMMA GotoTyped ==
  ASSUME CallsTyped, NEW c \in Clients, NEW to \in {"add", "poll", "failed"}, Goto(c, to),
         pc[c] \notin Resting, records' \subseteq Records
  PROVE  CallsTyped'
<1>1. to \in Pcs
  BY DEF Pcs
<1> QED BY <1>1 DEF Goto, callVars, CallsTyped, TypeOK

LEMMA NewTyped ==
  ASSUME Inv, CallsTyped, NEW c \in Clients, NEW r \in NewRecords(name[c])
  PROVE  r \in Records /\ records \cup {r} \subseteq Records
<1>1. Cardinality(records) \in Nat
  BY FS_CardinalityType DEF Inv, CallsOK
<1>2. Cardinality(records) + 1 \in Ids /\ name[c] \in Names
  BY <1>1 DEF Ids, CallsTyped, TypeOK
<1> QED BY <1>2 DEF NewRecords, Records, CallsTyped, TypeOK

LEMMA TypedStep == Inv /\ CallsTyped /\ [Next]_vars => CallsTyped'
<1> SUFFICES ASSUME Inv, CallsTyped, [Next]_vars PROVE CallsTyped'
  OBVIOUS
<1>0. records \subseteq Records
  BY DEF CallsTyped, TypeOK
<1>1. ASSUME NEW c \in Clients, InitialList(c) PROVE CallsTyped'
  BY <1>0, <1>1, ReturnTyped, GotoTyped DEF InitialList, Resting
<1>2. ASSUME NEW c \in Clients, Duplicate(c) \/ AddFails(c) PROVE CallsTyped'
  <2>1. records' \subseteq Records
    BY <1>0, <1>2, NewTyped DEF Duplicate, AddFails
  <2> QED BY <1>2, <2>1, GotoTyped DEF Duplicate, AddFails, Resting
<1>3. ASSUME NEW c \in Clients, Added(c) PROVE CallsTyped'
  <2>1. PICK r \in NewRecords(name[c]) :
          /\ records' = records \cup {r}
          /\ (r.complete /\ Return(c, r)) \/ Goto(c, "poll")
    BY <1>3 DEF Added
  <2>2. r \in Records /\ records' \subseteq Records /\ pc[c] \notin Resting
    BY <1>3, <2>1, NewTyped DEF Added, Resting
  <2> QED BY <2>1, <2>2, ReturnTyped, GotoTyped
<1>4. ASSUME NEW c \in Clients, Poll(c) PROVE CallsTyped'
  <2>1. UNCHANGED records /\ pc[c] \notin Resting /\ pc[c] = "poll"
    BY <1>4 DEF Poll, Resting
  <2>2. CASE NextAttempt(c)
    <3>1. /\ attempt' = [attempt EXCEPT ![c] = attempt[c] + 1]
          /\ pc' = [pc EXCEPT ![c] = IF attempt'[c] < LookupAttempts
                                     THEN "poll" ELSE "failed"]
          /\ UNCHANGED <<records, name, result, given>>
      BY <2>1, <2>2 DEF NextAttempt
    <3>2. attempt[c] \in 0 .. LookupAttempts /\ attempt[c] # LookupAttempts
      BY <2>1 DEF CallsTyped, TypeOK
    <3>3. attempt[c] + 1 \in 0 .. LookupAttempts
      BY <3>2, ClientAssumption
    <3>4. attempt' \in [Clients -> 0 .. LookupAttempts] /\ attempt'[c] = attempt[c] + 1
      BY <3>1, <3>3 DEF CallsTyped, TypeOK
    <3>5. pc' \in [Clients -> Pcs]
      BY <3>1 DEF CallsTyped, TypeOK, Pcs
    <3>6. attempt'[c] = LookupAttempts => pc'[c] \in Resting
      BY <3>1, <3>4, ClientAssumption DEF CallsTyped, TypeOK, Resting
    <3>7. \A d \in Clients \ {c} : attempt'[d] = attempt[d] /\ pc'[d] = pc[d]
      BY <3>1 DEF CallsTyped, TypeOK
    <3> QED BY <3>1, <3>4, <3>5, <3>6, <3>7 DEF CallsTyped, TypeOK
  <2>3. CASE ~NextAttempt(c)
    BY <1>0, <1>4, <2>1, <2>3, ReturnTyped, GotoTyped DEF Poll
  <2> QED BY <2>2, <2>3
<1>5. ASSUME NEW c \in Clients, NEW n \in Names, Call(c, n) PROVE CallsTyped'
  <2>1. 0 \in 0 .. LookupAttempts /\ 0 # LookupAttempts
        /\ {"list", "add"} \subseteq Pcs
    BY ClientAssumption DEF Pcs
  <2> QED BY <1>5, <2>1 DEF Call, CallsTyped, TypeOK
<1>6. CASE Settle
  <2>1. PICK r \in records :
          \E s \in {[r EXCEPT !.complete = TRUE], [r EXCEPT !.visible = TRUE]} :
             records' = (records \ {r}) \cup {s}
    BY <1>6 DEF Settle
  <2>2. r \in Records
    BY <1>0
  <2>3. records' \subseteq Records
    BY <1>0, <2>1, <2>2 DEF Records
  <2> QED BY <1>6, <2>3 DEF Settle, callVars, CallsTyped, TypeOK
<1>7. CASE UNCHANGED vars
  BY <1>7 DEF vars, callVars, CallsTyped, TypeOK
<1> QED BY <1>1, <1>2, <1>3, <1>4, <1>5, <1>6, <1>7 DEF Next, Work

LEMMA InitTyped == ASSUME Names # {} PROVE Init => CallsTyped
<1> SUFFICES ASSUME Init PROVE CallsTyped
  OBVIOUS
<1>1. records \subseteq Records
  BY DEF Init, Records, Ids, Names
<1>2. 0 \in 0 .. LookupAttempts /\ 0 # LookupAttempts
  BY ClientAssumption
<1> QED BY <1>1, <1>2 DEF Init, CallsTyped, TypeOK, Pcs, NoId

(* The calls and AGC's records keep their types, with any number of records; the
   look-ups of a call stay within their number. *)
THEOREM TypeCorrect == ASSUME Names # {} PROVE Spec => []TypeOK
<1>1. Init => Inv
  BY InitInv
<1>2. Inv /\ [Next]_vars => Inv'
  BY StepInv
<1>3. CallsTyped => TypeOK
  BY DEF CallsTyped
<1> QED BY <1>1, <1>2, <1>3, InitTyped, TypedStep, PTL DEF Spec
-----------------------------------------------------------------------------
(* What is left of a call.  That a call ends, if its steps are taken, is this   *)
(* number: it is positive while the call runs and every step of the call lowers *)
(* it.                                                                          *)
StepsLeft(c) ==
  CASE pc[c] = "list" -> LookupAttempts + 2
    [] pc[c] = "add"  -> LookupAttempts + 1
    [] pc[c] = "poll" -> LookupAttempts - attempt[c]
    [] OTHER -> 0

\* No step of another client or of AGC makes a call longer.
Counted(c) ==
  /\ StepsLeft(c) \in 0 .. LookupAttempts + 2
  /\ pc[c] \notin Resting => StepsLeft(c) > 0 /\ StepsLeft(c)' <= StepsLeft(c)
  /\ Work(c) => StepsLeft(c)' < StepsLeft(c)

StepsKnown(c) ==
  /\ StepsLeft(c) \in 0 .. LookupAttempts + 2
  /\ pc[c] \notin Resting => StepsLeft(c) > 0
  /\ pc[c] \in Resting => StepsLeft(c) = 0
  /\ pc[c] = "list" => StepsLeft(c) = LookupAttempts + 2
  /\ pc[c] = "add" => StepsLeft(c) = LookupAttempts + 1
  /\ pc[c] = "poll" => StepsLeft(c) = LookupAttempts - attempt[c]

StepsOK == \A c \in Clients : StepsKnown(c)

LEMMA StepsType == CallsTyped => StepsOK
<1> SUFFICES ASSUME CallsTyped, NEW c \in Clients PROVE StepsKnown(c)
  BY DEF StepsOK
<1>1. /\ pc[c] \in Pcs /\ attempt[c] \in 0 .. LookupAttempts
      /\ LookupAttempts \in Nat \ {0}
      /\ attempt[c] = LookupAttempts => pc[c] \in Resting
  BY ClientAssumption DEF CallsTyped, TypeOK
<1> QED BY <1>1 DEF StepsKnown, StepsLeft, Pcs, Resting

\* A step of a call ends it or brings it nearer to its end.
LEMMA WorkNearer ==
  ASSUME CallsTyped, NEW c \in Clients, Work(c)
  PROVE  /\ \/ pc'[c] \in Resting
            \/ pc[c] = "list" /\ pc'[c] = "add"
            \/ pc[c] \in {"list", "add"} /\ pc'[c] = "poll"
            \/ pc[c] = "poll" /\ pc'[c] = "poll" /\ attempt'[c] = attempt[c] + 1
         /\ pc[c] \notin Resting
         /\ \A d \in Clients \ {c} : pc'[d] = pc[d] /\ attempt'[d] = attempt[d]
<1> USE DEF CallsTyped, TypeOK, Resting, callVars
<1>1. ASSUME NEW r, Return(c, r)
      PROVE  pc'[c] = "done" /\ \A d \in Clients \ {c} : pc'[d] = pc[d] /\ attempt'[d] = attempt[d]
  BY <1>1 DEF Return
<1>2. ASSUME NEW to, Goto(c, to)
      PROVE  pc'[c] = to /\ \A d \in Clients \ {c} : pc'[d] = pc[d] /\ attempt'[d] = attempt[d]
  BY <1>2 DEF Goto
<1>3. CASE InitialList(c)
  <2>1. pc[c] = "list" /\ ((\E r : Return(c, r)) \/ \E to \in {"failed", "poll", "add"} : Goto(c, to))
    BY <1>3 DEF InitialList
  <2> QED BY <1>1, <1>2, <2>1
<1>4. CASE Duplicate(c) \/ Added(c) \/ AddFails(c)
  <2>1. pc[c] = "add" /\ ((\E r : Return(c, r)) \/ \E to \in {"failed", "poll"} : Goto(c, to))
    BY <1>4 DEF Duplicate, Added, AddFails
  <2> QED BY <1>1, <1>2, <2>1
<1>5. CASE Poll(c)
  <2>1. /\ pc[c] = "poll"
        /\ (\E r : Return(c, r)) \/ Goto(c, "failed") \/ NextAttempt(c)
    BY <1>5 DEF Poll
  <2>2. ASSUME NextAttempt(c)
        PROVE  /\ pc'[c] \in {"poll", "failed"} /\ attempt'[c] = attempt[c] + 1
               /\ \A d \in Clients \ {c} : pc'[d] = pc[d] /\ attempt'[d] = attempt[d]
    BY <2>2 DEF NextAttempt
  <2> QED BY <1>1, <1>2, <2>1, <2>2
<1> QED BY <1>3, <1>4, <1>5 DEF Work

(* A call of register_device or upload_csr takes at most as many requests as it has
   look-ups, and two; what other clients do at the same time, and what AGC lists
   and when, never lengthens it (client.rs:191-260, 277-341). *)
THEOREM CallsAreCounted ==
  ASSUME Names # {}
  PROVE  Spec => [][\A c \in Clients : Counted(c)]_vars
<1>1. CallsTyped /\ StepsOK /\ CallsTyped' /\ StepsOK' /\ [Next]_vars
      => \A c \in Clients : Counted(c)
  <2> SUFFICES ASSUME CallsTyped, StepsOK, CallsTyped', StepsOK', [Next]_vars,
                      NEW c \in Clients
               PROVE  Counted(c)
    OBVIOUS
  <2>1. /\ attempt[c] \in Nat /\ attempt'[c] \in Nat /\ LookupAttempts \in Nat
        /\ StepsLeft(c) \in Nat /\ StepsLeft(c)' \in Nat
    BY ClientAssumption DEF CallsTyped, TypeOK, StepsOK, StepsKnown
  <2>2. ASSUME Work(c) PROVE StepsLeft(c)' < StepsLeft(c)
    <3>1. StepsLeft(c)' \in 0 .. LookupAttempts + 2
          /\ (pc'[c] \in Resting => StepsLeft(c)' = 0)
          /\ (pc'[c] = "add" => StepsLeft(c)' = LookupAttempts + 1)
          /\ (pc'[c] = "poll" => StepsLeft(c)' = LookupAttempts - attempt'[c])
      BY DEF StepsOK, StepsKnown
    <3>2. StepsLeft(c) > 0
          /\ (pc[c] = "list" => StepsLeft(c) = LookupAttempts + 2)
          /\ (pc[c] = "add" => StepsLeft(c) = LookupAttempts + 1)
          /\ (pc[c] = "poll" => StepsLeft(c) = LookupAttempts - attempt[c])
      BY <2>2, WorkNearer DEF StepsOK, StepsKnown
    <3>3. \/ pc'[c] \in Resting
          \/ pc[c] = "list" /\ pc'[c] = "add"
          \/ pc[c] \in {"list", "add"} /\ pc'[c] = "poll"
          \/ pc[c] = "poll" /\ pc'[c] = "poll" /\ attempt'[c] = attempt[c] + 1
      BY <2>2, WorkNearer
    <3> HIDE DEF StepsLeft
    <3> QED BY <2>1, <3>1, <3>2, <3>3
  <2>3. ASSUME pc[c] \notin Resting, ~Work(c) PROVE StepsLeft(c)' = StepsLeft(c)
    <3>1. ASSUME NEW d \in Clients, NEW n \in Names, Call(d, n)
          PROVE  pc'[c] = pc[c] /\ attempt'[c] = attempt[c]
      BY <2>3, <3>1 DEF Call, CallsTyped, TypeOK
    <3>2. ASSUME NEW d \in Clients, Work(d)
          PROVE  pc'[c] = pc[c] /\ attempt'[c] = attempt[c]
      BY <2>3, <3>2, WorkNearer
    <3>3. ASSUME Settle \/ UNCHANGED vars PROVE pc'[c] = pc[c] /\ attempt'[c] = attempt[c]
      BY <3>3 DEF Settle, vars, callVars
    <3>4. pc'[c] = pc[c] /\ attempt'[c] = attempt[c]
      BY <3>1, <3>2, <3>3 DEF Next
    <3> QED BY <3>4 DEF StepsLeft
  <2>4. pc[c] \notin Resting => StepsLeft(c) > 0 /\ StepsLeft(c)' <= StepsLeft(c)
    BY <2>1, <2>2, <2>3 DEF StepsOK, StepsKnown
  <2> QED BY <2>2, <2>4 DEF Counted, StepsOK, StepsKnown
<1>2. Init => Inv
  BY InitInv
<1>3. Inv /\ [Next]_vars => Inv'
  BY StepInv
<1> QED BY <1>1, <1>2, <1>3, InitTyped, TypedStep, StepsType, PTL DEF Spec
=============================================================================
