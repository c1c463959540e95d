------------------------- MODULE LoginCallbackProofs -------------------------
(* Theorems about LoginCallback, for any logins, ports and queue lengths.   *)
EXTENDS LoginCallback, TLAPS

USE LoginAssumption

\* A connection that the browser advances is still one, with its kind and answer.
LEMMA AdvanceType ==
  ASSUME NEW c \in Connections \cup {NoConnection}, ~c.closed, NEW d \in Advance(c)
  PROVE  /\ d \in Connections
         /\ d.kind = c.kind /\ d.answered = c.answered /\ d.arrived >= c.arrived
<1>1. d \in Connections /\ (d = [c EXCEPT !.arrived = @ + 1] \/ d = [c EXCEPT !.closed = TRUE])
  BY DEF Advance
<1>2. c \in Connections
  BY DEF NoConnection
<1> QED BY <1>1, <1>2 DEF Connections

\* The queue stays a queue of connections.
LEMMA QueueType ==
  ASSUME NEW q \in Seq(Connections)
  PROVE  /\ \A c \in Connections : Append(q, c) \in Seq(Connections)
         /\ q # <<>> => Tail(q) \in Seq(Connections) /\ Head(q) \in Connections
         /\ \A i \in DOMAIN q, c \in Connections : [q EXCEPT ![i] = c] \in Seq(Connections)
OBVIOUS

\* A login that ends leaves nothing behind.
LEMMA CloseType ==
  ASSUME TypeOK, NEW l \in Logins, NEW to \in {"failed", "done"},
         pc' = [pc EXCEPT ![l] = to], Close(l),
         UNCHANGED taken, saved' \in Tokens, valid' \in BOOLEAN
  PROVE  TypeOK'
<1>1. /\ pc' \in [Logins -> Pcs] /\ port' \in [Logins -> Ports \cup {NoPort}]
      /\ late' \in [Logins -> BOOLEAN] /\ read' \in [Logins -> 0..2]
      /\ token' \in [Logins -> Tokens]
  BY DEF TypeOK, Close, Pcs, Tokens
<1>2. /\ queue' \in [Logins -> Seq(Connections)]
      /\ conn' \in [Logins -> Connections \cup {NoConnection}]
  BY DEF TypeOK, Close
<1>3. \A k \in Logins : /\ read'[k] <= conn'[k].arrived
                        /\ pc'[k] \in {"read", "respond"} => conn'[k] \in Connections
  BY DEF TypeOK, Close, NoConnection
<1> QED BY <1>1, <1>2, <1>3 DEF TypeOK

\* What a login does by itself keeps the types.
LEMMA WorkType ==
  ASSUME TypeOK, NEW l \in Logins, Work(l)
  PROVE  TypeOK'
<1>1. CASE \E from \in Pcs : Fails(l, from)
  <2>1. PICK from \in Pcs : Fails(l, from)
    BY <1>1
  <2>2. pc' = [pc EXCEPT ![l] = "failed"] /\ Close(l) /\ UNCHANGED <<taken, saved, valid>>
    BY <2>1 DEF Fails, Goto
  <2>3. saved' \in Tokens /\ valid' \in BOOLEAN
    BY <2>2 DEF TypeOK
  <2> QED BY <2>2, <2>3, CloseType
<1>2. CASE /\ \E from, to \in Pcs : /\ Goto(l, from, to)
                                    /\ to \in {"read", "respond"} => from = "read"
           /\ UNCHANGED <<taken, saved, valid, locals>>
  <2>1. PICK from \in Pcs, to \in Pcs : /\ Goto(l, from, to)
                                        /\ to \in {"read", "respond"} => from = "read"
    BY <1>2
  <2>2. pc[l] = from /\ pc' = [pc EXCEPT ![l] = to]
    BY <2>1 DEF Goto
  <2>3. pc' \in [Logins -> Pcs]
    BY <2>2 DEF TypeOK
  <2>4. \A k \in Logins : pc'[k] \in {"read", "respond"} => conn[k] \in Connections
    BY <2>1, <2>2 DEF TypeOK
  <2> QED BY <1>2, <2>3, <2>4 DEF TypeOK, locals
<1>3. CASE Bind(l)
  BY <1>3 DEF Bind, Goto, TypeOK, Pcs, Listening
<1>4. CASE Accept(l)
  <2>1. /\ queue[l] \in Seq(Connections) /\ queue[l] # <<>>
        /\ Head(queue[l]) \in Connections /\ Tail(queue[l]) \in Seq(Connections)
    BY <1>4, QueueType DEF Accept, TypeOK
  <2>2. /\ pc' \in [Logins -> Pcs] /\ read' \in [Logins -> 0..2]
        /\ queue' \in [Logins -> Seq(Connections)]
        /\ conn' \in [Logins -> Connections \cup {NoConnection}]
    BY <1>4, <2>1 DEF Accept, Goto, TypeOK, Pcs, Listening
  <2>3. \A k \in Logins : /\ read'[k] <= conn'[k].arrived
                          /\ pc'[k] \in {"read", "respond"} => conn'[k] \in Connections
    BY <1>4, <2>1 DEF Accept, Goto, TypeOK, Connections
  <2>4. UNCHANGED <<taken, saved, valid, port, late, token>>
    BY <1>4 DEF Accept
  <2> QED BY <2>2, <2>3, <2>4 DEF TypeOK
<1>5. CASE ReadSome(l)
  <2>1. PICK n \in (read[l] + 1)..conn[l].arrived :
          /\ read' = [read EXCEPT ![l] = n]
          /\ Goto(l, "read", IF RequestComplete(conn[l].kind, n) THEN "respond" ELSE "read")
    BY <1>5 DEF ReadSome
  <2>2. read[l] \in 0..2 /\ conn[l].arrived \in 0..2
    BY DEF TypeOK, Connections, NoConnection
  <2>3. pc' \in [Logins -> Pcs] /\ read' \in [Logins -> 0..2]
    BY <2>1, <2>2 DEF Goto, TypeOK, Pcs, Listening
  <2>4. \A k \in Logins : /\ read'[k] <= conn[k].arrived
                          /\ pc'[k] \in {"read", "respond"} => conn[k] \in Connections
    BY <2>1, <2>2 DEF TypeOK, Goto
  <2>5. UNCHANGED <<taken, saved, valid, port, late, queue, conn, token>>
    BY <1>5 DEF ReadSome
  <2> QED BY <2>3, <2>4, <2>5 DEF TypeOK
<1>6. CASE Respond(l)
  <2>1. extract_callback_token(conn[l].kind, read[l]) \in Tokens
    BY DEF extract_callback_token, Tokens
  <2>2. pc' \in [Logins -> Pcs] /\ token' \in [Logins -> Tokens]
    BY <1>6, <2>1 DEF Respond, Goto, TypeOK, Pcs, Listening
  <2>3. conn[l] \in Connections /\ [conn[l] EXCEPT !.answered = TRUE] \in Connections
    BY <1>6 DEF Respond, Goto, TypeOK, Connections
  <2>4. /\ conn' \in [Logins -> Connections \cup {NoConnection}]
        /\ \A k \in Logins : /\ conn'[k].arrived = conn[k].arrived
                             /\ pc'[k] \in {"read", "respond"} => conn'[k] \in Connections
    BY <1>6, <2>3 DEF Respond, Goto, TypeOK
  <2> QED BY <1>6, <2>2, <2>4 DEF Respond, TypeOK
<1>7. CASE Save(l)
  <2>1. pc' = [pc EXCEPT ![l] = "done"] /\ saved' \in Tokens /\ valid' \in BOOLEAN
    BY <1>7 DEF Save, Goto, TypeOK
  <2> QED BY <1>7, <2>1, CloseType DEF Save
<1>8. ASSUME Refreshed(l) \/ NotRefreshed(l) \/ ReadEnd(l) \/ Exchange(l)
             \/ (OpenBrowser(l) /\ ~Fails(l, "browser"))
      PROVE  /\ \E from, to \in Pcs : /\ Goto(l, from, to)
                                      /\ to \in {"read", "respond"} => from = "read"
             /\ UNCHANGED <<taken, saved, valid, locals>>
  BY <1>8 DEF Refreshed, NotRefreshed, ReadEnd, Exchange, OpenBrowser, Pcs, Listening
<1>9. ASSUME \/ NoPortFree(l) \/ TimedOut(l) \/ AcceptFails(l) \/ ReadFails(l)
             \/ RespondFails(l) \/ ExchangeFails(l) \/ SaveFails(l) \/ Fails(l, "browser")
      PROVE  \E from \in Pcs : Fails(l, from)
  BY <1>9 DEF NoPortFree, TimedOut, AcceptFails, ReadFails, RespondFails,
              ExchangeFails, SaveFails, Pcs, Listening
<1> QED BY <1>1, <1>2, <1>3, <1>4, <1>5, <1>6, <1>7, <1>8, <1>9 DEF Work

\* What the browser does keeps the types.
LEMMA BrowserType ==
  ASSUME TypeOK, NEW l \in Logins, BrowserActs(l)
  PROVE  TypeOK'
<1>1. CASE /\ ~conn[l].closed
           /\ \E c \in Advance(conn[l]) : conn' = [conn EXCEPT ![l] = c]
           /\ UNCHANGED queue
  <2>1. PICK c \in Advance(conn[l]) : conn' = [conn EXCEPT ![l] = c]
    BY <1>1
  <2>2. c \in Connections /\ c.arrived >= conn[l].arrived
    BY <1>1, <2>1, AdvanceType DEF TypeOK
  <2>3. read[l] \in 0..2 /\ conn[l].arrived \in 0..2 /\ c.arrived \in 0..2
    BY <2>2 DEF TypeOK, Connections, NoConnection
  <2>4. \A k \in Logins : read[k] <= conn'[k].arrived
    BY <2>1, <2>2, <2>3 DEF TypeOK
  <2>5. \A k \in Logins : pc[k] \in {"read", "respond"} => conn'[k] \in Connections
    BY <2>1, <2>2 DEF TypeOK
  <2> QED BY <1>1, <2>1, <2>2, <2>4, <2>5 DEF BrowserActs, TypeOK
<1>2. CASE /\ \E i \in DOMAIN queue[l] :
                /\ ~queue[l][i].closed
                /\ \E c \in Advance(queue[l][i]) : queue' = [queue EXCEPT ![l][i] = c]
           /\ UNCHANGED conn
  <2>0. PICK i \in DOMAIN queue[l] :
          /\ ~queue[l][i].closed
          /\ \E c \in Advance(queue[l][i]) : queue' = [queue EXCEPT ![l][i] = c]
    BY <1>2
  <2>1. PICK c \in Advance(queue[l][i]) :
          queue' = [queue EXCEPT ![l] = [queue[l] EXCEPT ![i] = c]]
    BY <2>0
  <2>2. queue[l] \in Seq(Connections) /\ queue[l][i] \in Connections
    BY DEF TypeOK
  <2>3. [queue[l] EXCEPT ![i] = c] \in Seq(Connections)
    BY <2>0, <2>1, <2>2, QueueType, AdvanceType
  <2> QED BY <1>2, <2>1, <2>3 DEF BrowserActs, TypeOK
<1> QED BY <1>1, <1>2 DEF BrowserActs

\* Types are kept by every step.
LEMMA TypeStep == TypeOK /\ [Next]_vars => TypeOK'
<1> SUFFICES ASSUME TypeOK, [Next]_vars PROVE TypeOK'
  OBVIOUS
<1>1. ASSUME NEW l \in Logins, Start(l) PROVE TypeOK'
  BY <1>1 DEF Start, TypeOK, locals, Pcs
<1>2. ASSUME NEW l \in Logins, DeadlinePasses(l) PROVE TypeOK'
  BY <1>2 DEF DeadlinePasses, TypeOK
<1>3. ASSUME NEW l \in Logins, NEW kind \in Kinds, Connect(l, kind) PROVE TypeOK'
  <2>1. [kind |-> kind, arrived |-> 0, closed |-> FALSE, answered |-> FALSE] \in Connections
    BY DEF Connections
  <2>2. queue' \in [Logins -> Seq(Connections)]
    BY <1>3, <2>1, QueueType DEF Connect, TypeOK
  <2> QED BY <1>3, <2>2 DEF Connect, TypeOK
<1>4. CASE Expire
  BY <1>4 DEF Expire, TypeOK, locals
<1>5. CASE OtherPrograms
  BY <1>5 DEF OtherPrograms, TypeOK, locals
<1>6. CASE UNCHANGED vars
  BY <1>6 DEF vars, locals, TypeOK
<1> QED BY <1>1, <1>2, <1>3, <1>4, <1>5, <1>6, WorkType, BrowserType DEF Next

\* No login has begun.
LEMMA TypeInit == Init => TypeOK
BY DEF Init, TypeOK, Tokens, Pcs, NoConnection

(* Types, and what is read of a connection has arrived on it. *)
THEOREM TypeCorrect == Spec => []TypeOK
<1> QED BY TypeInit, TypeStep, PTL DEF Spec
-----------------------------------------------------------------------------
\* What makes TokenKept inductive: a login that is about to save has checked.
SavingInv == \A l \in Logins : pc[l] = "save" => token[l] = "good"

\* Every step keeps what is known of the saved token and of the login that saves it.
LEMMA TokenStep == TypeOK /\ SavingInv /\ TokenKept /\ [Next]_vars => (SavingInv /\ TokenKept)'
<1> SUFFICES ASSUME TypeOK, SavingInv, TokenKept, [Next]_vars
             PROVE  (SavingInv /\ TokenKept)'
  OBVIOUS
<1>1. ASSUME NEW l \in Logins, \E from \in Pcs : Fails(l, from)
      PROVE  (SavingInv /\ TokenKept)'
  BY <1>1 DEF Fails, Goto, Close, TypeOK, SavingInv, TokenKept
<1>2. ASSUME NEW l \in Logins, Save(l) PROVE (SavingInv /\ TokenKept)'
  BY <1>2 DEF Save, Goto, Close, TypeOK, SavingInv, TokenKept
<1>3. ASSUME NEW l \in Logins, Respond(l) PROVE (SavingInv /\ TokenKept)'
  BY <1>3 DEF Respond, Goto, TypeOK, SavingInv, TokenKept
<1>4. ASSUME NEW l \in Logins, Bind(l) \/ Accept(l) \/ ReadSome(l) \/ ReadEnd(l) \/ Exchange(l)
      PROVE  (SavingInv /\ TokenKept)'
  BY <1>4 DEF Bind, Accept, ReadSome, ReadEnd, Exchange, Goto, TypeOK, SavingInv,
              TokenKept, locals
<1>5. ASSUME NEW l \in Logins, \/ Refreshed(l) \/ NotRefreshed(l) \/ Start(l)
                              \/ (OpenBrowser(l) /\ ~Fails(l, "browser"))
      PROVE  (SavingInv /\ TokenKept)'
  BY <1>5 DEF Refreshed, NotRefreshed, Start, OpenBrowser, Goto, TypeOK, SavingInv,
              TokenKept, locals
<1>6. ASSUME NEW l \in Logins,
             DeadlinePasses(l) \/ BrowserActs(l) \/ \E kind \in Kinds : Connect(l, kind)
      PROVE  (SavingInv /\ TokenKept)'
  <2>1. UNCHANGED <<pc, token, saved>>
    BY <1>6 DEF DeadlinePasses, BrowserActs, Connect
  <2> QED BY <2>1 DEF SavingInv, TokenKept
<1>7. CASE Expire \/ OtherPrograms \/ UNCHANGED vars
  BY <1>7 DEF Expire, OtherPrograms, vars, locals, SavingInv, TokenKept
<1>8. {"bind", "browser", "wait", "read", "respond", "exchange", "save"} \subseteq Pcs
  BY DEF Pcs, Listening
<1> QED BY <1>1, <1>2, <1>3, <1>4, <1>5, <1>6, <1>7, <1>8 DEF Next, Work, NoPortFree,
     TimedOut, AcceptFails, ReadFails, RespondFails, ExchangeFails, SaveFails, OpenBrowser

(* Only an accepted token is ever saved, and a login that ends well leaves one. *)
THEOREM SavedTokenKept == Spec => []TokenKept
<1>1. Init => SavingInv /\ TokenKept
  BY DEF Init, SavingInv, TokenKept
<1> QED BY <1>1, TokenStep, TypeCorrect, PTL DEF Spec
-----------------------------------------------------------------------------
\* No browser puts a header before Content-Length: what the run with "post" shows
\* to be necessary.
LengthFirst == "post" \notin Kinds

\* What makes AnsweredTokenTaken inductive: a connection that waits has not been
\* answered, and one that is about to be was read to the end of the request.
AnswerInv ==
  /\ \A l \in Logins : \A i \in DOMAIN queue[l] : ~queue[l][i].answered
  /\ \A l \in Logins : pc[l] = "respond" =>
       conn[l].closed \/ RequestComplete(conn[l].kind, read[l])
  /\ AnsweredTokenTaken

\* A login's own step keeps AnswerInv.
LEMMA WorkAnswer ==
  ASSUME LengthFirst, TypeOK, AnswerInv, NEW l \in Logins, Work(l)
  PROVE  AnswerInv'
<1>1. CASE (\E from \in Pcs : Fails(l, from)) \/ Save(l)
  <2>1. /\ pc'[l] \in {"failed", "done"} /\ queue'[l] = <<>> /\ conn'[l] = NoConnection
        /\ \A k \in Logins \ {l} : /\ pc'[k] = pc[k] /\ queue'[k] = queue[k]
                                   /\ conn'[k] = conn[k] /\ read'[k] = read[k]
                                   /\ token'[k] = token[k]
    BY <1>1 DEF Fails, Save, Goto, Close, TypeOK
  <2> QED BY <2>1 DEF AnswerInv, AnsweredTokenTaken, NoConnection
<1>2. CASE Accept(l)
  <2>1. /\ queue[l] \in Seq(Connections) /\ queue[l] # <<>>
        /\ conn' = [conn EXCEPT ![l] = Head(queue[l])]
        /\ queue' = [queue EXCEPT ![l] = Tail(queue[l])]
        /\ pc' = [pc EXCEPT ![l] = "read"] /\ read' = [read EXCEPT ![l] = 0]
        /\ UNCHANGED token
    BY <1>2 DEF Accept, Goto, TypeOK
  <2>2. ~Head(queue[l]).answered
    BY <2>1 DEF AnswerInv
  <2>3. \A i \in DOMAIN Tail(queue[l]) : ~Tail(queue[l])[i].answered
    BY <2>1 DEF AnswerInv
  <2>4. \A k \in Logins : \A i \in DOMAIN queue'[k] : ~queue'[k][i].answered
    BY <2>1, <2>3 DEF AnswerInv, TypeOK
  <2>5. \A k \in Logins \ {l} : /\ pc'[k] = pc[k] /\ conn'[k] = conn[k]
                               /\ read'[k] = read[k] /\ token'[k] = token[k]
    BY <2>1 DEF TypeOK
  <2>6. pc'[l] = "read" /\ ~conn'[l].answered
    BY <2>1, <2>2 DEF TypeOK
  <2> QED BY <2>4, <2>5, <2>6 DEF AnswerInv, AnsweredTokenTaken
<1>3. CASE ReadSome(l)
  <2>1. PICK n \in (read[l] + 1)..conn[l].arrived :
          /\ read' = [read EXCEPT ![l] = n]
          /\ pc' = [pc EXCEPT ![l] = IF RequestComplete(conn[l].kind, n)
                                     THEN "respond" ELSE "read"]
    BY <1>3 DEF ReadSome, Goto
  <2>2. UNCHANGED <<queue, conn, token>>
    BY <1>3 DEF ReadSome
  <2> QED BY <2>1, <2>2 DEF AnswerInv, AnsweredTokenTaken, TypeOK
<1>4. CASE Respond(l)
  <2>1. /\ pc[l] = "respond" /\ conn' = [conn EXCEPT ![l].answered = TRUE]
        /\ token' = [token EXCEPT ![l] = extract_callback_token(conn[l].kind, read[l])]
        /\ pc'[l] # "respond" /\ UNCHANGED <<queue, read>>
        /\ \A k \in Logins \ {l} : pc'[k] = pc[k]
    BY <1>4 DEF Respond, Goto, TypeOK
  <2>2. /\ conn[l] \in Connections /\ read[l] \in 0..2
        /\ conn[l].closed \/ RequestComplete(conn[l].kind, read[l])
    BY <2>1 DEF AnswerInv, TypeOK
  <2>3. ~conn[l].closed /\ conn[l].kind \in {"get", "post_len", "post"}
          => extract_callback_token(conn[l].kind, read[l]) = "good"
    BY <2>2 DEF RequestComplete, extract_callback_token, LengthFirst, Connections
  <2>4. /\ token'[l] = extract_callback_token(conn[l].kind, read[l])
        /\ conn'[l].closed = conn[l].closed /\ conn'[l].kind = conn[l].kind
    BY <2>1, <2>2 DEF TypeOK, Connections
  <2>5. \A k \in Logins \ {l} : conn'[k] = conn[k] /\ token'[k] = token[k]
    BY <2>1 DEF TypeOK
  <2> QED BY <2>1, <2>3, <2>4, <2>5 DEF AnswerInv, AnsweredTokenTaken
<1>5. CASE ReadEnd(l)
  BY <1>5 DEF ReadEnd, Goto, AnswerInv, AnsweredTokenTaken, TypeOK, locals
<1>6. CASE /\ Bind(l) \/ Refreshed(l) \/ NotRefreshed(l) \/ Exchange(l)
              \/ (OpenBrowser(l) /\ ~Fails(l, "browser"))
  <2>1. /\ UNCHANGED <<queue, conn, read, token>>
        /\ \A k \in Logins : pc'[k] = "respond" => pc[k] = "respond"
    BY <1>6 DEF Bind, Refreshed, NotRefreshed, Exchange, OpenBrowser, Goto, TypeOK, locals
  <2> QED BY <2>1 DEF AnswerInv, AnsweredTokenTaken
<1>7. {"bind", "browser", "wait", "read", "respond", "exchange", "save"} \subseteq Pcs
  BY DEF Pcs, Listening
<1> QED BY <1>1, <1>2, <1>3, <1>4, <1>5, <1>6, <1>7 DEF Work, NoPortFree,
     TimedOut, AcceptFails, ReadFails, RespondFails, ExchangeFails, SaveFails, OpenBrowser

\* The browser sends and closes, and never changes what it asked for.
LEMMA BrowserAnswer ==
  ASSUME TypeOK, AnswerInv, NEW l \in Logins, BrowserActs(l)
  PROVE  AnswerInv'
<1>0. UNCHANGED <<pc, read, token>>
  BY DEF BrowserActs
<1>1. ASSUME ~conn[l].closed, NEW c \in Advance(conn[l]),
             conn' = [conn EXCEPT ![l] = c], UNCHANGED queue
      PROVE  AnswerInv'
  <2>1. c.kind = conn[l].kind /\ c.answered = conn[l].answered
    BY <1>1, AdvanceType DEF TypeOK
  <2>2. conn'[l] = c /\ \A k \in Logins \ {l} : conn'[k] = conn[k]
    BY <1>1 DEF TypeOK
  <2> QED BY <1>0, <1>1, <2>1, <2>2 DEF AnswerInv, AnsweredTokenTaken
<1>2. ASSUME NEW i \in DOMAIN queue[l], ~queue[l][i].closed,
             NEW c \in Advance(queue[l][i]),
             queue' = [queue EXCEPT ![l] = [queue[l] EXCEPT ![i] = c]], UNCHANGED conn
      PROVE  AnswerInv'
  <2>1. queue[l] \in Seq(Connections) /\ queue[l][i] \in Connections
    BY DEF TypeOK
  <2>2. ~c.answered
    BY <1>2, <2>1, AdvanceType DEF AnswerInv
  <2>3. \A k \in Logins : \A j \in DOMAIN queue'[k] : ~queue'[k][j].answered
    BY <1>2, <2>1, <2>2 DEF AnswerInv, TypeOK
  <2> QED BY <1>0, <1>2, <2>3 DEF AnswerInv, AnsweredTokenTaken
<1> QED BY <1>1, <1>2 DEF BrowserActs

\* Every step keeps AnswerInv.
LEMMA AnswerStep == LengthFirst /\ TypeOK /\ AnswerInv /\ [Next]_vars => AnswerInv'
<1> SUFFICES ASSUME LengthFirst, TypeOK, AnswerInv, [Next]_vars PROVE AnswerInv'
  OBVIOUS
<1>1. ASSUME NEW l \in Logins, NEW kind \in Kinds, Connect(l, kind) PROVE AnswerInv'
  <2> DEFINE c == [kind |-> kind, arrived |-> 0, closed |-> FALSE, answered |-> FALSE]
  <2>1. queue' = [queue EXCEPT ![l] = Append(queue[l], c)] /\ UNCHANGED <<pc, conn, read, token>>
    BY <1>1 DEF Connect
  <2>2. c \in Connections /\ ~c.answered
    BY DEF Connections
  <2>0. queue[l] \in Seq(Connections)
    BY DEF TypeOK
  <2>3. \A i \in DOMAIN Append(queue[l], c) : ~Append(queue[l], c)[i].answered
    <3> HIDE DEF c
    <3> QED BY <2>0, <2>2 DEF AnswerInv
  <2>4. \A k \in Logins : \A i \in DOMAIN queue'[k] : ~queue'[k][i].answered
    <3> HIDE DEF c
    <3> QED BY <2>1, <2>3 DEF AnswerInv, TypeOK
  <2> QED BY <2>1, <2>4 DEF AnswerInv, AnsweredTokenTaken
<1>2. ASSUME NEW l \in Logins, Start(l) PROVE AnswerInv'
  BY <1>2 DEF Start, AnswerInv, AnsweredTokenTaken, TypeOK, locals
<1>3. ASSUME NEW l \in Logins, DeadlinePasses(l) PROVE AnswerInv'
  BY <1>3 DEF DeadlinePasses, AnswerInv, AnsweredTokenTaken
<1>4. CASE Expire \/ OtherPrograms \/ UNCHANGED vars
  BY <1>4 DEF Expire, OtherPrograms, vars, locals, AnswerInv, AnsweredTokenTaken
<1> QED BY <1>1, <1>2, <1>3, <1>4, WorkAnswer, BrowserAnswer DEF Next

(* A browser that sent its whole token and is told that the login was successful
   is right, in whatever pieces the requests come, when Content-Length is the
   first header of every POST. *)
THEOREM AnswersAreRight == ASSUME LengthFirst PROVE Spec => []AnsweredTokenTaken
<1>1. Init => AnswerInv
  BY DEF Init, AnswerInv, AnsweredTokenTaken, NoConnection
<1>2. TypeOK /\ AnswerInv /\ [Next]_vars => AnswerInv'
  BY LengthFirst, AnswerStep
<1>3. AnswerInv => AnsweredTokenTaken
  BY DEF AnswerInv
<1> QED BY <1>1, <1>2, <1>3, TypeCorrect, PTL DEF Spec
-----------------------------------------------------------------------------
\* How many steps a login that accepts no other connection has still to do, at
\* most, at place p with n segments read.
StepsFrom(p, n) ==
  CASE p \in Resting            -> 0
    [] p \in {"save", "wait"}   -> 1
    [] p = "exchange"           -> 2
    [] p = "respond"            -> 3
    [] p = "read"               -> 6 - n
    [] p = "browser"            -> 7
    [] p = "bind"               -> 8
    [] p = "refresh"            -> 9

StepsLeft(l) == StepsFrom(pc[l], read[l])

\* A step of any actor, as seen from a login that runs: it has a number of steps
\* left, its own steps make that number smaller unless they accept a connection,
\* no other step makes it larger, and once the deadline has passed nothing is
\* accepted until the login has ended.
LoginCounted(l) ==
  pc[l] \notin Resting =>
    /\ StepsLeft(l) \in 1..9
    /\ ~Accept(l) => StepsLeft(l)' \in 0..StepsLeft(l)
    /\ Work(l) /\ ~Accept(l) => StepsLeft(l)' # StepsLeft(l)
    /\ late[l] => ~Accept(l) /\ (late'[l] \/ pc'[l] \in Resting)

\* There are steps left exactly where a login runs.
LEMMA StepsRange ==
  ASSUME NEW p \in Pcs, NEW n \in 0..2
  PROVE  /\ StepsFrom(p, n) \in 0..9
         /\ p \in Resting => StepsFrom(p, n) = 0
         /\ p \notin Resting => StepsFrom(p, n) # 0
<1>1. CASE p \in Resting
  BY <1>1 DEF StepsFrom, Resting
<1>2. CASE p \notin Resting
  <2>1. p \in {"save", "wait", "exchange", "respond", "read", "browser", "bind", "refresh"}
    BY <1>2 DEF Pcs, Listening, Resting
  <2> QED BY <1>2, <2>1 DEF StepsFrom
<1> QED BY <1>1, <1>2

LEMMA LoginRanges ==
  ASSUME TypeOK, TypeOK', NEW l \in Logins
  PROVE  /\ StepsLeft(l) \in 0..9 /\ StepsLeft(l)' \in 0..9
         /\ pc[l] \notin Resting => StepsLeft(l) # 0
         /\ pc'[l] \in Resting => StepsLeft(l)' = 0
<1>1. pc[l] \in Pcs /\ read[l] \in 0..2 /\ pc'[l] \in Pcs /\ read'[l] \in 0..2
  BY DEF TypeOK
<1> QED BY <1>1, StepsRange DEF StepsLeft

\* A login that fails, or that leaves all but its place alone.
LEMMA LoginMoves ==
  ASSUME TypeOK, NEW l \in Logins, NEW from, NEW to, Goto(l, from, to)
  PROVE  pc[l] = from /\ pc'[l] = to /\ \A k \in Logins \ {l} : pc'[k] = pc[k]
BY DEF Goto, TypeOK

LEMMA FailsEnds ==
  ASSUME TypeOK, NEW l \in Logins, NEW from, Fails(l, from)
  PROVE  /\ pc'[l] = "failed"
         /\ \A k \in Logins \ {l} : /\ pc'[k] = pc[k] /\ read'[k] = read[k]
                                    /\ late'[k] = late[k]
BY LoginMoves DEF Fails, Close, TypeOK

\* A step of a login leaves the others alone; it ends it, accepts a connection or
\* goes forward and leaves the deadline alone.
LEMMA WorkForward ==
  ASSUME TypeOK, TypeOK', NEW l \in Logins, Work(l)
  PROVE  /\ \A k \in Logins \ {l} : /\ pc'[k] = pc[k] /\ read'[k] = read[k]
                                    /\ late'[k] = late[k]
         /\ pc[l] \notin Resting
         /\ \/ pc'[l] \in Resting
            \/ Accept(l)
            \/ late'[l] = late[l] /\ StepsLeft(l)' < StepsLeft(l)
<1>1. ASSUME NEW from \in Listening \cup {"bind"}, Fails(l, from)
      PROVE  /\ \A k \in Logins \ {l} : /\ pc'[k] = pc[k] /\ read'[k] = read[k]
                                        /\ late'[k] = late[k]
             /\ pc[l] \notin Resting /\ pc'[l] \in Resting
  BY <1>1, FailsEnds DEF Fails, Goto, Listening, Resting
<1>2. CASE \/ NoPortFree(l) \/ TimedOut(l) \/ AcceptFails(l) \/ ReadFails(l)
           \/ RespondFails(l) \/ ExchangeFails(l) \/ SaveFails(l) \/ Fails(l, "browser")
  <2>1. \E from \in Listening \cup {"bind"} : Fails(l, from)
    BY <1>2 DEF NoPortFree, TimedOut, AcceptFails, ReadFails, RespondFails,
                ExchangeFails, SaveFails, Listening
  <2> QED BY <1>1, <2>1
<1>3. CASE Save(l)
  <2>1. Goto(l, "save", "done") /\ Close(l)
    BY <1>3 DEF Save
  <2>2. pc[l] = "save" /\ pc'[l] = "done" /\ \A k \in Logins \ {l} : pc'[k] = pc[k]
    BY <2>1, LoginMoves
  <2>3. \A k \in Logins \ {l} : read'[k] = read[k] /\ late'[k] = late[k]
    BY <2>1 DEF Close, TypeOK
  <2> QED BY <2>2, <2>3 DEF Resting
<1>4. CASE Accept(l)
  <2>1. /\ Goto(l, "wait", "read") /\ read' = [read EXCEPT ![l] = 0]
        /\ UNCHANGED late
    BY <1>4 DEF Accept
  <2> QED BY <1>4, <2>1, LoginMoves DEF TypeOK, Resting
<1>5. CASE ReadSome(l)
  <2>1. PICK n \in (read[l] + 1)..conn[l].arrived :
          /\ read' = [read EXCEPT ![l] = n]
          /\ Goto(l, "read", IF RequestComplete(conn[l].kind, n) THEN "respond" ELSE "read")
    BY <1>5 DEF ReadSome
  <2>2. read[l] \in 0..2 /\ conn[l].arrived \in 0..2 /\ n \in 0..2 /\ n > read[l]
    BY <2>1 DEF TypeOK, Connections, NoConnection
  <2>3. /\ pc[l] = "read" /\ pc'[l] \in {"respond", "read"} /\ read'[l] = n
        /\ \A k \in Logins \ {l} : pc'[k] = pc[k] /\ read'[k] = read[k]
    BY <2>1, LoginMoves DEF TypeOK
  <2>4. StepsLeft(l)' < StepsLeft(l)
    BY <2>2, <2>3 DEF StepsLeft, StepsFrom, Resting
  <2> QED BY <1>5, <2>3, <2>4 DEF ReadSome, Resting
<1>6. CASE Bind(l) \/ Respond(l)
  <2>1. /\ \/ Goto(l, "bind", "browser")
           \/ Goto(l, "respond", "wait")
           \/ Goto(l, "respond", "exchange")
        /\ UNCHANGED <<late, read>>
    BY <1>6 DEF Bind, Respond
  <2>2. StepsLeft(l)' < StepsLeft(l)
    BY <2>1, LoginMoves DEF StepsLeft, StepsFrom, Resting
  <2> QED BY <2>1, <2>2, LoginMoves DEF Resting
<1>7. CASE \/ Refreshed(l) \/ NotRefreshed(l) \/ ReadEnd(l) \/ Exchange(l)
           \/ (OpenBrowser(l) /\ ~Fails(l, "browser"))
  <2>1. /\ \/ Goto(l, "refresh", "done") \/ Goto(l, "refresh", "failed")
           \/ Goto(l, "refresh", "bind") \/ Goto(l, "read", "respond")
           \/ Goto(l, "exchange", "save") \/ Goto(l, "browser", "wait")
        /\ UNCHANGED <<late, read>>
    BY <1>7 DEF Refreshed, NotRefreshed, ReadEnd, Exchange, OpenBrowser, locals
  <2>2. read[l] \in 0..2
    BY DEF TypeOK
  <2>3. StepsLeft(l)' < StepsLeft(l)
    BY <2>1, <2>2, LoginMoves DEF StepsLeft, StepsFrom, Resting
  <2> QED BY <2>1, <2>3, LoginMoves DEF Resting
<1> QED BY <1>2, <1>3, <1>4, <1>5, <1>6, <1>7 DEF Work, OpenBrowser

\* Every step of the system counts every login.
LEMMA LoginsStep ==
  ASSUME TypeOK, TypeOK', [Next]_vars, NEW l \in Logins
  PROVE  LoginCounted(l)
<1> SUFFICES ASSUME pc[l] \notin Resting PROVE LoginCounted(l)
  BY DEF LoginCounted
<1>1. StepsLeft(l) \in 1..9 /\ StepsLeft(l)' \in 0..9
  <2>1. 1..9 = 0..9 \ {0}
    OBVIOUS
  <2> QED BY <2>1, LoginRanges
<1>2. late[l] => ~Accept(l)
  BY DEF Accept
<1>3. CASE Work(l)
  <2>1. pc'[l] \in Resting => StepsLeft(l)' = 0
    BY LoginRanges
  <2> QED BY <1>1, <1>2, <1>3, <2>1, WorkForward DEF LoginCounted
<1>4. CASE ~Work(l)
  <2>1. pc'[l] = pc[l] /\ read'[l] = read[l] /\ (late[l] => late'[l])
    <3>1. ASSUME NEW k \in Logins, Work(k)
          PROVE  pc'[l] = pc[l] /\ read'[l] = read[l] /\ (late[l] => late'[l])
      <4>1. k # l
        BY <1>4, <3>1
      <4> QED BY <3>1, <4>1, WorkForward
    <3>2. ASSUME NEW k \in Logins, Start(k)
          PROVE  pc'[l] = pc[l] /\ read'[l] = read[l] /\ (late[l] => late'[l])
      BY <3>2 DEF Start, TypeOK, locals
    <3>3. ASSUME NEW k \in Logins,
                 DeadlinePasses(k) \/ BrowserActs(k) \/ \E kind \in Kinds : Connect(k, kind)
          PROVE  pc'[l] = pc[l] /\ read'[l] = read[l] /\ (late[l] => late'[l])
      BY <3>3 DEF DeadlinePasses, BrowserActs, Connect, TypeOK
    <3>4. CASE Expire \/ OtherPrograms \/ UNCHANGED vars
      BY <3>4 DEF Expire, OtherPrograms, vars, locals
    <3> QED BY <3>1, <3>2, <3>3, <3>4 DEF Next
  <2>2. StepsLeft(l)' = StepsLeft(l)
    BY <2>1 DEF StepsLeft
  <2>3. ~Accept(l)
    BY <1>4 DEF Work
  <2> QED BY <1>1, <1>2, <1>4, <2>1, <2>2, <2>3 DEF LoginCounted
<1> QED BY <1>3, <1>4

(* Whatever the browser, other programs and other logins do, a login that accepts   *)
(* no connection any more ends after at most nine steps of its own, and when its    *)
(* deadline has passed it accepts none.  This is the variant behind LoginEnds: only *)
(* a new connection sends wait_for_token back to reading, its loop looks at the     *)
(* deadline before each, and read_request takes at most what was sent               *)
(* (auth.rs:310-370).                                                               *)
THEOREM LoginsAreCounted == Spec => [][\A l \in Logins : LoginCounted(l)]_vars
<1>1. TypeOK /\ TypeOK' /\ [Next]_vars => [\A l \in Logins : LoginCounted(l)]_vars
  BY LoginsStep
<1> QED BY <1>1, TypeInit, TypeStep, PTL DEF Spec
=============================================================================
