---------------------------- MODULE LoginCallback ----------------------------
(***************************************************************************)
(* Getting a token: load_or_login of src/app/workflow.rs with browser_login *)
(* of src/agc/auth.rs.  A saved token is refreshed; when that fails a       *)
(* listener is bound to a loopback port, the browser is sent to the login   *)
(* page with that port, and connections are served one after the other      *)
(* until one carries a token or the deadline has passed.  The token is      *)
(* exchanged and the result saved in the credential store.                  *)
(*                                                                         *)
(* Data.  A request arrives in two segments and its kind is one of          *)
(*   "get"       GET with tempToken in the target, headers in both segments *)
(*   "page"      GET without a token (an icon)                              *)
(*   "query"     GET with another long query, which is taken for a token    *)
(*   "post_len"  POST with the token in the second segment, Content-Length  *)
(*               being its first header                                     *)
(*   "post"      the same with another header before Content-Length         *)
(* A token is "good" when the service accepts it and "junk" otherwise.      *)
(***************************************************************************)
EXTENDS Naturals, Sequences, FiniteSets

CONSTANTS Logins,     \* resign threads, of one process or of several
          Kinds,      \* the kinds of request that may come
          Ports,      \* 1 is preferred, then 2, 3, ... (10101, 20000..20100)
          MaxQueue    \* bound: connections waiting to be accepted

ASSUME LoginAssumption ==
  /\ Kinds \subseteq {"get", "page", "query", "post_len", "post"}
  /\ Ports \subseteq Nat \ {0} /\ IsFiniteSet(Ports)
  /\ MaxQueue \in Nat

NoPort == 0

Connections == [kind : Kinds, arrived : 0..2, closed : BOOLEAN, answered : BOOLEAN]
NoConnection == [kind |-> "none", arrived |-> 0, closed |-> TRUE, answered |-> FALSE]

VARIABLES taken,     \* the ports other programs listen on
          saved,     \* TOKEN_SECRET: "none", "good" or "junk"
          valid,     \* whether the service still refreshes the saved token
          pc, port,
          late,      \* the deadline of wait_for_token has passed
          queue,     \* queue[l]: connections waiting at l's listener
          conn,      \* conn[l]: the connection accepted last
          read,      \* read[l]: how many of its segments were read
          token      \* token[l]: what wait_for_token returned

locals == <<port, late, queue, conn, read, token>>
vars   == <<taken, saved, valid, pc, locals>>

Tokens    == {"none", "good", "junk"}
Listening == {"browser", "wait", "read", "respond", "exchange", "save"}
Pcs       == {"idle", "refresh", "bind", "done", "failed"} \cup Listening
Resting   == {"idle", "done", "failed"}

InUse == taken \cup {port[l] : l \in Logins}

Goto(l, from, to) == pc[l] = from /\ pc' = [pc EXCEPT ![l] = to]

\* browser_login returns: the listener is dropped, and what waits at it.
Close(l) ==
  /\ port'  = [port EXCEPT ![l] = NoPort]
  /\ queue' = [queue EXCEPT ![l] = <<>>]
  /\ conn'  = [conn EXCEPT ![l] = NoConnection]
  /\ late'  = [late EXCEPT ![l] = FALSE]
  /\ read'  = [read EXCEPT ![l] = 0]
  /\ token' = [token EXCEPT ![l] = "none"]

Fails(l, from) ==
  /\ Goto(l, from, "failed") /\ Close(l)
  /\ UNCHANGED <<taken, saved, valid>>
-----------------------------------------------------------------------------
Start(l) ==
  /\ pc[l] \in Resting
  /\ pc' = [pc EXCEPT ![l] = "refresh"]
  /\ UNCHANGED <<taken, saved, valid, locals>>

Refreshed(l) ==
  /\ saved = "good" /\ valid
  /\ Goto(l, "refresh", "done") \/ Goto(l, "refresh", "failed")
  /\ UNCHANGED <<taken, saved, valid, locals>>

NotRefreshed(l) ==
  /\ Goto(l, "refresh", "bind")
  /\ UNCHANGED <<taken, saved, valid, locals>>

Bind(l) ==
  /\ \E p \in Ports \ InUse : /\ \A q \in Ports \ InUse : p <= q
                              /\ port' = [port EXCEPT ![l] = p]
  /\ Goto(l, "bind", "browser")
  /\ UNCHANGED <<taken, saved, valid, late, queue, conn, read, token>>

NoPortFree(l) == Ports \subseteq InUse /\ Fails(l, "bind")

OpenBrowser(l) ==
  \/ Goto(l, "browser", "wait") /\ UNCHANGED <<taken, saved, valid, locals>>
  \/ Fails(l, "browser")
-----------------------------------------------------------------------------
(* wait_for_token, handle_callback and read_request.                       *)

TimedOut(l) == late[l] /\ Fails(l, "wait")

\* Mutant: connections are accepted however late it is.
Accept_Late(l) ==
  /\ queue[l] # <<>>
  /\ Goto(l, "wait", "read")
  /\ conn'  = [conn EXCEPT ![l] = Head(queue[l])]
  /\ queue' = [queue EXCEPT ![l] = Tail(@)]
  /\ read'  = [read EXCEPT ![l] = 0]
  /\ UNCHANGED <<taken, saved, valid, port, late, token>>

\* Mutant: the request buffer is not emptied between two connections.
Accept_KeepsRead(l) ==
  /\ ~late[l] /\ queue[l] # <<>>
  /\ Goto(l, "wait", "read")
  /\ conn'  = [conn EXCEPT ![l] = Head(queue[l])]
  /\ queue' = [queue EXCEPT ![l] = Tail(@)]
  /\ UNCHANGED <<taken, saved, valid, port, late, read, token>>

Accept(l) ==
  /\ ~late[l] /\ queue[l] # <<>>
  /\ Goto(l, "wait", "read")
  /\ conn'  = [conn EXCEPT ![l] = Head(queue[l])]
  /\ queue' = [queue EXCEPT ![l] = Tail(@)]
  /\ read'  = [read EXCEPT ![l] = 0]
  /\ UNCHANGED <<taken, saved, valid, port, late, token>>

AcceptFails(l) == Fails(l, "wait")

\* Mutant: the length of the body is not looked at.
RequestComplete_HeadersOnly(kind, n) ==
  n >= (IF kind \in {"post", "post_len"} THEN 1 ELSE 2)

\* The headers are there, and the body when Content-Length is seen.  A request of
\* more than 64 KiB, where read_request stops as well (auth.rs:365), is not modelled.
RequestComplete(kind, n) ==
  /\ n >= (IF kind \in {"post", "post_len"} THEN 1 ELSE 2)
  /\ kind = "post_len" => n = 2

extract_callback_token(kind, n) ==
  CASE kind = "get" /\ n > 0                   -> "good"
    [] kind = "query" /\ n > 0                 -> "junk"
    [] kind \in {"post", "post_len"} /\ n = 2  -> "good"
    [] OTHER                                   -> "none"

ReadSome(l) ==
  /\ \E n \in (read[l] + 1)..conn[l].arrived :
        /\ read' = [read EXCEPT ![l] = n]
        /\ Goto(l, "read", IF RequestComplete(conn[l].kind, n) THEN "respond" ELSE "read")
  /\ UNCHANGED <<taken, saved, valid, port, late, queue, conn, token>>

ReadEnd(l) ==
  /\ conn[l].closed /\ read[l] = conn[l].arrived
  /\ Goto(l, "read", "respond")
  /\ UNCHANGED <<taken, saved, valid, locals>>

\* Nothing came within the read timeout (at once where an accepted stream is
\* nonblocking like its listener), or the connection was reset.
ReadFails(l) ==
  /\ conn[l].closed \/ read[l] = conn[l].arrived
  /\ Fails(l, "read")

Respond(l) ==
  /\ conn' = [conn EXCEPT ![l].answered = TRUE]
  /\ LET found == extract_callback_token(conn[l].kind, read[l]) IN
        /\ token' = [token EXCEPT ![l] = found]
        /\ Goto(l, "respond", IF found = "none" THEN "wait" ELSE "exchange")
  /\ UNCHANGED <<taken, saved, valid, port, late, queue, read>>

\* The browser closed the connection before it was answered.
RespondFails(l) == conn[l].closed /\ Fails(l, "respond")
-----------------------------------------------------------------------------
\* Mutant: the answer of the service is not checked.
Exchange_Unchecked(l) ==
  /\ Goto(l, "exchange", "save")
  /\ UNCHANGED <<taken, saved, valid, locals>>

Exchange(l) ==
  /\ token[l] = "good"
  /\ Goto(l, "exchange", "save")
  /\ UNCHANGED <<taken, saved, valid, locals>>

ExchangeFails(l) == Fails(l, "exchange")

Save(l) ==
  /\ Goto(l, "save", "done")
  /\ saved' = token[l] /\ valid' = TRUE
  /\ Close(l)
  /\ UNCHANGED taken

SaveFails(l) == Fails(l, "save")
-----------------------------------------------------------------------------
(* Time, the browser and the service.                                      *)

DeadlinePasses(l) ==
  /\ pc[l] \in {"wait", "read", "respond"} /\ ~late[l]
  /\ late' = [late EXCEPT ![l] = TRUE]
  /\ UNCHANGED <<taken, saved, valid, pc, port, queue, conn, read, token>>

Connect(l, kind) ==
  /\ pc[l] \in Listening /\ Len(queue[l]) < MaxQueue
  /\ queue' = [queue EXCEPT ![l] = Append(@,
       [kind |-> kind, arrived |-> 0, closed |-> FALSE, answered |-> FALSE])]
  /\ UNCHANGED <<taken, saved, valid, pc, port, late, conn, read, token>>

\* The browser sends a segment, or closes the connection.
Advance(c) ==
  {[c EXCEPT !.arrived = @ + 1], [c EXCEPT !.closed = TRUE]} \cap Connections

BrowserActs(l) ==
  /\ \/ /\ ~conn[l].closed
        /\ \E c \in Advance(conn[l]) : conn' = [conn EXCEPT ![l] = c]
        /\ UNCHANGED queue
     \/ /\ \E i \in DOMAIN queue[l] :
             /\ ~queue[l][i].closed
             /\ \E c \in Advance(queue[l][i]) : queue' = [queue EXCEPT ![l][i] = c]
        /\ UNCHANGED conn
  /\ UNCHANGED <<taken, saved, valid, pc, port, late, read, token>>

\* The saved token expires.
Expire ==
  /\ valid /\ valid' = FALSE
  /\ UNCHANGED <<taken, saved, pc, locals>>

\* Another program binds a free port, or releases its own.
OtherPrograms ==
  /\ taken' \in SUBSET (Ports \ {port[l] : l \in Logins})
  /\ UNCHANGED <<saved, valid, pc, locals>>

\* A token saved by an earlier run may be there.
Init ==
  /\ taken \in SUBSET Ports
  /\ saved \in {"none", "good"} /\ valid \in BOOLEAN
  /\ pc = [l \in Logins |-> "idle"]
  /\ port = [l \in Logins |-> NoPort]
  /\ late = [l \in Logins |-> FALSE]
  /\ queue = [l \in Logins |-> <<>>]
  /\ conn = [l \in Logins |-> NoConnection]
  /\ read = [l \in Logins |-> 0]
  /\ token = [l \in Logins |-> "none"]

Work(l) ==
  \/ Refreshed(l) \/ NotRefreshed(l) \/ Bind(l) \/ NoPortFree(l) \/ OpenBrowser(l)
  \/ TimedOut(l) \/ Accept(l) \/ AcceptFails(l) \/ ReadSome(l) \/ ReadEnd(l)
  \/ ReadFails(l) \/ Respond(l) \/ RespondFails(l)
  \/ Exchange(l) \/ ExchangeFails(l) \/ Save(l) \/ SaveFails(l)

Next ==
  \/ \E l \in Logins : \/ Start(l) \/ Work(l) \/ DeadlinePasses(l) \/ BrowserActs(l)
                       \/ \E kind \in Kinds : Connect(l, kind)
  \/ Expire \/ OtherPrograms

Spec == Init /\ [][Next]_vars

\* What a login does by itself.  That accept fails is possible and never due:
\* a login nobody connects to ends by its deadline.
Loop(l) == Work(l) /\ ~(pc[l] = "wait" /\ ~late[l] /\ pc'[l] = "failed")

FairSpec ==
  Spec /\ \A l \in Logins : WF_vars(Loop(l)) /\ WF_vars(DeadlinePasses(l))
-----------------------------------------------------------------------------
(* Type correctness; what is read of a connection has arrived on it.       *)
TypeOK ==
  /\ taken \in SUBSET Ports
  /\ saved \in Tokens /\ valid \in BOOLEAN
  /\ pc \in [Logins -> Pcs] /\ port \in [Logins -> Ports \cup {NoPort}]
  /\ late \in [Logins -> BOOLEAN]
  /\ queue \in [Logins -> Seq(Connections)]
  /\ conn \in [Logins -> Connections \cup {NoConnection}]
  /\ read \in [Logins -> 0..2] /\ token \in [Logins -> Tokens]
  /\ \A l \in Logins : /\ read[l] <= conn[l].arrived
                       /\ pc[l] \in {"read", "respond"} => conn[l] \in Connections

(* A browser that sent its token, all of it, and is told that the login was
   successful is right: the token was taken (handle_callback answers every
   request with "Login successful. You can close this tab."). *)
AnsweredTokenTaken ==
  \A l \in Logins :
    conn[l].answered /\ ~conn[l].closed /\ conn[l].kind \in {"get", "post", "post_len"}
      => token[l] = "good"

(* Only a token the service accepted is ever saved, and a login that ends well
   leaves one to refresh at the next start: requests that carry no token or
   something else never cost the saved one. *)
TokenKept ==
  /\ saved # "junk"
  /\ (\E l \in Logins : pc[l] = "done") => saved = "good"

(* A login ends, whatever connects to its port. *)
LoginEnds == \A l \in Logins : pc[l] \notin Resting ~> pc[l] \in Resting
=============================================================================
