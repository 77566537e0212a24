------------------------------- MODULE Dialer -------------------------------
(***************************************************************************)
(* How a client gets and keeps its ctrl session: the reconnect loop of     *)
(* Dialer, the dial, handshake and registration of DialCtrlTLS, Close from *)
(* another goroutine, and the server's end of the sessions, which learns   *)
(* later than the client that a session is over.                           *)
(*                                                                         *)
(*   src/internal/client/dialer.go        (Dialer)                         *)
(*   src/protocol/star/ctrlclient.go      (DialCtrlTLS)                    *)
(*   src/protocol/star/handshake.go       (ClientRegisterStream, Server...)*)
(*                                                                         *)
(* A session number is used again only when nobody refers to it any more.  *)
(***************************************************************************)
EXTENDS Naturals, FiniteSets

CONSTANTS NStreams,   \* Dialer.Streams, registered in the order 1..NStreams
          Sessions,   \* session numbers
          Base,       \* reconnectBase
          Max,        \* reconnectMax
          MaxFaults,  \* bound: dial failures, broken transports and timeouts
          MayClose    \* may somebody call Close?

Streams == 1 .. NStreams

ASSUME DialerAssumption ==
    /\ NStreams \in Nat \ {0}
    /\ 0 \notin Sessions
    /\ Base \in Nat \ {0} /\ Max \in Nat /\ Base <= Max
    /\ MaxFaults \in Nat
    /\ MayClose \in BOOLEAN

VARIABLES pc,       \* where Run is
          cur,      \* the session of this round of Run's loop
          k,        \* streams registered in this round
          backoff,
          client,   \* Dialer.client, 0 for nil
          stop,     \* stopCh is closed
          closer,   \* where the caller of Close is
          target,   \* the client Close has read
          conn,     \* per session, the client's transport connection
          srv,      \* per session, the server's handleConn
          req,      \* per session, the registration request under way
          owner,    \* per stream, the session it is registered for, or 0
          faults

vars == <<pc, cur, k, backoff, client, stop, closer, target, conn, srv, req,
          owner, faults>>
server == <<srv, req, owner>>
closing == <<stop, closer, target>>

NoReq == [st |-> "none", stream |-> 0]

Init ==
    /\ pc = "top" /\ cur = 0 /\ k = 0
    /\ backoff = Base
    /\ client = 0
    /\ stop = FALSE /\ closer = "idle" /\ target = 0
    /\ conn = [s \in Sessions |-> "none"]
    /\ srv = [s \in Sessions |-> "none"]
    /\ req = [s \in Sessions |-> NoReq]
    /\ owner = [i \in Streams |-> 0]
    /\ faults = 0

Fault == faults < MaxFaults /\ faults' = faults + 1

-----------------------------------------------------------------------------
(* Dialer.Run *)

CheckStop ==
    /\ pc = "top"
    /\ pc' = IF stop THEN "returned" ELSE "dial"
    /\ UNCHANGED <<cur, k, backoff, client, closing, conn, server, faults>>

DialFails ==
    /\ pc = "dial" /\ Fault
    /\ pc' = "backoff"
    /\ UNCHANGED <<cur, k, backoff, client, closing, conn, server>>

Connect(s) ==
    /\ pc = "dial"
    /\ conn[s] \in {"none", "closed"} /\ srv[s] \in {"none", "ended"}
    /\ closer = "close" => s # target
    /\ pc' = "handshake"
    /\ cur' = s /\ k' = 0
    /\ conn' = [conn EXCEPT ![s] = "up"]
    /\ srv' = [srv EXCEPT ![s] = "live"]
    /\ req' = [req EXCEPT ![s] = NoReq]
    /\ UNCHANGED <<backoff, client, closing, owner, faults>>

Handshake ==
    /\ pc = "handshake" /\ conn[cur] = "up"
    /\ pc' = "register"
    /\ UNCHANGED <<cur, k, backoff, client, closing, conn, server, faults>>

\* ClientRegisterStream up to its Receive
Register ==
    /\ pc = "register" /\ conn[cur] = "up"
    /\ req[cur].st = "none"
    /\ req' = [req EXCEPT ![cur] = [st |-> "sent", stream |-> k + 1]]
    /\ UNCHANGED <<pc, cur, k, backoff, client, closing, conn, srv, owner, faults>>

\* Mutant: a refusal is taken for a success.
Registered_Unchecked ==
    /\ pc = "register" /\ conn[cur] = "up"
    /\ req[cur].st \in {"ok", "refused"}
    /\ req' = [req EXCEPT ![cur] = NoReq]
    /\ k' = k + 1
    /\ pc' = IF k' = NStreams THEN "publish" ELSE "register"
    /\ UNCHANGED <<cur, backoff, client, closing, conn, srv, owner, faults>>

Registered ==
    /\ pc = "register" /\ conn[cur] = "up"
    /\ req[cur].st = "ok"
    /\ req' = [req EXCEPT ![cur] = NoReq]
    /\ k' = k + 1
    /\ pc' = IF k' = NStreams THEN "publish" ELSE "register"
    /\ UNCHANGED <<cur, backoff, client, closing, conn, srv, owner, faults>>

\* The error returns of DialCtrlTLS after the connection was made; mutant: the
\* connection is not closed.
SetupFails_Leak ==
    /\ pc \in {"handshake", "register"}
    /\ \/ conn[cur] # "up" /\ UNCHANGED faults
       \/ req[cur].st = "refused" /\ UNCHANGED faults
       \/ Fault
    /\ pc' = "backoff"
    /\ UNCHANGED <<cur, k, backoff, client, closing, conn, server>>
SetupFails ==
    /\ pc \in {"handshake", "register"}
    /\ \/ conn[cur] # "up" /\ UNCHANGED faults
       \/ req[cur].st = "refused" /\ UNCHANGED faults
       \/ Fault     \* the deadline of the handshake or the registration
    /\ conn' = [conn EXCEPT ![cur] = "closed"]
    /\ pc' = "backoff"
    /\ UNCHANGED <<cur, k, backoff, client, closing, server>>

\* min(backoff*2, reconnectMax)
NextBackoff == IF backoff * 2 < Max THEN backoff * 2 ELSE Max

\* The wait after a failure: stopCh, or the timer even if stopCh is closed too.
Backoff ==
    /\ pc = "backoff"
    /\ \/ stop /\ pc' = "returned" /\ UNCHANGED backoff
       \/ pc' = "top" /\ backoff' = NextBackoff
    /\ UNCHANGED <<cur, k, client, closing, conn, server, faults>>

Publish ==
    /\ pc = "publish"
    /\ pc' = "session"
    /\ backoff' = Base
    /\ client' = cur
    /\ UNCHANGED <<cur, k, closing, conn, server, faults>>

\* client.Run returns.
SessionEnds ==
    /\ pc = "session" /\ conn[cur] # "up"
    /\ pc' = "close"
    /\ UNCHANGED <<cur, k, backoff, client, closing, conn, server, faults>>

CloseSession ==
    /\ pc = "close"
    /\ pc' = "clear"
    /\ conn' = [conn EXCEPT ![cur] = "closed"]
    /\ UNCHANGED <<cur, k, backoff, client, closing, server, faults>>

ClearClient ==
    /\ pc = "clear"
    /\ pc' = "pause"
    /\ client' = 0
    /\ UNCHANGED <<cur, k, backoff, closing, conn, server, faults>>

Pause ==
    /\ pc = "pause"
    /\ pc' \in {"top"} \union (IF stop THEN {"returned"} ELSE {})
    /\ UNCHANGED <<cur, k, backoff, client, closing, conn, server, faults>>

Run ==
    \/ CheckStop \/ Handshake \/ Register \/ Registered \/ Backoff \/ Publish
    \/ SessionEnds \/ CloseSession \/ ClearClient \/ Pause
    \/ \E s \in Sessions : Connect(s)

-----------------------------------------------------------------------------
(* Dialer.Close, called once from another goroutine. *)

Close ==
    /\ MayClose /\ closer = "idle"
    /\ stop' = TRUE /\ closer' = "read"
    /\ UNCHANGED <<pc, cur, k, backoff, client, target, conn, server, faults>>

ReadClient ==
    /\ closer = "read"
    /\ target' = client
    /\ closer' = IF client = 0 THEN "done" ELSE "close"
    /\ UNCHANGED <<pc, cur, k, backoff, client, stop, conn, server, faults>>

\* Mutant: the session is left to end by itself.
CloseClient_Skipped ==
    /\ closer = "close"
    /\ closer' = "done"
    /\ UNCHANGED <<pc, cur, k, backoff, client, stop, target, conn, server, faults>>
CloseClient ==
    /\ closer = "close"
    /\ closer' = "done"
    /\ conn' = [conn EXCEPT ![target] = "closed"]
    /\ UNCHANGED <<pc, cur, k, backoff, client, stop, target, server, faults>>

Closer == ReadClient \/ CloseClient

-----------------------------------------------------------------------------
(* The transport, and the server's end of a session. *)

Break(s) ==
    /\ conn[s] = "up" /\ Fault
    /\ conn' = [conn EXCEPT ![s] = "broken"]
    /\ UNCHANGED <<pc, cur, k, backoff, client, closing, server>>

\* ServerRegisterStream with StreamTable.Assign; it may come to a request whose
\* sender has given up meanwhile.
ServerRegister(s) ==
    /\ srv[s] = "live" /\ req[s].st = "sent"
    /\ LET i == req[s].stream IN
       IF owner[i] = 0
       THEN /\ owner' = [owner EXCEPT ![i] = s]
            /\ req' = [req EXCEPT ![s] = [st |-> "ok", stream |-> i]]
       ELSE /\ req' = [req EXCEPT ![s] = [st |-> "refused", stream |-> i]]
            /\ UNCHANGED owner
    /\ UNCHANGED <<pc, cur, k, backoff, client, closing, conn, srv, faults>>

\* Receive fails at the server and RemoveByClient runs.  On a broken transport
\* a request that was under way may be lost.
ServerNotices(s) ==
    /\ srv[s] = "live"
    /\ conn[s] = "broken" \/ (conn[s] = "closed" /\ req[s].st # "sent")
    /\ srv' = [srv EXCEPT ![s] = "ended"]
    /\ req' = [req EXCEPT ![s] = NoReq]
    /\ owner' = [i \in Streams |-> IF owner[i] = s THEN 0 ELSE owner[i]]
    /\ UNCHANGED <<pc, cur, k, backoff, client, closing, conn, faults>>

Server == \E s \in Sessions : ServerRegister(s) \/ ServerNotices(s)

Next ==
    \/ Run \/ DialFails \/ SetupFails
    \/ Close \/ Closer
    \/ Server \/ \E s \in Sessions : Break(s)

Spec == Init /\ [][Next]_vars

\* Both processes run, timers fire, and both ends learn of a broken transport
\* in the end (TCP keep-alive).  Nothing has to fail.
FairSpec ==
    /\ Spec
    /\ WF_vars(Run)
    /\ WF_vars(SetupFails /\ UNCHANGED faults)
    /\ WF_vars(Closer)
    /\ \A s \in Sessions : WF_vars(ServerRegister(s)) /\ WF_vars(ServerNotices(s))

-----------------------------------------------------------------------------
\* Types; the wait between attempts stays between its bounds.
TypeOK ==
    /\ pc \in {"top", "dial", "handshake", "register", "publish", "session",
               "close", "clear", "pause", "backoff", "returned"}
    /\ cur \in Sessions \union {0} /\ k \in 0 .. NStreams
    /\ backoff \in Base .. Max
    /\ {client, target} \subseteq Sessions \union {0}
    /\ stop \in BOOLEAN /\ closer \in {"idle", "read", "close", "done"}
    /\ conn \in [Sessions -> {"none", "up", "broken", "closed"}]
    /\ srv \in [Sessions -> {"none", "live", "ended"}]
    /\ req \in [Sessions -> [st : {"none", "sent", "ok", "refused"},
                             stream : 0 .. NStreams]]
    /\ owner \in [Streams -> Sessions \union {0}]
    /\ faults \in 0 .. MaxFaults

\* Dialer never holds more than one transport connection: a failed round and a
\* session that ended have closed theirs before the next attempt.
OneConnection ==
    \A s \in Sessions : conn[s] \in {"up", "broken"} =>
        s = cur /\ pc \notin {"top", "dial", "backoff", "pause", "returned"}

\* What Client() shows to the rest of the process is a session that has all of
\* its streams at the server, as long as the server knows it.
ClientIsRegistered ==
    client # 0 /\ srv[client] = "live" => \A i \in Streams : owner[i] = client

\* Client() never shows a session that Run has left behind for another one.
ClientIsCurrent == client # 0 => client = cur

\* Unless it is closed, once the faults are over the client is connected and all its streams are
\* registered for good, although the server may first have to learn that
\* earlier, partly registered sessions are over.
EventuallyServed ==
    <>stop \/ <>[](pc = "session" /\ \A i \in Streams : owner[i] = cur)

\* A Close that finds a session ends Run.  (One that comes while Run is dialling
\* finds none, and the session that follows goes on.)
CloseEndsSession == (target # 0) ~> (pc = "returned")
=============================================================================
