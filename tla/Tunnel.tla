------------------------------- MODULE Tunnel -------------------------------
(***************************************************************************)
(* The data plane of one star session: external users, the server's proxy  *)
(* handler and CtrlHub, the two directions of the session, the client's    *)
(* CtrlClient and the intranet backends.                                   *)
(*                                                                         *)
(*   server  src/internal/star/starserver/proxy_server.go  (handleConn)    *)
(*           src/internal/handler/star/ctrl_hub.go         (CtrlHub)       *)
(*           src/internal/handler/star/ctrlproxy.go        (read loop)     *)
(*   client  src/protocol/star/ctrlclient.go               (CtrlClient)    *)
(*                                                                         *)
(* S[c] is the server's state of connection c, C[c] the client's.  A chunk *)
(* of data is one unit of window credit and is named by its position in its*)
(* direction.  Goroutines that send on the session have an outbox each: a  *)
(* frame in it means that the goroutine is inside Session.Send.            *)
(*                                                                         *)
(* Window.Acquire is the one step of module Window in which it succeeds or *)
(* fails; Window shows that a caller waits exactly as long as it must.     *)
(***************************************************************************)
EXTENDS Integers, Sequences, FiniteSets

CONSTANTS Conns,     \* connection ids in the order CtrlHub assigns them: 1..n
          StreamIDs, \* ids of the streams this client registered
          MaxUp,     \* bound: chunks each user sends
          MaxDown,   \* bound: chunks each backend sends
          Win,       \* DefaultStreamWindow, in chunks
          Batch,     \* the 64KB of ReleaseRecv, in chunks
          QCap,      \* capacity of a connection's queue at the client (32)
          SinkCap,   \* capacity of ConnEntry.Sink (downlinkQueue)
          LinkCap,   \* frames the transport buffers in one direction
          Events,    \* what the environment may do besides sending data
          Slow       \* connections whose backend need not read

EventKinds == {"userEOF", "userReset", "backendEOF", "backendReset",
               "dialFail", "timeout", "drop"}

ASSUME TunnelAssumption ==
    /\ Conns \subseteq Nat \ {0}
    /\ StreamIDs \subseteq Nat \ {0}
    /\ MaxUp \in [Conns -> Nat]
    /\ MaxDown \in [Conns -> Nat]
    /\ {Win, Batch, QCap, SinkCap, LinkCap} \subseteq Nat \ {0}
    /\ Events \subseteq EventKinds
    /\ Slow \subseteq Conns

VARIABLES S,        \* server side of every connection
          C,        \* client side of every connection
          streams,  \* ids in StreamTable.byID
          s2c, c2s, \* frames in transit
          sess,     \* "up" or "down": the transport connection
          sAlive,   \* the server's read loop of the session runs
          cAlive,   \* CtrlClient.Run runs
          srl,      \* chunk the server's read loop is putting into a Sink
          crl,      \* item the client's read loop is putting into a queue
          crlOut,   \* outbox of the client's read loop
          crash     \* the client process has panicked

vars == <<S, C, streams, s2c, c2s, sess, sAlive, cAlive, srl, crl, crlOut, crash>>
links == <<s2c, c2s, sess>>
serverLoop == <<streams, sAlive, srl>>
clientLoop == <<cAlive, crl, crlOut, crash>>

-----------------------------------------------------------------------------
(* Frames (src/protocol/star/message.go).  v is the chunk of a data frame, *)
(* 1 or 0 for an accepting or refusing ack, the delta of a window update.  *)

Frame(t, c, v) == [t |-> t, c |-> c, v |-> v]
None == [t |-> "none", c |-> 0, v |-> 0]

\* A window update without payload; DecodeControl rejects it.
Undecodable == 0

\* The nil payload that asks the client's write pump to CloseWrite.
NilItem == 0

NoItem == <<0, 0>>

ServerConn ==
    [up |-> "off", stream |-> 0, waiting |-> FALSE, ack |-> "none",
     hub |-> FALSE, sink |-> <<>>, done |-> FALSE, remoteClosed |-> FALSE,
     out |-> 0, winClosed |-> FALSE, upDone |-> FALSE, downDone |-> FALSE,
     down |-> "off", torn |-> FALSE, mcClosed |-> FALSE, pending |-> 0,
     outU |-> None, outD |-> None, sent |-> 0, got |-> <<>>]

ClientConn ==
    [reg |-> FALSE, inQ |-> FALSE, q |-> <<>>, qClosed |-> FALSE,
     out |-> 0, winClosed |-> FALSE, wp |-> "off", up |-> "off",
     conn |-> "none", eof |-> FALSE, outW |-> None, outP |-> None,
     sent |-> 0, got |-> <<>>]

Init ==
    /\ S = [c \in Conns |-> ServerConn]
    /\ C = [c \in Conns |-> ClientConn]
    /\ streams = StreamIDs
    /\ s2c = <<>> /\ c2s = <<>>
    /\ sess = "up"
    /\ sAlive = TRUE /\ cAlive = TRUE
    /\ srl = NoItem /\ crl = NoItem /\ crlOut = None
    /\ crash = FALSE

\* Session.Send returns nil: the frame is in transit, or lost on a broken
\* transport that this side has not noticed yet.
SendOK(link, alive, f) ==
    \/ sess = "up" /\ Len(link) < LinkCap /\ link' = Append(link, f)
    \/ sess = "down" /\ alive /\ UNCHANGED link

\* Session.Send returns an error.
SendErr(link) == sess = "down" /\ UNCHANGED link

SetS(c, r) == S' = [S EXCEPT ![c] = r]
SetC(c, r) == C' = [C EXCEPT ![c] = r]

-----------------------------------------------------------------------------
(* Server: one external connection (ProxyServer.handleConn).               *)

\* ConnEntry.close
EntryClosed(r) == [r EXCEPT !.done = TRUE, !.winClosed = TRUE]

\* handleConn's teardown, run by the goroutine with outbox o: only a mapping
\* that is still there is closed and announced to the client, and mc is closed
\* after that announcement was sent.
Teardown(c, r, o) ==
    IF r.torn THEN r
    ELSE IF r.hub
         THEN [EntryClosed(r) EXCEPT !.torn = TRUE, !.hub = FALSE,
                                     ![o] = Frame("full", c, 0)]
         ELSE [r EXCEPT !.torn = TRUE, !.mcClosed = TRUE]

\* Mutant: only the uplink checks whether both directions have finished.
BothFinished_UplinkOnly(c, r, o) ==
    IF r.upDone /\ r.downDone /\ o = "outU" THEN Teardown(c, r, o) ELSE r

\* bothFinished
BothFinished(c, r, o) ==
    IF r.upDone /\ r.downDone THEN Teardown(c, r, o) ELSE r

\* pickEntry: an external connection arrives while a stream is registered.
\* Handlers are named by the id they will get, so they arrive in that order.
PickEntry(c) ==
    /\ S[c].up = "off"
    /\ \A d \in Conns : d < c => S[d].up # "off"
    /\ \E id \in streams :
          SetS(c, [S[c] EXCEPT !.up = "picked", !.stream = id])
    /\ UNCHANGED <<C, links, serverLoop, clientLoop>>

\* Mutant: the request is sent without registering the mapping first.
OpenConn_Unmapped(c) ==
    /\ S[c].up = "picked"
    /\ SetS(c, [S[c] EXCEPT !.up = "opening", !.waiting = TRUE,
                            !.outU = Frame("open", c, S[c].stream)])
    /\ UNCHANGED <<C, links, serverLoop, clientLoop>>

\* CtrlHub.OpenConn up to its Send: ids are assigned in order.
OpenConn(c) ==
    /\ S[c].up = "picked"
    /\ \A d \in Conns : d < c => S[d].up # "picked"
    /\ SetS(c, [S[c] EXCEPT !.up = "opening", !.waiting = TRUE, !.hub = TRUE,
                            !.outU = Frame("open", c, S[c].stream)])
    /\ UNCHANGED <<C, links, serverLoop, clientLoop>>

\* The failure path of OpenConn, and handleConn's return after it.
OpenFailed(r) ==
    [EntryClosed(r) EXCEPT !.hub = FALSE, !.up = "ended", !.mcClosed = TRUE,
                           !.outU = None]

OpenAnswered(c) ==
    /\ S[c].up = "opening" /\ S[c].outU = None
    /\ \/ /\ S[c].ack = "ok"
          /\ SetS(c, [S[c] EXCEPT !.up = "read", !.down = "run"])
       \/ S[c].ack = "nack" /\ SetS(c, OpenFailed(S[c]))
    /\ UNCHANGED <<C, links, serverLoop, clientLoop>>

\* time.After(openConnTimeout): it always ends the wait for a client that is
\* gone, and may race an answer that is under way.
OpenTimeout(c) ==
    /\ S[c].up = "opening" /\ S[c].outU = None
    /\ "timeout" \in Events \/ sess = "down"
    /\ SetS(c, OpenFailed(S[c]))
    /\ UNCHANGED <<C, links, serverLoop, clientLoop>>

\* The uplink loop: mc.ReadMessage returns data, io.EOF or another error.
UserData(c) ==
    /\ S[c].up = "read" /\ ~S[c].mcClosed
    /\ S[c].sent < MaxUp[c]
    /\ SetS(c, [S[c] EXCEPT !.up = "acquire", !.sent = @ + 1])
    /\ UNCHANGED <<C, links, serverLoop, clientLoop>>

UserEOF(c) ==
    /\ "userEOF" \in Events
    /\ S[c].up = "read" /\ ~S[c].mcClosed
    /\ SetS(c, [S[c] EXCEPT !.up = "eof", !.upDone = TRUE,
                            !.outU = Frame("half", c, 0)])
    /\ UNCHANGED <<C, links, serverLoop, clientLoop>>

UserError(c) ==
    /\ S[c].up = "read"
    /\ "userReset" \in Events \/ S[c].mcClosed
    /\ SetS(c, [Teardown(c, S[c], "outU") EXCEPT !.up = "ended"])
    /\ UNCHANGED <<C, links, serverLoop, clientLoop>>

\* Acquire's test; mutant: off by one.
HasCredit_OffByOne(out) == out <= Win
HasCredit(out) == out < Win

\* AcquireSend
AcquireSend(c) ==
    /\ S[c].up = "acquire"
    /\ \/ /\ S[c].winClosed
          /\ SetS(c, [Teardown(c, S[c], "outU") EXCEPT !.up = "ended"])
       \/ /\ ~S[c].winClosed /\ HasCredit(S[c].out)
          /\ SetS(c, [S[c] EXCEPT !.up = "send", !.out = @ + 1,
                                  !.outU = Frame("data", c, S[c].sent)])
    /\ UNCHANGED <<C, links, serverLoop, clientLoop>>

\* What the uplink goroutine does when its Send has returned.
AfterSend(c, r, ok) ==
    LET s == [r EXCEPT !.outU = None] IN
    CASE r.outU.t = "open" -> IF ok THEN s ELSE OpenFailed(s)
      [] r.outU.t = "data" ->
            IF ok THEN [s EXCEPT !.up = "read"]
            ELSE [Teardown(c, s, "outU") EXCEPT !.up = "ended"]
      [] r.outU.t = "half" -> [BothFinished(c, s, "outU") EXCEPT !.up = "wait"]
      [] r.outU.t = "full" -> [s EXCEPT !.mcClosed = TRUE]

UplinkSend(c) ==
    /\ S[c].outU # None
    /\ \E ok \in BOOLEAN :
          /\ IF ok THEN SendOK(s2c, sAlive, S[c].outU) ELSE SendErr(s2c)
          /\ SetS(c, AfterSend(c, S[c], ok))
    /\ UNCHANGED <<C, c2s, sess, serverLoop, clientLoop>>

\* <-done after the uplink has ended
UplinkDone(c) ==
    /\ S[c].up = "wait" /\ S[c].torn
    /\ SetS(c, [S[c] EXCEPT !.up = "ended"])
    /\ UNCHANGED <<C, links, serverLoop, clientLoop>>

-----------------------------------------------------------------------------
(* Server: the downlink pump of handleConn.                                *)

Pumping(c) == S[c].down \in {"run", "drain", "quiet"} /\ S[c].outD = None

\* ReleaseRecv: the frame it sends carries no payload.
ReleaseRecv(c, r) ==
    IF r.pending + 1 < Batch THEN [r EXCEPT !.pending = @ + 1]
    ELSE [r EXCEPT !.pending = @ + 1 - Batch,
                   !.outD = Frame("wu", c, Undecodable)]

DownlinkWrite(c) ==
    /\ Pumping(c) /\ S[c].sink # <<>>
    /\ LET r == [S[c] EXCEPT !.sink = Tail(@)] IN
       \/ /\ ~r.mcClosed
          /\ SetS(c, [ReleaseRecv(c, r) EXCEPT
                        !.got = Append(@, Head(S[c].sink)),
                        !.down = IF @ = "run" THEN "run" ELSE "drain"])
       \/ /\ r.mcClosed \/ "userReset" \in Events
          /\ SetS(c, [Teardown(c, r, "outD") EXCEPT !.down = "ended"])
    /\ UNCHANGED <<C, links, serverLoop, clientLoop>>

\* A 50ms round without data.  Nothing can enter Sink after RemoteClosed, and
\* select prefers data that is there over a timer that has just been started.
QuietRound(c) == S[c].sink = <<>>

\* case <-rc, then two quiet rounds, then the check whether both have finished.
DownlinkDrain(c) ==
    /\ Pumping(c)
    /\ \/ /\ S[c].down = "run" /\ S[c].remoteClosed
          /\ SetS(c, [S[c] EXCEPT !.down = "drain"])
       \/ /\ S[c].down = "drain" /\ QuietRound(c)
          /\ SetS(c, [S[c] EXCEPT !.down = "quiet"])
       \/ /\ S[c].down = "quiet" /\ QuietRound(c)
          /\ ~S[c].downDone \/ (S[c].upDone /\ ~S[c].torn)
          /\ SetS(c, BothFinished(c, [S[c] EXCEPT !.downDone = TRUE], "outD"))
    /\ UNCHANGED <<C, links, serverLoop, clientLoop>>

\* case <-e.Done and case <-done
DownlinkStop(c) ==
    /\ Pumping(c)
    /\ S[c].done \/ S[c].torn
    /\ SetS(c, [Teardown(c, S[c], "outD") EXCEPT !.down = "ended"])
    /\ UNCHANGED <<C, links, serverLoop, clientLoop>>

DownlinkSend(c) ==
    /\ S[c].outD # None
    /\ SendOK(s2c, sAlive, S[c].outD) \/ SendErr(s2c)
    /\ SetS(c, [S[c] EXCEPT !.outD = None,
                            !.mcClosed = @ \/ S[c].outD.t = "full"])
    /\ UNCHANGED <<C, c2s, sess, serverLoop, clientLoop>>

-----------------------------------------------------------------------------
(* Server: the read loop of the session (CtrlProxyServer.handleConn).      *)

\* DeliverConnAck
DeliverConnAck(c, v) ==
    SetS(c, IF S[c].waiting
            THEN [S[c] EXCEPT !.waiting = FALSE,
                              !.ack = IF v = 1 THEN "ok" ELSE "nack"]
            ELSE S[c])

\* CloseConn without notification
CloseConn(c) ==
    SetS(c, [EntryClosed(S[c]) EXCEPT !.hub = FALSE])

\* MsgStreamClose without the half-close flag: an id that is not (or no
\* longer) a connection is taken for the id of a stream to deregister.
FullClose(c) ==
    \/ S[c].hub /\ CloseConn(c) /\ UNCHANGED streams
    \/ ~S[c].hub /\ streams' = streams \ {c} /\ UNCHANGED S

\* ClientClosed: the mapping goes, the entry stays open for draining.
ClientClosed(c) ==
    SetS(c, IF S[c].hub
            THEN [S[c] EXCEPT !.hub = FALSE, !.remoteClosed = TRUE]
            ELSE S[c])

\* Mutant: the credit is not counted.
WindowRelease_Ignored(c, delta) == UNCHANGED S

\* WindowRelease
WindowRelease(c, delta) ==
    SetS(c, IF S[c].hub THEN [S[c] EXCEPT !.out = @ - delta] ELSE S[c])

ServerReceive ==
    /\ sAlive /\ srl = NoItem
    /\ c2s # <<>>
    /\ c2s' = Tail(c2s)
    /\ LET f == Head(c2s) IN
       \/ f.t = "ack" /\ DeliverConnAck(f.c, f.v) /\ UNCHANGED <<streams, srl>>
       \/ f.t = "data" /\ srl' = (IF S[f.c].hub THEN <<f.c, f.v>> ELSE NoItem)
                       /\ UNCHANGED <<S, streams>>
       \/ f.t = "full" /\ FullClose(f.c) /\ UNCHANGED srl
       \/ f.t = "half" /\ ClientClosed(f.c) /\ UNCHANGED <<streams, srl>>
       \/ f.t = "wu" /\ WindowRelease(f.c, f.v) /\ UNCHANGED <<streams, srl>>
    /\ UNCHANGED <<C, s2c, sess, sAlive, clientLoop>>

\* Downlink's select, on the entry that was looked up before.
Downlink ==
    /\ srl # NoItem
    /\ LET c == srl[1] IN
       \/ /\ Len(S[c].sink) < SinkCap
          /\ SetS(c, [S[c] EXCEPT !.sink = Append(@, srl[2])])
       \/ S[c].done /\ UNCHANGED S
    /\ srl' = NoItem
    /\ UNCHANGED <<C, links, streams, sAlive, clientLoop>>

\* Mutant: the streams are deregistered first.
ServerSessionEnd_StreamsFirst ==
    /\ sAlive /\ srl = NoItem /\ sess = "down"
    /\ streams' = {}
    /\ sAlive' = FALSE
    /\ UNCHANGED <<S, C, links, srl, clientLoop>>

\* Receive fails and the deferred cleanup runs: CloseConnsByClient finds the
\* connections of this session through the streams that are still registered,
\* then RemoveByClient drops those.
ServerSessionEnd ==
    /\ sAlive /\ srl = NoItem /\ sess = "down"
    /\ S' = [c \in Conns |-> IF S[c].hub /\ S[c].stream \in streams
                             THEN [EntryClosed(S[c]) EXCEPT !.hub = FALSE]
                             ELSE S[c]]
    /\ streams' = {}
    /\ sAlive' = FALSE
    /\ UNCHANGED <<C, links, srl, clientLoop>>

-----------------------------------------------------------------------------
(* Client: CtrlClient.                                                     *)

\* Mutant: the server is not told.
ConnClosed_Silent(c, r, o) ==
    IF ~r.reg THEN r
    ELSE [r EXCEPT !.inQ = FALSE, !.reg = FALSE, !.winClosed = TRUE,
                   !.qClosed = TRUE, !.conn = "closed"]

\* closeConn by the goroutine with outbox o; o = "-" when notify is false.
ConnClosed(c, r, o) ==
    LET gone == [r EXCEPT !.inQ = FALSE]
        shut == [gone EXCEPT !.reg = FALSE, !.winClosed = TRUE,
                             !.qClosed = TRUE, !.conn = "closed"]
    IN  IF ~r.reg THEN gone
        ELSE IF o = "-" THEN shut
        ELSE [shut EXCEPT ![o] = Frame("full", c, 0)]

\* Mutant: the backend's write side is closed at once, past the queue.
HalfCloseConn_AtOnce(c) ==
    /\ SetC(c, [C[c] EXCEPT !.eof = @ \/ C[c].conn = "open"])
    /\ UNCHANGED crl

\* halfCloseConn: the sentinel goes through the connection's queue.
HalfCloseConn(c) ==
    /\ crl' = (IF C[c].inQ THEN <<c, NilItem>> ELSE NoItem)
    /\ UNCHANGED C

\* Run's dispatch.  handleConnOpen dials the backend and answers; data goes to
\* the connection's queue, which is looked up here and sent to in ClientEnqueue.
ClientReceive ==
    /\ cAlive /\ crl = NoItem /\ crlOut = None
    /\ s2c # <<>>
    /\ s2c' = Tail(s2c)
    /\ LET f == Head(s2c) IN
       \/ /\ f.t = "open"
          /\ \E ok \in {1} \union (IF "dialFail" \in Events THEN {0} ELSE {}) :
                crlOut' = Frame("ack", f.c, ok)
          /\ UNCHANGED <<C, crl>>
       \/ /\ f.t = "data"
          /\ crl' = (IF C[f.c].inQ THEN <<f.c, f.v>> ELSE NoItem)
          /\ UNCHANGED <<C, crlOut>>
       \/ f.t = "half" /\ HalfCloseConn(f.c) /\ UNCHANGED crlOut
       \/ /\ f.t = "full"
          /\ SetC(f.c, ConnClosed(f.c, C[f.c], "-"))
          /\ UNCHANGED <<crl, crlOut>>
       \/ /\ f.t = "wu"
          /\ SetC(f.c, IF f.v # Undecodable /\ C[f.c].reg
                       THEN [C[f.c] EXCEPT !.out = @ - f.v] ELSE C[f.c])
          /\ UNCHANGED <<crl, crlOut>>
    /\ UNCHANGED <<S, c2s, sess, serverLoop, cAlive, crash>>

\* The rest of handleConnOpen: the connection is registered and its pumps
\* start once the ack was sent.
ClientAcked ==
    /\ crlOut # None
    /\ LET c == crlOut.c IN
       \/ /\ SendOK(c2s, cAlive, crlOut)
          /\ SetC(c, IF crlOut.v = 0 THEN C[c]
                     ELSE [C[c] EXCEPT !.reg = TRUE, !.inQ = TRUE,
                                       !.conn = "open", !.wp = "run",
                                       !.up = "read"])
       \/ SendErr(c2s) /\ UNCHANGED C
    /\ crlOut' = None
    /\ UNCHANGED <<S, s2c, sess, serverLoop, cAlive, crl, crash>>

\* q <- payload
ClientEnqueue ==
    /\ crl # NoItem
    /\ LET c == crl[1] IN
       /\ ~C[c].qClosed
       /\ Len(C[c].q) < QCap
       /\ SetC(c, [C[c] EXCEPT !.q = Append(@, crl[2])])
    /\ crl' = NoItem
    /\ UNCHANGED <<S, links, serverLoop, cAlive, crlOut, crash>>

\* A send on a closed channel panics, also when the sender was already
\* blocked: the process and its connections are gone.
ClientPanic ==
    /\ crl # NoItem
    /\ C[crl[1]].qClosed
    /\ crash' = TRUE
    /\ C' = [c \in Conns |-> [C[c] EXCEPT !.reg = FALSE, !.wp = "ended",
                !.up = IF @ = "finished" THEN @ ELSE "ended",
                !.outW = None, !.outP = None,
                !.conn = IF @ = "open" THEN "closed" ELSE @]]
    /\ sess' = "down" /\ cAlive' = FALSE /\ crl' = NoItem
    /\ UNCHANGED <<S, s2c, c2s, serverLoop, crlOut>>

\* Receive fails: closeAllConns closes connections and windows, not queues.
ClientSessionEnd ==
    /\ cAlive /\ crl = NoItem /\ crlOut = None /\ sess = "down"
    /\ C' = [c \in Conns |->
                IF C[c].reg THEN [C[c] EXCEPT !.reg = FALSE, !.conn = "closed",
                                              !.winClosed = TRUE]
                ELSE C[c]]
    /\ cAlive' = FALSE
    /\ UNCHANGED <<S, links, serverLoop, crl, crlOut, crash>>

\* The write pump of handleConnOpen.
WritePump(c) ==
    /\ C[c].wp = "run" /\ C[c].outW = None
    /\ LET r == [C[c] EXCEPT !.q = Tail(@)] IN
       \/ /\ C[c].q # <<>> /\ Head(C[c].q) # NilItem /\ C[c].conn = "open"
          /\ SetC(c, [r EXCEPT !.got = Append(@, Head(C[c].q)),
                               !.outW = Frame("wu", c, 1)])
       \/ /\ C[c].q # <<>> /\ Head(C[c].q) = NilItem
          /\ SetC(c, [r EXCEPT !.eof = @ \/ C[c].conn = "open"])
       \/ /\ C[c].q = <<>> /\ C[c].qClosed
          /\ SetC(c, [C[c] EXCEPT !.wp = "ended"])
    /\ UNCHANGED <<S, links, serverLoop, clientLoop>>

WriteError(c) ==
    /\ C[c].wp = "run" /\ C[c].outW = None
    /\ C[c].q # <<>> /\ Head(C[c].q) # NilItem
    /\ C[c].conn = "closed" \/ "backendReset" \in Events
    /\ SetC(c, [ConnClosed(c, [C[c] EXCEPT !.q = Tail(@)], "outW")
                  EXCEPT !.wp = "ended"])
    /\ UNCHANGED <<S, links, serverLoop, clientLoop>>

\* pumpUplink: conn.Read returns data, io.EOF or another error.
BackendData(c) ==
    /\ C[c].up = "read" /\ C[c].conn = "open"
    /\ C[c].sent < MaxDown[c]
    /\ SetC(c, [C[c] EXCEPT !.up = "acquire", !.sent = @ + 1])
    /\ UNCHANGED <<S, links, serverLoop, clientLoop>>

BackendEOF(c) ==
    /\ "backendEOF" \in Events
    /\ C[c].up = "read" /\ C[c].conn = "open"
    /\ SetC(c, [C[c] EXCEPT !.up = "finished", !.outP = Frame("half", c, 0)])
    /\ UNCHANGED <<S, links, serverLoop, clientLoop>>

BackendError(c) ==
    /\ C[c].up = "read"
    /\ C[c].conn = "closed" \/ "backendReset" \in Events
    /\ SetC(c, [ConnClosed(c, C[c], "outP") EXCEPT !.up = "ended"])
    /\ UNCHANGED <<S, links, serverLoop, clientLoop>>

ClientAcquire(c) ==
    /\ C[c].up = "acquire"
    /\ \/ /\ C[c].winClosed \/ ~cAlive
          /\ SetC(c, [C[c] EXCEPT !.up = "ended"])
       \/ /\ ~C[c].winClosed /\ HasCredit(C[c].out)
          /\ SetC(c, [C[c] EXCEPT !.up = "send", !.out = @ + 1,
                                  !.outP = Frame("data", c, C[c].sent)])
    /\ UNCHANGED <<S, links, serverLoop, clientLoop>>

PumpSend(c) ==
    /\ C[c].outP # None
    /\ LET r == [C[c] EXCEPT !.outP = None] IN
       \/ /\ SendOK(c2s, cAlive, C[c].outP)
          /\ SetC(c, [r EXCEPT !.up = IF @ = "send" THEN "read" ELSE @])
       \/ /\ SendErr(c2s)
          /\ SetC(c, IF r.up = "send"
                     THEN [ConnClosed(c, r, "outP") EXCEPT !.up = "ended"]
                     ELSE r)
    /\ UNCHANGED <<S, s2c, sess, serverLoop, clientLoop>>

WritePumpSend(c) ==
    /\ C[c].outW # None
    /\ SendOK(c2s, cAlive, C[c].outW) \/ SendErr(c2s)
    /\ SetC(c, [C[c] EXCEPT !.outW = None])
    /\ UNCHANGED <<S, s2c, sess, serverLoop, clientLoop>>

-----------------------------------------------------------------------------
\* The transport breaks, or the session is kicked.
SessionDrop ==
    /\ "drop" \in Events /\ sess = "up"
    /\ sess' = "down"
    /\ UNCHANGED <<S, C, s2c, c2s, serverLoop, clientLoop>>

\* Steps of the program; the environment's are not among them.
ServerConnStep(c) ==
    \/ OpenConn(c) \/ OpenAnswered(c) \/ AcquireSend(c) \/ UplinkSend(c)
    \/ UplinkDone(c)

DownlinkStep(c) ==
    \/ DownlinkWrite(c) \/ DownlinkDrain(c) \/ DownlinkStop(c) \/ DownlinkSend(c)

ServerLoopStep == ServerReceive \/ Downlink \/ ServerSessionEnd

ClientLoopStep ==
    ClientReceive \/ ClientAcked \/ ClientEnqueue \/ ClientPanic \/ ClientSessionEnd

ClientUplinkStep(c) == ClientAcquire(c) \/ PumpSend(c)

Environment(c) ==
    \/ PickEntry(c) \/ UserData(c) \/ UserEOF(c) \/ UserError(c)
    \/ OpenTimeout(c) \/ BackendData(c) \/ BackendEOF(c) \/ BackendError(c)
    \/ WriteError(c)

Next ==
    \/ \E c \in Conns : \/ Environment(c)
                        \/ ServerConnStep(c) \/ DownlinkStep(c)
                        \/ ClientUplinkStep(c)
                        \/ WritePump(c) \/ WritePumpSend(c)
    \/ ServerLoopStep
    \/ ClientLoopStep
    \/ SessionDrop

Spec == Init /\ [][Next]_vars

\* Every goroutine that can run does, peers that are not Slow read, and an
\* operation on a closed connection fails.  Nobody has to send, finish or fail.
Fairness ==
    /\ \A c \in Conns :
          /\ WF_vars(ServerConnStep(c))
          /\ WF_vars(DownlinkStep(c))
          /\ WF_vars(ClientUplinkStep(c))
          /\ WF_vars(WritePumpSend(c))
          /\ WF_vars(S[c].mcClosed /\ UserError(c))
          /\ WF_vars(sess = "down" /\ OpenTimeout(c))
          /\ WF_vars(C[c].conn = "closed" /\ (WriteError(c) \/ BackendError(c)))
    /\ \A c \in Conns \ Slow : WF_vars(WritePump(c))
    /\ WF_vars(ServerLoopStep)
    /\ WF_vars(ClientLoopStep)

FairSpec == Spec /\ Fairness

-----------------------------------------------------------------------------
(* Properties *)

Frames == [t : {"none", "open", "ack", "data", "half", "full", "wu"},
           c : Conns \union {0}, v : Nat]

\* Type invariant, with the capacity of every queue.
TypeOK ==
    /\ \A c \in Conns :
          /\ S[c].up \in {"off", "picked", "opening", "read", "acquire", "send",
                          "eof", "wait", "ended"}
          /\ S[c].down \in {"off", "run", "drain", "quiet", "ended"}
          /\ S[c].ack \in {"none", "ok", "nack"}
          /\ Len(S[c].sink) <= SinkCap
          /\ S[c].out \in 0..Win
          /\ S[c].pending \in 0..(Batch - 1)
          /\ {S[c].outU, S[c].outD} \subseteq Frames
          /\ C[c].wp \in {"off", "run", "ended"}
          /\ C[c].up \in {"off", "read", "acquire", "send", "finished", "ended"}
          /\ C[c].conn \in {"none", "open", "closed"}
          /\ Len(C[c].q) <= QCap
          /\ C[c].out \in 0..Win
          /\ {C[c].outW, C[c].outP} \subseteq Frames
    /\ streams \subseteq StreamIDs
    /\ \A l \in {s2c, c2s} : Len(l) <= LinkCap /\ \A i \in DOMAIN l : l[i] \in Frames
    /\ sess \in {"up", "down"}

\* The two directions of every connection.
Directions == {"up", "down"} \X Conns

P == INSTANCE Pipe WITH
        Dirs <- Directions,
        sent <- [d \in Directions |-> IF d[1] = "up" THEN S[d[2]].sent ELSE C[d[2]].sent],
        got <- [d \in Directions |-> IF d[1] = "up" THEN C[d[2]].got ELSE S[d[2]].got],
        fin <- [d \in Directions |-> IF d[1] = "up" THEN S[d[2]].upDone
                                     ELSE C[d[2]].up = "finished"],
        eof <- [d \in Directions |-> IF d[1] = "up" THEN C[d[2]].eof
                                     ELSE S[d[2]].downDone]

\* Under every event the tunnel behaves like a half-closable pipe per direction:
\* chunks arrive in order and without a gap, through two read loops, a queue or
\* a sink, and two pumps; a half close never overtakes data, so the backend's
\* write side is closed (nil sentinel) only after all the user sent, and the
\* downlink ends (two quiet rounds) only after all the backend sent.
ImplementsPipe == P!Spec

Count(l, t, c) == Cardinality({i \in DOMAIN l : l[i].t = t /\ l[i].c = c})
One(b) == IF b THEN 1 ELSE 0

\* Chunks of c between the server's AcquireSend and the backend.
InTransit(c) ==
    One(S[c].outU.t = "data") + Count(s2c, "data", c)
    + One(crl[1] = c /\ crl[2] # NilItem)
    + Cardinality({i \in DOMAIN C[c].q : C[c].q[i] # NilItem})

\* As long as both sides know the connection, the server's account is exactly
\* the chunks on their way plus the credit on its way back: no credit leaks
\* and none is invented, whichever goroutines interleave.
CreditConserved ==
    \A c \in Conns : sess = "up" /\ S[c].hub /\ C[c].reg =>
        S[c].out = InTransit(c) + One(C[c].outW.t = "wu") + Count(c2s, "wu", c)

\* A full close of c announced by the client that the server has not handled.
CloseUnderWay(c) ==
    \/ Count(c2s, "full", c) > 0
    \/ C[c].outW.t = "full" \/ C[c].outP.t = "full"

\* The server never keeps using a connection that the client has given up
\* without having been told, or being about to be told.
ServerIsTold ==
    \A c \in Conns :
        sess = "up" /\ S[c].hub /\ S[c].up \notin {"off", "picked", "opening"} =>
            C[c].reg \/ CloseUnderWay(c)

\* Everything a user sent reaches the backend, unless the session breaks: a
\* backend that does not read never stops the connections beside it.
UpDelivered ==
    \A c \in Conns \ Slow : \A k \in 1..MaxUp[c] :
        (S[c].sent >= k) ~> (Len(C[c].got) >= k \/ sess = "down")

\* Everything a backend sent reaches the user unless the session breaks; beyond
\* one window that needs the credit to come back (comment of ReleaseRecv).
DownDelivered ==
    \A c \in Conns : \A k \in 1..MaxDown[c] :
        (C[c].sent >= k) ~> (Len(S[c].got) >= k \/ sess = "down")

\* Once both sides have finished, the server's two goroutines of the connection
\* end and the user's connection is closed.
HandlerEnds ==
    \A c \in Conns :
        (S[c].upDone /\ S[c].remoteClosed) ~>
            (S[c].mcClosed /\ S[c].up = "ended" /\ S[c].down = "ended")

\* docs/star-protocol.md: a disconnected client's streams and connections are
\* all cleaned up by the server.
DisconnectCleansUp ==
    (sess = "down") ~>
        /\ streams = {}
        /\ \A c \in Conns : /\ ~S[c].hub
                            /\ S[c].up \in {"off", "ended"}
                            /\ S[c].down \in {"off", "ended"}
=============================================================================
