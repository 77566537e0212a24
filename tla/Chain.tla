-------------------------------- MODULE Chain --------------------------------
(***************************************************************************)
(* Node chaining: a gateway asks the server at the other end of its ctrl   *)
(* session for a connection to a target, and each end bridges its local    *)
(* connection with a StreamConn.                                           *)
(*                                                                         *)
(*   side "a"  src/internal/star/starserver/proxy_server.go  (serveChain)  *)
(*             src/protocol/star/ctrlclient.go  (DialIntranet, Run)        *)
(*   side "b"  src/internal/handler/star/ctrlproxy.go                      *)
(*                                          (handleClientConnReq, feed)    *)
(*   both      src/protocol/star/adapter.go  (StreamConn, StreamHub)       *)
(*             src/internal/bridge/bridge.go (Bridge)                      *)
(*                                                                         *)
(* One connection.  E[x] is the state of side x; its local peer is the     *)
(* user or the target.  Connection ids of chaining are never ids of a      *)
(* stream or of a CtrlHub connection (DialIntranet sets their top bit), so *)
(* a frame for an id that is not mapped has no effect.                     *)
(***************************************************************************)
EXTENDS Integers, Sequences, FiniteSets

CONSTANTS LinkCap,    \* frames the transport buffers in one direction
          Scenarios   \* instances: what may happen, how much is sent, streamFeedCap

Sides == {"a", "b"}
EventKinds == {"eof", "reset", "refuse", "timeout", "dialFail", "drain", "drop"}

ASSUME ChainAssumption ==
    /\ LinkCap \in Nat \ {0}
    /\ \A s \in Scenarios : /\ s.events \subseteq EventKinds
                            /\ s.maxSend \in [Sides -> Nat]
                            /\ s.feedCap \in Nat \ {0}

Other(x) == IF x = "a" THEN "b" ELSE "a"

VARIABLES E,      \* per side, its StreamConn, its Bridge and its local peer
          rl,     \* per side, the item its read loop is delivering
          link,   \* link[x]: frames on their way to side x
          alive,  \* per side, its read loop runs
          sess,   \* "up" or "down": the transport connection
          env     \* the scenario of this behaviour; maxSend is a bound

vars == <<E, rl, link, alive, sess, env>>

\* Frames and feed items: a chunk is its position in its direction.
Half == 0
Full == -1
Req == -2
AckOK == -3
AckFail == -4
None == -5
Item == Nat \union {Half, Full}

Side ==
    [life |-> "off", mapped |-> FALSE, ack |-> None,
     feed |-> <<>>, closed |-> "no", readEOF |-> "no",
     local |-> "open", inp |-> "off", outp |-> "off",
     res |-> <<>>, fulls |-> 0, drain |-> "off",
     sent |-> 0, fin |-> FALSE, got |-> <<>>, eof |-> FALSE]

Init ==
    /\ env \in Scenarios
    /\ E = [x \in Sides |-> Side]
    /\ rl = [x \in Sides |-> None]
    /\ link = [x \in Sides |-> <<>>]
    /\ alive = [x \in Sides |-> TRUE]
    /\ sess = "up"

Set(x, r) == E' = [E EXCEPT ![x] = r]
Quiet == UNCHANGED <<rl, link, alive, sess, env>>

\* Session.Send by side x: nil, which on a broken transport that x has not
\* noticed yet means that the frame is lost, or an error.
SendOK(x, f) ==
    \/ /\ sess = "up" /\ Len(link[Other(x)]) < LinkCap
       /\ link' = [link EXCEPT ![Other(x)] = Append(@, f)]
    \/ sess = "down" /\ alive[x] /\ UNCHANGED link
SendErr == sess = "down" /\ UNCHANGED link

-----------------------------------------------------------------------------
(* StreamConn and Bridge, on either side. *)

\* markClosed: the first reason stays.
MarkClosed(r, why) == IF r.closed = "no" THEN [r EXCEPT !.closed = why] ELSE r

StartBridge(r) == [r EXCEPT !.life = "bridge", !.inp = "run", !.outp = "read"]

\* armDrain by the first pump that ends; mutant: no timer.
ArmDrain_Never(r) == r
ArmDrain(r) == IF r.drain = "off" THEN [r EXCEPT !.drain = "armed"] ELSE r

\* A pump ends and tells Bridge whether it ended without an error.
PumpResult(r, pump, ok) ==
    ArmDrain([r EXCEPT ![pump] = "ended", !.res = Append(@, ok)])

\* The pump sc -> local has read the end of the stream: it closes the write
\* side of the local connection, which fails if that is closed.
CloseWriteLocal(r) ==
    LET ok == r.local = "open" IN
    PumpResult([r EXCEPT !.eof = ok], "inp", ok)

\* StreamConn.Read by the pump sc -> local, with the Write that follows it.
\* Frames that were delivered come before the reason of a close; a half and a
\* full close are both the end of the stream.
ReadStream(x) ==
    LET r == E[x] IN
    /\ r.inp = "run"
    /\ \/ /\ r.feed # <<>>
          /\ LET f == Head(r.feed)
                 rest == [r EXCEPT !.feed = Tail(@)] IN
             Set(x, CASE f = Half -> CloseWriteLocal([rest EXCEPT !.readEOF = "half"])
                      [] f = Full -> CloseWriteLocal([rest EXCEPT !.readEOF = "full"])
                      [] r.local = "open" /\ f \notin {Half, Full} -> [rest EXCEPT !.got = Append(@, f)]
                      [] OTHER -> PumpResult(rest, "inp", FALSE))
       \/ /\ r.feed = <<>> /\ r.closed # "no"
          /\ Set(x, IF r.closed = "eof" THEN CloseWriteLocal(r)
                                        ELSE PumpResult(r, "inp", FALSE))
    /\ Quiet

\* The pump local -> sc reads a chunk; StreamConn.Write looks at closed and is
\* then in Send.
LocalData(x) ==
    LET r == [E[x] EXCEPT !.sent = @ + 1] IN
    /\ r.outp = "read" /\ r.local = "open" /\ r.sent <= env.maxSend[x]
    /\ Set(x, IF r.closed = "no" THEN [r EXCEPT !.outp = "send"]
                                 ELSE PumpResult(r, "outp", FALSE))
    /\ Quiet

WriteStream(x) ==
    LET r == E[x] IN
    /\ r.outp = "send"
    /\ \/ SendOK(x, r.sent) /\ Set(x, [r EXCEPT !.outp = "read"])
       \/ SendErr /\ Set(x, PumpResult(r, "outp", FALSE))
    /\ UNCHANGED <<rl, alive, sess, env>>

LocalEOF(x) ==
    LET r == E[x] IN
    /\ "eof" \in env.events
    /\ r.outp = "read" /\ r.local = "open"
    /\ Set(x, [r EXCEPT !.fin = TRUE, !.outp = "eof"])
    /\ Quiet

\* StreamConn.CloseWrite
CloseWrite(x) ==
    LET r == E[x] IN
    /\ r.outp = "eof"
    /\ \/ SendOK(x, Half) /\ Set(x, PumpResult(r, "outp", TRUE))
       \/ SendErr /\ Set(x, PumpResult(r, "outp", FALSE))
    /\ UNCHANGED <<rl, alive, sess, env>>

LocalReset(x) ==
    /\ "reset" \in env.events
    /\ E[x].life = "bridge" /\ E[x].local = "open"
    /\ Set(x, [E[x] EXCEPT !.local = "reset"])
    /\ Quiet

\* The pump's Read fails.
LocalError(x) ==
    LET r == E[x] IN
    /\ r.outp = "read" /\ r.local # "open"
    /\ Set(x, PumpResult(r, "outp", FALSE))
    /\ Quiet

\* Bridge returns: on the first result if that is an error, otherwise on the
\* second; either way the timer is stopped unless it has fired.  Its deferred
\* closes begin with the StreamConn at side a and with the target at side b.
BridgeReturns(x) ==
    LET r == MarkClosed(E[x], "err") IN
    /\ r.life = "bridge"
    /\ \/ r.res # <<>> /\ ~Head(r.res)
       \/ Len(r.res) = 2
    /\ Set(x, [r EXCEPT !.life = "closing", !.fulls = IF x = "a" THEN 2 ELSE 1,
                        !.local = IF x = "a" THEN @ ELSE "closed",
                        !.drain = IF @ = "armed" THEN "stopped" ELSE @])
    /\ Quiet

\* The rest of StreamConn.Close, then the user's connection is closed (a, where
\* serveChain closes the StreamConn again) or the id is removed from the feed
\* (b, unless it is the close after a failed dial).
CloseSends(x) ==
    LET r == E[x] IN
    /\ r.fulls > 0
    /\ SendOK(x, Full) \/ SendErr
    /\ Set(x, [r EXCEPT !.fulls = @ - 1, !.local = "closed",
                        !.mapped = @ /\ (x = "a" \/ r.inp = "off")])
    /\ UNCHANGED <<rl, alive, sess, env>>

\* The timer fires before both pumps are done and closes src, then dst: the
\* user and the StreamConn (a), or the StreamConn and the target (b).
DrainTimeout(x) ==
    LET r == MarkClosed(E[x], "err") IN
    /\ "drain" \in env.events
    /\ r.life = "bridge" /\ r.drain = "armed"
    /\ Set(x, [r EXCEPT !.drain = "closing",
                        !.local = IF x = "a" THEN "closed" ELSE @])
    /\ Quiet

DrainSends(x) ==
    /\ E[x].drain = "closing"
    /\ SendOK(x, Full) \/ SendErr
    /\ Set(x, [E[x] EXCEPT !.drain = "fired", !.local = "closed"])
    /\ UNCHANGED <<rl, alive, sess, env>>

-----------------------------------------------------------------------------
(* Side a: serveChain and DialIntranet. *)

\* cleanup, and serveChain closes the user's connection
DialFailed(r) == [r EXCEPT !.life = "failed", !.mapped = FALSE, !.local = "closed"]

\* The id is mapped before the request is sent.
DialIntranet ==
    LET r == [E["a"] EXCEPT !.life = "wait", !.mapped = TRUE] IN
    /\ E["a"].life = "off"
    /\ \/ SendOK("a", Req) /\ Set("a", r)
       \/ SendErr /\ Set("a", DialFailed(r))
    /\ UNCHANGED <<rl, alive, sess, env>>

DialAnswered ==
    LET r == E["a"] IN
    /\ r.life = "wait" /\ r.ack # None
    /\ Set("a", IF r.ack = AckOK THEN StartBridge(r) ELSE DialFailed(r))
    /\ Quiet

\* An answer that is there does not keep the timer from being chosen.
DialTimeout ==
    /\ "timeout" \in env.events \/ sess = "down"
    /\ E["a"].life = "wait"
    /\ Set("a", DialFailed(E["a"]))
    /\ Quiet

\* The read loop takes a frame (CtrlClient.Run).
ReceiveA ==
    /\ alive["a"] /\ rl["a"] = None /\ link["a"] # <<>>
    /\ LET f == Head(link["a"]) IN
       /\ link' = [link EXCEPT !["a"] = Tail(@)]
       /\ \/ /\ f \in {AckOK, AckFail}
             /\ IF E["a"].life = "wait" THEN Set("a", [E["a"] EXCEPT !.ack = f])
                                        ELSE UNCHANGED E
             /\ UNCHANGED rl
          \/ /\ f \in Item
             /\ rl' = [rl EXCEPT !["a"] = IF E["a"].mapped THEN f ELSE None]
             /\ UNCHANGED E
    /\ UNCHANGED <<alive, sess, env>>

-----------------------------------------------------------------------------
(* Side b: the feed of the session, handleClientConnReq. *)

\* NewStreamConn, or one of the refusals before it.  The answer is the first
\* frame to side a, so there is room for it; an error is ignored.
HandleClientConnReq(rest) ==
    \E ans \in {AckOK} \union (IF "refuse" \in env.events THEN {AckFail} ELSE {}) :
        /\ IF ans = AckOK
           THEN Set("b", [E["b"] EXCEPT !.life = "dial", !.mapped = TRUE])
           ELSE UNCHANGED E
        /\ link' = IF sess = "up" THEN [rest EXCEPT !["a"] = Append(@, ans)] ELSE rest
        /\ UNCHANGED rl

\* StreamHub.Feed; a close frame is unmapped before it is delivered.
Feed(f) ==
    /\ rl' = [rl EXCEPT !["b"] = IF E["b"].mapped THEN f ELSE None]
    /\ IF f \in {Half, Full} THEN Set("b", [E["b"] EXCEPT !.mapped = FALSE])
                             ELSE UNCHANGED E

ReceiveB ==
    /\ alive["b"] /\ rl["b"] = None /\ link["b"] # <<>>
    /\ LET f == Head(link["b"])
           rest == [link EXCEPT !["b"] = Tail(@)] IN
       \/ f = Req /\ HandleClientConnReq(rest)
       \/ f \in Item /\ Feed(f) /\ link' = rest
    /\ UNCHANGED <<alive, sess, env>>

TargetDialled ==
    /\ E["b"].life = "dial"
    /\ Set("b", StartBridge(E["b"]))
    /\ Quiet

TargetDialFails ==
    /\ "dialFail" \in env.events
    /\ E["b"].life = "dial"
    /\ Set("b", MarkClosed([E["b"] EXCEPT !.life = "closing", !.fulls = 1], "err"))
    /\ Quiet

-----------------------------------------------------------------------------
(* Both read loops. *)

\* deliver: a full feed makes the read loop wait; a closed StreamConn takes
\* nothing more, but either case may be chosen when both are possible.  Side a
\* unmaps after a close frame was delivered.
\* Mutants: closed is not looked at; a close frame goes to the head of the feed.
Deliver_Blind(x) ==
    LET unmap == x = "a" /\ rl[x] \in {Half, Full} IN
    /\ rl[x] # None
    /\ Len(E[x].feed) < env.feedCap
    /\ Set(x, [E[x] EXCEPT !.feed = Append(@, rl[x]), !.mapped = @ /\ ~unmap])
    /\ rl' = [rl EXCEPT ![x] = None]
    /\ UNCHANGED <<link, alive, sess, env>>
Deliver_Overtakes(x) ==
    LET r == E[x]
        close == rl[x] \in {Half, Full} IN
    /\ rl[x] # None
    /\ close \/ Len(r.feed) < env.feedCap
    /\ Set(x, [r EXCEPT !.feed = IF close THEN <<rl[x]>> \o @ ELSE Append(@, rl[x]),
                        !.mapped = @ /\ ~close])
    /\ rl' = [rl EXCEPT ![x] = None]
    /\ UNCHANGED <<link, alive, sess, env>>
Deliver(x) ==
    LET r == E[x]
        unmap == x = "a" /\ rl[x] \in {Half, Full} IN
    /\ rl[x] # None
    /\ \/ /\ Len(r.feed) < env.feedCap
          /\ Set(x, [r EXCEPT !.feed = Append(@, rl[x]), !.mapped = @ /\ ~unmap])
       \/ /\ r.closed # "no"
          /\ Set(x, [r EXCEPT !.mapped = @ /\ ~unmap])
    /\ rl' = [rl EXCEPT ![x] = None]
    /\ UNCHANGED <<link, alive, sess, env>>

\* The session breaks; frames on their way may still be read.
SessionDrop ==
    /\ "drop" \in env.events /\ sess = "up"
    /\ sess' = "down"
    /\ UNCHANGED <<E, rl, link, alive, env>>

\* Receive fails: closeAllConns, or SessionClosed of the feed.
LoopEnds(x) ==
    /\ sess = "down" /\ alive[x] /\ rl[x] = None
    /\ alive' = [alive EXCEPT ![x] = FALSE]
    /\ Set(x, IF E[x].mapped THEN MarkClosed([E[x] EXCEPT !.mapped = FALSE], "eof")
                             ELSE E[x])
    /\ UNCHANGED <<rl, link, sess, env>>

-----------------------------------------------------------------------------
OutPump(x) == LocalError(x) \/ WriteStream(x) \/ CloseWrite(x)
Main(x) == BridgeReturns(x) \/ CloseSends(x)
Drain(x) == DrainTimeout(x) \/ DrainSends(x)
Peer(x) == LocalData(x) \/ LocalEOF(x) \/ LocalReset(x)
LoopA == ReceiveA \/ Deliver("a") \/ LoopEnds("a")
LoopB == ReceiveB \/ Deliver("b") \/ LoopEnds("b")

Next ==
    \/ \E x \in Sides : ReadStream(x) \/ OutPump(x) \/ Main(x) \/ Drain(x) \/ Peer(x)
    \/ DialIntranet \/ DialAnswered \/ DialTimeout
    \/ TargetDialled \/ TargetDialFails
    \/ LoopA \/ LoopB \/ SessionDrop

Spec == Init /\ [][Next]_vars

\* Goroutines run, peers read, timers fire, the dial of the target ends.
\* Nobody has to send, finish, reset or drop.
Fairness ==
    /\ \A x \in Sides : /\ WF_vars(ReadStream(x)) /\ WF_vars(OutPump(x))
                        /\ WF_vars(Main(x)) /\ WF_vars(Drain(x))
    /\ WF_vars(DialAnswered) /\ WF_vars(sess = "down" /\ DialTimeout)
    /\ WF_vars(TargetDialled)
    /\ WF_vars(LoopA) /\ WF_vars(LoopB)

FairSpec == Spec /\ Fairness

-----------------------------------------------------------------------------
(* Properties *)

\* serveChain or the goroutine of handleClientConnReq has returned.
Done(x) == E[x].life = "closing" /\ E[x].fulls = 0

\* Types and capacities; every pump reports to Bridge once.
TypeOK ==
    /\ \A x \in Sides :
          /\ E[x].life \in {"off", "wait", "failed", "dial", "bridge", "closing"}
          /\ E[x].ack \in {None, AckOK, AckFail}
          /\ Len(E[x].feed) <= env.feedCap
          /\ \A i \in DOMAIN E[x].feed : E[x].feed[i] \in Item
          /\ E[x].closed \in {"no", "eof", "err"}
          /\ E[x].readEOF \in {"no", "half", "full"}
          /\ E[x].local \in {"open", "reset", "closed"}
          /\ E[x].inp \in {"off", "run", "ended"}
          /\ E[x].outp \in {"off", "read", "send", "eof", "ended"}
          /\ Len(E[x].res) = Cardinality({p \in {"inp", "outp"} : E[x][p] = "ended"})
          /\ E[x].drain \in {"off", "armed", "stopped", "closing", "fired"}
          /\ E[x].fulls \in 0 .. 2
          /\ rl[x] \in Item \union {None}
          /\ Len(link[x]) <= LinkCap
    /\ sess \in {"up", "down"}

P == INSTANCE Pipe WITH
        Dirs <- Sides,
        sent <- [x \in Sides |-> E[x].sent],
        fin <- [x \in Sides |-> E[x].fin],
        got <- [x \in Sides |-> E[Other(x)].got],
        eof <- [x \in Sides |-> E[Other(x)].eof /\ E[Other(x)].readEOF = "half"]

\* A drain timer has fired or the session has broken.
Disturbed == sess = "down" \/ \E x \in Sides : E[x].drain \in {"closing", "fired"}

\* As long as no drain timer fires and the session does not break, the chain is
\* a half-closable pipe: data arrives without a gap, and a half close becomes the
\* end of the stream only after everything that was sent before it, through
\* Bridge, StreamConn, two read loops and Bridge, whatever is reset or refused.
ImplementsPipe ==
    P!Init /\ [][Disturbed' \/ P!Next]_(P!vars)

\* No bridge runs, no table keeps the id, and no read loop outlives its session.
Settled ==
    \A x \in Sides : /\ E[x].life \in {"off", "failed"} \/ Done(x)
                     /\ ~E[x].mapped
                     /\ sess = "down" => ~alive[x]

\* When both peers have finished, when one bridge has returned for whichever
\* reason, or when the session has broken, the other bridge returns, too, and both
\* tables forget the connection.  The second case may take the drain timer, since
\* a full close reads as the end of the stream; so does the third for a half-closed
\* connection, which is in no table and is not told.
EndsTogether ==
    \/ E["a"].fin /\ E["b"].fin
    \/ "drain" \in env.events /\ \E x \in Sides : Done(x)
    \/ sess = "down"
    ~> Settled

\* The read loop, which serves all connections of the session, never stays
\* blocked on a connection whose bridge is over (deliver looks at closed).
LoopsGoOn ==
    \A x \in Sides : ("drain" \in env.events /\ rl[x] # None) ~> (rl[x] = None)
=============================================================================
