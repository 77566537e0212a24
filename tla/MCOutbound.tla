----------------------------- MODULE MCOutbound -----------------------------
(* Small instances of Outbound.  Pool: two goroutines are enough for one   *)
(* to unlock the mutex under the other's feet; three sessions are a        *)
(* session that dies, its replacement and a redundant one.  H2Conn: a      *)
(* queue of one place, so that the pump blocks, and chunks that have to be *)
(* cut.  WsConn: a writer, a reader that answers a ping in the middle       *)
(* of a message and the peer's close, two Closes, a raw connection that is *)
(* full after one write.                                                   *)
EXTENDS Outbound

AllTransports == {"pool", "h2", "ws"}

BothKinds == {"kcp", "quic"}

BothWs == {"stream", "codec"}
Frame(op, fin) == [op |-> op, fin |-> fin]
TwoScripts ==
    {<<Frame("data", FALSE), Frame("ping", TRUE), Frame("cont", TRUE), Frame("close", TRUE)>>,
     <<Frame("cont", TRUE), Frame("ping", TRUE), Frame("bad", TRUE)>>}
=============================================================================
