------------------------------- MODULE WsConn -------------------------------
(***************************************************************************)
(* A WebSocket connection: frames of several goroutines on one raw         *)
(* connection.  The repository has it twice, as the net.Conn of the ws     *)
(* transport ("stream") and as the connection of the ws codec ("codec").   *)
(*                                                                         *)
(*   src/internal/transport/ws/ws.go   (wsConn)                            *)
(*   src/protocol/ws/ws.go             (Conn)                              *)
(*                                                                         *)
(* A reader answers pings and the close of the peer, so that it writes     *)
(* too; a write mutex keeps the frames apart.  The frame functions of      *)
(* gobwas/ws, which the stream uses, write header and payload in two       *)
(* calls; the codec puts them into one.  The raw connection is external:   *)
(* it takes WireCap writes ahead of the peer, blocks then, and fails once  *)
(* it is closed or the peer is gone.                                       *)
(***************************************************************************)
EXTENDS Naturals, Sequences

CONSTANTS WsKinds,
          Writers, Closers,  \* goroutines that call Write and Close; one more reads
          Scripts,           \* the sequences of frames a peer may send
          MaxFrames,         \* bound: frames of one Write
          MaxWrites,         \* bound: Writes of one goroutine
          WireCap

Reader == "reader"
Nobody == "nobody"
WsProcs == Writers \cup Closers \cup {Reader}

ASSUME WsAssumption ==
    /\ WsKinds \subseteq {"stream", "codec"}
    /\ Nobody \notin WsProcs /\ Reader \notin Writers \cup Closers
    /\ Writers \cap Closers = {}
    /\ MaxFrames \in Nat \ {0} /\ MaxWrites \in Nat /\ WireCap \in Nat \ {0}

VARIABLES wsKind,
          inbox,       \* frames of the peer that are not read yet
          assembling,  \* ReadMessage has the beginning of a message
          writeMu,     \* who holds the write mutex
          closedFlag,  \* the codec's closed
          rawOpen, peerUp,
          job,         \* per goroutine: where it is, what it has to write, Writes left
          wire,        \* everything that was written on the raw connection
          taken        \* how much of it the peer has read

wsVars == <<wsKind, inbox, assembling, writeMu, closedFlag, rawOpen, peerUp, job, wire, taken>>

WsInit ==
    /\ wsKind \in WsKinds
    /\ inbox \in Scripts /\ assembling = FALSE
    /\ writeMu = Nobody /\ closedFlag = FALSE
    /\ rawOpen = TRUE /\ peerUp = TRUE
    /\ job = [p \in WsProcs |-> [pc |-> IF p = Reader THEN "read" ELSE "idle",
                                 todo |-> <<>>, left |-> MaxWrites]]
    /\ wire = <<>> /\ taken = 0

\* The writes that make up a frame; the close frame of wsConn.Close is empty.
Parts(p, op) ==
    LET part(x) == [by |-> p, op |-> op, part |-> x]
    IN  CASE wsKind = "codec" -> <<part("whole")>>
          [] wsKind = "stream" /\ op = "close" -> <<part("last")>>
          [] OTHER -> <<part("head"), part("last")>>

Dead == ~rawOpen \/ ~peerUp

-----------------------------------------------------------------------------
(* Writing a frame: every caller waits for the mutex, and keeps it until   *)
(* its last frame is written or a write fails.                             *)

\* Where a goroutine goes on when its writing is over.
After(p, ok) ==
    CASE p \in Writers -> "idle"
      [] p \in Closers -> "raw"
      [] OTHER -> IF ok /\ job[p].todo[1].op = "pong" THEN "read" ELSE "ended"

Leave(p, ok) == job' = [job EXCEPT ![p].pc = After(p, ok), ![p].todo = <<>>]

\* Mutant: the frames of the reader are written without the mutex.
LockWrite_NotForControl(p) ==
    /\ job[p].pc = "lock" /\ (writeMu = Nobody \/ p = Reader)
    /\ writeMu' = p
    /\ job' = [job EXCEPT ![p].pc = "emit"]
    /\ UNCHANGED <<wsKind, inbox, assembling, closedFlag, rawOpen, peerUp, wire, taken>>

\* The codec refuses to write after Close, its own close frame included.
LockWrite(p) ==
    /\ job[p].pc = "lock" /\ writeMu = Nobody
    /\ IF wsKind = "codec" /\ closedFlag
       THEN Leave(p, FALSE) /\ UNCHANGED writeMu
       ELSE writeMu' = p /\ job' = [job EXCEPT ![p].pc = "emit"]
    /\ UNCHANGED <<wsKind, inbox, assembling, closedFlag, rawOpen, peerUp, wire, taken>>

Emit(p) ==
    /\ job[p].pc = "emit" /\ ~Dead /\ Len(wire) - taken < WireCap
    /\ wire' = Append(wire, Head(job[p].todo))
    /\ IF Len(job[p].todo) = 1
       THEN Leave(p, TRUE) /\ writeMu' = Nobody
       ELSE job' = [job EXCEPT ![p].todo = Tail(@)] /\ UNCHANGED writeMu
    /\ UNCHANGED <<wsKind, inbox, assembling, closedFlag, rawOpen, peerUp, taken>>

\* Mutant: the return after a failed write forgets the mutex.
EmitFails_KeepsLock(p) ==
    /\ job[p].pc = "emit" /\ Dead
    /\ Leave(p, FALSE)
    /\ UNCHANGED <<wsKind, inbox, assembling, writeMu, closedFlag, rawOpen, peerUp, wire, taken>>

EmitFails(p) ==
    /\ job[p].pc = "emit" /\ Dead
    /\ Leave(p, FALSE) /\ writeMu' = Nobody
    /\ UNCHANGED <<wsKind, inbox, assembling, closedFlag, rawOpen, peerUp, wire, taken>>

\* n times the sequence s, one after the other.
Repeat(s, n) == [k \in 1 .. n * Len(s) |-> s[1 + ((k - 1) % Len(s))]]

\* Write cuts its argument into frames, all under one lock; the codec has one.
WsWrite(w) ==
    /\ job[w].pc = "idle" /\ job[w].left > 0
    /\ \E n \in 1 .. (IF wsKind = "codec" THEN 1 ELSE MaxFrames) :
         job' = [job EXCEPT ![w] =
                   [pc |-> "lock", left |-> @.left - 1,
                    todo |-> Repeat(Parts(w, "data"), n)]]
    /\ UNCHANGED <<wsKind, inbox, assembling, writeMu, closedFlag, rawOpen, peerUp, wire, taken>>

-----------------------------------------------------------------------------
(* Reading.                                                                *)

Answer(op) == job' = [job EXCEPT ![Reader].pc = "lock", ![Reader].todo = Parts(Reader, op)]
Ends == job' = [job EXCEPT ![Reader].pc = "ended"]

\* A frame that is too large, has reserved bits set or an unknown operation.
Malformed(f) == f.op = "bad"

\* handleFrame: every data frame is a piece of the byte stream.
StreamReads ==
    /\ wsKind = "stream"
    /\ job[Reader].pc = "read" /\ rawOpen /\ inbox # <<>>
    /\ inbox' = Tail(inbox)
    /\ LET f == Head(inbox)
       IN  CASE Malformed(f) -> Ends
             [] f.op = "ping" -> Answer("pong")
             [] f.op = "close" -> Answer("echo")
             [] OTHER -> UNCHANGED job
    /\ UNCHANGED <<wsKind, assembling, writeMu, closedFlag, rawOpen, peerUp, wire, taken>>

\* ReadMessage puts the frames of a message together, past the control frames
\* between them, and refuses a continuation of nothing.
CodecReads ==
    /\ wsKind = "codec"
    /\ job[Reader].pc = "read" /\ rawOpen /\ inbox # <<>>
    /\ inbox' = Tail(inbox)
    /\ LET f == Head(inbox)
       IN  /\ CASE Malformed(f) \/ (f.op = "cont" /\ ~assembling) -> Ends
                [] f.op = "ping" -> Answer("pong")
                [] f.op = "close" -> Answer("echo")
                [] OTHER -> UNCHANGED job
           /\ assembling' = IF f.op \in {"data", "cont"} THEN ~f.fin ELSE assembling
    /\ UNCHANGED <<wsKind, writeMu, closedFlag, rawOpen, peerUp, wire, taken>>

ReadFails ==
    /\ job[Reader].pc = "read"
    /\ ~rawOpen \/ (~peerUp /\ inbox = <<>>)
    /\ Ends
    /\ UNCHANGED <<wsKind, inbox, assembling, writeMu, closedFlag, rawOpen, peerUp, wire, taken>>

-----------------------------------------------------------------------------
(* Close.                                                                  *)

\* wsConn sends a close frame.  Conn first sets closed, and then tries to.
WsClose(c) ==
    /\ job[c].pc = "idle"
    /\ job' = [job EXCEPT ![c].pc = IF wsKind = "stream" THEN "lock" ELSE "flag",
                          ![c].todo = Parts(c, "close")]
    /\ UNCHANGED <<wsKind, inbox, assembling, writeMu, closedFlag, rawOpen, peerUp, wire, taken>>

SetClosed(c) ==
    /\ job[c].pc = "flag" /\ writeMu = Nobody
    /\ closedFlag' = TRUE
    /\ job' = [job EXCEPT ![c].pc = IF closedFlag THEN "raw" ELSE "lock"]
    /\ UNCHANGED <<wsKind, inbox, assembling, writeMu, rawOpen, peerUp, wire, taken>>

CloseRaw(c) ==
    /\ job[c].pc = "raw"
    /\ rawOpen' = FALSE
    /\ job' = [job EXCEPT ![c].pc = "closed"]
    /\ UNCHANGED <<wsKind, inbox, assembling, writeMu, closedFlag, peerUp, wire, taken>>

-----------------------------------------------------------------------------
PeerReads ==
    /\ peerUp /\ taken < Len(wire)
    /\ taken' = taken + 1
    /\ UNCHANGED <<wsKind, inbox, assembling, writeMu, closedFlag, rawOpen, peerUp, job, wire>>

PeerGoes ==
    /\ peerUp
    /\ peerUp' = FALSE
    /\ UNCHANGED <<wsKind, inbox, assembling, writeMu, closedFlag, rawOpen, job, wire, taken>>

\* The steps of a call that is under way.
WsSteps(p) ==
    \/ LockWrite(p) \/ Emit(p) \/ EmitFails(p)
    \/ p \in Closers /\ (SetClosed(p) \/ CloseRaw(p))

WsNext ==
    \/ \E p \in WsProcs : WsSteps(p)
    \/ \E w \in Writers : WsWrite(w)
    \/ \E c \in Closers : WsClose(c)
    \/ StreamReads \/ CodecReads \/ ReadFails
    \/ PeerReads \/ PeerGoes

-----------------------------------------------------------------------------
\* However writers, the reader's answers and Close interleave, and wherever a
\* write fails, the frames on the raw connection are whole: header and payload
\* of a frame are next to each other and of one goroutine (writeMu).
FramesWhole ==
    \A i \in DOMAIN wire :
        /\ wire[i].part = "head" /\ i < Len(wire) =>
              wire[i + 1] = [wire[i] EXCEPT !.part = "last"]
        /\ wire[i].part = "last" /\ wire[i].op # "close" =>
              i > 1 /\ wire[i - 1] = [wire[i] EXCEPT !.part = "head"]

\* Close returns and gives up the raw connection, although it has to wait for
\* the mutex behind writers that are blocked by the peer, as long as the peer
\* reads on or goes away.
CloseReturns ==
    (\E c \in Closers : job[c].pc \in {"flag", "lock", "emit", "raw"}) ~> ~rawOpen
=============================================================================
