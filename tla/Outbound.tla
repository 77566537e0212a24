------------------------------ MODULE Outbound ------------------------------
(***************************************************************************)
(* The transports from their Dial on: the pools of kcp and quic (Pool),    *)
(* the stream of h2 (H2Conn) and the frames of ws (WsConn).  Transports    *)
(* share no state; a behaviour of this module is about one of them.        *)
(***************************************************************************)
EXTENDS Pool, H2Conn, WsConn

CONSTANTS Transports   \* the parts of this instance

ASSUME OutboundAssumption == Transports \subseteq {"pool", "h2", "ws"}

VARIABLE transport     \* the part that this behaviour is about

outVars == <<vars, h2Vars, wsVars, transport>>

\* The parts that a behaviour is not about keep one of their initial states.
OutInit ==
    /\ transport \in Transports
    /\ Init /\ H2Init /\ WsInit
    /\ transport # "pool" => kind = CHOOSE k \in Kinds : TRUE
    /\ transport # "ws" => /\ wsKind = CHOOSE k \in WsKinds : TRUE
                           /\ inbox = CHOOSE s \in Scripts : TRUE

OutNext ==
    \/ transport = "pool" /\ Next /\ UNCHANGED <<h2Vars, wsVars, transport>>
    \/ transport = "h2" /\ H2Next /\ UNCHANGED <<vars, wsVars, transport>>
    \/ transport = "ws" /\ WsNext /\ UNCHANGED <<vars, h2Vars, transport>>

OutSpec == OutInit /\ [][OutNext]_outVars

PoolPart(A) == transport = "pool" /\ A /\ UNCHANGED <<h2Vars, wsVars, transport>>
H2Part(A) == transport = "h2" /\ A /\ UNCHANGED <<vars, wsVars, transport>>
WsPart(A) == transport = "ws" /\ A /\ UNCHANGED <<vars, h2Vars, transport>>

\* Every goroutine runs, and a Go mutex is handed to its longest waiter.  The
\* peer of a WebSocket reads what it was sent, or goes away.
OutFairSpec ==
    /\ OutSpec
    /\ \A p \in Dialers : WF_outVars(PoolPart(Progress(p))) /\ SF_outVars(PoolPart(Lock(p)))
    /\ WF_outVars(H2Part(PumpSteps)) /\ WF_outVars(H2Part(ReadTakes))
    /\ \A p \in WsProcs : WF_outVars(WsPart(WsSteps(p)))
    /\ WF_outVars(WsPart(PeerReads))

-----------------------------------------------------------------------------
OutTypeOK ==
    /\ TypeOK
    /\ Len(queue) <= ReadQueue
    /\ \A i \in DOMAIN queue : queue[i].err \in {"nil", "EOF", "reset"}
    /\ pump.pc \in {"none", "read", "send", "error", "ended"}
    /\ sentDown \in 0 .. MaxDown /\ sentUp \in 0 .. MaxUp /\ gotUp \in 0 .. sentUp
    /\ writeMu \in WsProcs \cup {Nobody}
    /\ taken \in 0 .. Len(wire)
    /\ \A p \in WsProcs : job[p].left \in 0 .. MaxWrites
=============================================================================
