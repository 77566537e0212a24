---------------------------- MODULE DialerProofs ----------------------------
(* What TLAPS proves about Dialer, for every number of streams, every set  *)
(* of sessions and every number of faults.                                 *)
EXTENDS Dialer, TLAPS

Setup == {"handshake", "register"}
Known == {"publish", "session", "close", "clear"}

\* Run is in a round that has a session.
CurIsSession == pc \in Setup \union Known => cur \in Sessions

\* Only a session the server still serves owns streams.
OwnersAreLive ==
    \A i \in Streams : owner[i] # 0 => owner[i] \in Sessions /\ srv[owner[i]] = "live"

\* The registrations of this round that the client has counted, and the one
\* the server has just accepted.
RoundIsCounted ==
    /\ pc \in Setup => k < NStreams
    /\ pc = "handshake" => k = 0 /\ req[cur].st = "none"
    /\ pc = "register" /\ req[cur].st # "none" => req[cur].stream = k + 1
    /\ pc \in Known => k = NStreams /\ req[cur].st = "none"
    /\ pc \in Setup \union Known /\ srv[cur] = "live" =>
          \A i \in Streams :
             i <= k \/ (req[cur].st = "ok" /\ i = req[cur].stream) => owner[i] = cur

\* A session is visible exactly while Run is inside it.
Visible == client # 0 => client = cur /\ pc \in {"session", "close", "clear"}

\* A request names a stream, and a session that Run has left is closed.
RequestsNameStreams == \A s \in Sessions : req[s].st # "none" => req[s].stream \in Streams
ClearIsClosed == pc = "clear" => conn[cur] = "closed"

\* What Close has read is a session.
TargetIsSession == closer = "close" => target \in Sessions

\* The inductive invariant.
IInv ==
    /\ TypeOK /\ OneConnection /\ CurIsSession /\ OwnersAreLive
    /\ RoundIsCounted /\ Visible /\ TargetIsSession /\ RequestsNameStreams
    /\ ClearIsClosed

LEMMA BackoffRange ==
    ASSUME DialerAssumption, backoff \in Base .. Max
    PROVE  NextBackoff \in Base .. Max
  BY DEF DialerAssumption, NextBackoff

\* The initial state.
LEMMA InitInv == DialerAssumption /\ Init => IInv
<1> SUFFICES ASSUME DialerAssumption, Init PROVE IInv OBVIOUS
<1>1. TypeOK
  <2>1. NoReq \in [st : {"none", "sent", "ok", "refused"}, stream : 0 .. NStreams]
    BY DEF NoReq, DialerAssumption
  <2>2. Base \in Base .. Max /\ 0 \in 0 .. NStreams /\ 0 \in 0 .. MaxFaults
    BY DEF DialerAssumption
  <2>3. QED BY <2>1, <2>2 DEF Init, TypeOK
<1>2. OneConnection /\ CurIsSession /\ OwnersAreLive /\ RoundIsCounted /\ Visible
      /\ TargetIsSession /\ RequestsNameStreams /\ ClearIsClosed
  BY DEF Init, OneConnection, CurIsSession, OwnersAreLive, RoundIsCounted, Visible,
     TargetIsSession, RequestsNameStreams, ClearIsClosed, Setup, Known, NoReq
<1>3. QED BY <1>1, <1>2 DEF IInv

\* Every step preserves the inductive invariant.
LEMMA Step ==
    ASSUME DialerAssumption, IInv, [Next]_vars
    PROVE  IInv'
<1> USE DEF IInv, TypeOK, OneConnection, CurIsSession, OwnersAreLive,
            RoundIsCounted, Visible, TargetIsSession, RequestsNameStreams,
            ClearIsClosed, Setup, Known, NoReq, server, closing, Streams
<1>0. NStreams \in Nat \ {0} /\ 0 \notin Sessions /\ MaxFaults \in Nat
      /\ Base \in Nat \ {0} /\ Max \in Nat /\ Base <= Max
  BY DEF DialerAssumption
<1>1. CASE CheckStop BY <1>1, <1>0 DEF CheckStop
<1>2. CASE DialFails BY <1>2, <1>0 DEF DialFails, Fault
<1>3. ASSUME NEW s \in Sessions, Connect(s) PROVE IInv'
  BY <1>3, <1>0 DEF Connect
<1>4. CASE Handshake BY <1>4, <1>0 DEF Handshake
<1>5. CASE Register BY <1>5, <1>0 DEF Register
<1>6. CASE Registered BY <1>6, <1>0 DEF Registered
<1>7. CASE SetupFails BY <1>7, <1>0 DEF SetupFails, Fault
<1>8. CASE Backoff BY <1>8, <1>0, BackoffRange DEF Backoff
<1>9. CASE Publish BY <1>9, <1>0 DEF Publish
<1>10. CASE SessionEnds BY <1>10, <1>0 DEF SessionEnds
<1>11. CASE CloseSession BY <1>11, <1>0 DEF CloseSession
<1>12. CASE ClearClient BY <1>12, <1>0 DEF ClearClient
<1>13. CASE Pause BY <1>13, <1>0 DEF Pause
<1>14. CASE Close BY <1>14, <1>0 DEF Close
<1>15. CASE ReadClient BY <1>15, <1>0 DEF ReadClient
<1>16. CASE CloseClient BY <1>16, <1>0 DEF CloseClient
<1>17. ASSUME NEW s \in Sessions, Break(s) PROVE IInv'
  BY <1>17, <1>0 DEF Break, Fault
<1>18. ASSUME NEW s \in Sessions, ServerRegister(s) PROVE IInv'
  <2> DEFINE i == req[s].stream
  <2>1. i \in Streams BY <1>18 DEF ServerRegister
  <2>2. UNCHANGED <<pc, cur, k, backoff, client, closing, conn, srv, faults>>
    BY <1>18 DEF ServerRegister
  <2>3. CASE owner[i] = 0
    <3>1. /\ owner' = [owner EXCEPT ![i] = s]
          /\ req' = [req EXCEPT ![s] = [st |-> "ok", stream |-> i]]
      BY <1>18, <2>3 DEF ServerRegister
    <3>2. srv[s] = "live" /\ req[s].st = "sent" BY <1>18 DEF ServerRegister
    <3>3. TypeOK' BY <1>0, <2>1, <2>2, <3>1
    <3>4. OwnersAreLive' BY <1>0, <2>1, <2>2, <3>1, <3>2
    <3>5. RoundIsCounted' BY <1>0, <2>1, <2>2, <2>3, <3>1, <3>2
    <3>6. QED BY <1>0, <2>1, <2>2, <3>1, <3>3, <3>4, <3>5
  <2>4. CASE owner[i] # 0
    <3>1. /\ owner' = owner
          /\ req' = [req EXCEPT ![s] = [st |-> "refused", stream |-> i]]
          /\ req[s].st = "sent"
      BY <1>18, <2>4 DEF ServerRegister
    <3>2. TypeOK' BY <1>0, <2>1, <2>2, <3>1
    <3>3. RoundIsCounted' BY <1>0, <2>1, <2>2, <3>1
    <3>4. QED BY <1>0, <2>1, <2>2, <3>1, <3>2, <3>3
  <2>5. QED BY <2>3, <2>4
<1>19. ASSUME NEW s \in Sessions, ServerNotices(s) PROVE IInv'
  BY <1>19, <1>0 DEF ServerNotices
<1>20. CASE UNCHANGED vars BY <1>20 DEF vars
<1>21. QED
  BY <1>1, <1>2, <1>3, <1>4, <1>5, <1>6, <1>7, <1>8, <1>9, <1>10, <1>11, <1>12,
     <1>13, <1>14, <1>15, <1>16, <1>17, <1>18, <1>19, <1>20
  DEF Next, Run, Closer, Server

\* The inductive invariant holds in every reachable state.
THEOREM InductiveInvariant == Spec => []IInv
<1>1. Init => IInv BY InitInv, DialerAssumption
<1>2. IInv /\ [Next]_vars => IInv' BY Step, DialerAssumption
<1>3. QED BY <1>1, <1>2, PTL DEF Spec

\* Types; the wait between two attempts never leaves reconnectBase..reconnectMax.
THEOREM TypeCorrect == Spec => []TypeOK
  BY InductiveInvariant, PTL DEF IInv

\* Run never holds two transport connections, whatever fails and whenever.
THEOREM NeverTwoConnections == Spec => []OneConnection
  BY InductiveInvariant, PTL DEF IInv

\* What Client() returns has all of its streams at the server.
THEOREM PublishedIsRegistered == Spec => []ClientIsRegistered
<1>1. IInv => ClientIsRegistered
  BY DialerAssumption DEF IInv, TypeOK, ClientIsRegistered, Visible, RoundIsCounted,
     Known, Setup, Streams, DialerAssumption
<1>2. QED BY <1>1, InductiveInvariant, PTL

\* Client() never returns a session Run has left behind.
THEOREM PublishedIsCurrent == Spec => []ClientIsCurrent
<1>1. IInv => ClientIsCurrent BY DEF IInv, Visible, ClientIsCurrent
<1>2. QED BY <1>1, InductiveInvariant, PTL
=============================================================================
