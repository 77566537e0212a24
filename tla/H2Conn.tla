------------------------------- MODULE H2Conn -------------------------------
(***************************************************************************)
(* A connection over one HTTP/2 stream: the response body is the downlink, *)
(* a pipe that feeds the request body the uplink.                          *)
(*                                                                         *)
(*   src/internal/transport/h2/h2.go   (Dial with its watchdog,            *)
(*                       clientStreamConn, serverStreamConn)               *)
(*                                                                         *)
(* Dial starts a watchdog for its ctx and waits for the response.  A pump  *)
(* moves the body into a queue, from which Read takes with a deadline.     *)
(* net/http and http2 are external: bytes arrive in order, cancelling the  *)
(* request ends both bodies with an error that may overtake bytes on their *)
(* way, and so does the loss of the connection.  c.done is never closed,   *)
(* so the branches that wait for it are left out.                          *)
(***************************************************************************)
EXTENDS Naturals, Sequences

CONSTANTS ReadQueue,   \* readQueue: places of the pump's queue
          MaxDown,     \* bound: bytes of the downlink
          MaxUp        \* bound: bytes of the uplink

ASSUME H2Assumption == ReadQueue \in Nat \ {0} /\ MaxDown \in Nat /\ MaxUp \in Nat

VARIABLES ctxDone,   \* the ctx of Dial
          watch,     \* the watchdog of Dial
          dial,      \* where Dial is
          cancelled, \* reqCtx
          server,    \* the handler at the other end
          down,      \* bytes of the response body on their way
          sentDown,  \* bytes the server has written
          pump,      \* the pump: where it is, the chunk and the error it holds
          queue,
          read,      \* Read: idle, or waiting with or without a timer
          deadline,
          pending, readEOF,
          failed,    \* a Read has returned an error other than EOF
          got,       \* what Read has returned
          up,        \* bytes of the request body on their way
          sentUp, gotUp,
          serverEOF, \* the server has read the end of the request body
          pw,        \* the writing end of the pipe is open
          closing    \* Close: not called, between its two calls, returned

h2Vars == <<ctxDone, watch, dial, cancelled, server, down, sentDown, pump, queue, read,
            deadline, pending, readEOF, failed, got, up, sentUp, gotUp, serverEOF, pw, closing>>

dialVars == <<ctxDone, watch, dial>>
pumpVars == <<pump, queue>>
readVars == <<read, pending, readEOF, failed, got>>
upVars == <<up, sentUp, gotUp, serverEOF>>

H2Init ==
    /\ ctxDone = FALSE /\ watch = "none" /\ dial = "idle" /\ cancelled = FALSE
    /\ server = "none" /\ down = <<>> /\ sentDown = 0
    /\ pump = [pc |-> "none", chunk |-> <<>>, err |-> "nil"] /\ queue = <<>>
    /\ read = "idle" /\ deadline = "zero" /\ pending = <<>>
    /\ readEOF = FALSE /\ failed = FALSE /\ got = <<>>
    /\ up = <<>> /\ sentUp = 0 /\ gotUp = 0 /\ serverEOF = FALSE
    /\ pw = TRUE /\ closing = "no"

Connected == dial = "conn"
Broken == cancelled \/ server = "lost"

-----------------------------------------------------------------------------
(* Dial.                                                                   *)

StartDial ==
    /\ dial = "idle"
    /\ dial' = "do" /\ watch' = "wait"
    /\ UNCHANGED <<ctxDone, cancelled, server, down, sentDown, pumpVars, readVars, deadline,
                   upVars, pw, closing>>

\* The caller's ctx may end during Dial or after it.
CtxEnds ==
    /\ dial # "idle" /\ ~ctxDone
    /\ ctxDone' = TRUE
    /\ UNCHANGED <<watch, dial, cancelled, server, down, sentDown, pumpVars, readVars, deadline,
                   upVars, pw, closing>>

\* The select of the watchdog: with both channels ready it may take either.
WatchWakes ==
    /\ watch = "wait"
    /\ \/ ctxDone /\ watch' = "cancel"
       \/ dial \in {"conn", "failed"} /\ watch' = "gone"
    /\ UNCHANGED <<ctxDone, dial, cancelled, server, down, sentDown, pumpVars, readVars, deadline,
                   upVars, pw, closing>>

WatchCancels ==
    /\ watch = "cancel"
    /\ watch' = "gone" /\ cancelled' = TRUE
    /\ UNCHANGED <<ctxDone, dial, server, down, sentDown, pumpVars, readVars, deadline,
                   upVars, pw, closing>>

\* newServerStreamConn sends the header, which is all that client.Do waits for.
ServerOpens ==
    /\ dial = "do" /\ server = "none" /\ ~cancelled
    /\ server' = "open"
    /\ UNCHANGED <<dialVars, cancelled, down, sentDown, pumpVars, readVars, deadline,
                   upVars, pw, closing>>

\* client.Do returns a response, one with another status, or an error.
DoReturns ==
    /\ dial = "do"
    /\ \/ server \in {"open", "ended"} /\ dial' = "ok"
       \/ server = "none" /\ dial' = "status"
       \/ (Broken \/ server = "none") /\ dial' = "error"
    /\ UNCHANGED <<ctxDone, watch, cancelled, server, down, sentDown, pumpVars, readVars, deadline,
                   upVars, pw, closing>>

\* The rest of Dial: the watchdog is told, a failure cancels the request, a
\* success starts the pump.
DialEnds ==
    /\ dial \in {"ok", "status", "error"}
    /\ dial' = IF dial = "ok" THEN "conn" ELSE "failed"
    /\ cancelled' = (cancelled \/ dial # "ok")
    /\ pump' = IF dial = "ok" THEN [pump EXCEPT !.pc = "read"] ELSE pump
    /\ UNCHANGED <<ctxDone, watch, server, down, sentDown, queue, readVars, deadline,
                   upVars, pw, closing>>

-----------------------------------------------------------------------------
(* The pump and Read.                                                      *)

\* What resp.Body.Read may return next: bytes, bytes with an error, an error.
BodyRead ==
    {[chunk |-> SubSeq(down, 1, n), err |-> e] :
        n \in 0 .. Len(down), e \in {"nil", "EOF", "reset"}}

Possible(r) ==
    CASE r.err = "nil" -> r.chunk # <<>>
      [] r.err = "EOF" -> server = "ended" /\ r.chunk = down
      [] r.err = "reset" -> Broken /\ r.chunk = <<>>

\* Mutant: the error is looked at before the bytes that came with it.
PumpRead_ErrorFirst ==
    /\ pump.pc = "read"
    /\ \E r \in {x \in BodyRead : Possible(x)} :
         /\ pump' = [pc |-> IF r.err # "nil" THEN "error" ELSE "send",
                     chunk |-> r.chunk, err |-> r.err]
         /\ down' = SubSeq(down, Len(r.chunk) + 1, Len(down))
    /\ UNCHANGED <<dialVars, cancelled, server, sentDown, queue, readVars, deadline,
                   upVars, pw, closing>>

PumpRead ==
    /\ pump.pc = "read"
    /\ \E r \in {x \in BodyRead : Possible(x)} :
         /\ pump' = [pc |-> IF r.chunk # <<>> THEN "send" ELSE "error",
                     chunk |-> r.chunk, err |-> r.err]
         /\ down' = SubSeq(down, Len(r.chunk) + 1, Len(down))
    /\ UNCHANGED <<dialVars, cancelled, server, sentDown, queue, readVars, deadline,
                   upVars, pw, closing>>

PumpSend ==
    /\ pump.pc = "send" /\ Len(queue) < ReadQueue
    /\ queue' = Append(queue, [data |-> pump.chunk, err |-> "nil"])
    /\ pump' = [pump EXCEPT !.pc = IF pump.err = "nil" THEN "read" ELSE "error"]
    /\ UNCHANGED <<dialVars, cancelled, server, down, sentDown, readVars, deadline,
                   upVars, pw, closing>>

\* The error is queued behind the data, and the pump ends.
PumpError ==
    /\ pump.pc = "error" /\ Len(queue) < ReadQueue
    /\ queue' = Append(queue, [data |-> <<>>, err |-> pump.err])
    /\ pump' = [pump EXCEPT !.pc = "ended"]
    /\ UNCHANGED <<dialVars, cancelled, server, down, sentDown, readVars, deadline,
                   upVars, pw, closing>>

\* Read copies what fits the caller's buffer and keeps the rest.
Copy(data) ==
    \E n \in 1 .. Len(data) :
        /\ got' = got \o SubSeq(data, 1, n)
        /\ pending' = SubSeq(data, n + 1, Len(data))

\* Read up to its select; after an EOF, and past the deadline, it returns at once.
ReadCall ==
    /\ Connected /\ read = "idle" /\ ~readEOF
    /\ IF pending # <<>>
       THEN Copy(pending) /\ UNCHANGED read
       ELSE /\ deadline # "past"
            /\ read' = IF deadline = "zero" THEN "wait" ELSE "timed"
            /\ UNCHANGED <<pending, got>>
    /\ UNCHANGED <<dialVars, cancelled, server, down, sentDown, pumpVars, readEOF, failed,
                   deadline, upVars, pw, closing>>

ReadTakes ==
    /\ read # "idle" /\ queue # <<>>
    /\ read' = "idle" /\ queue' = Tail(queue)
    /\ LET item == Head(queue)
       IN  IF item.err = "nil"
           THEN Copy(item.data) /\ UNCHANGED <<readEOF, failed>>
           ELSE /\ readEOF' = (item.err = "EOF")
                /\ failed' = (item.err # "EOF")
                /\ UNCHANGED <<pending, got>>
    /\ UNCHANGED <<dialVars, cancelled, server, down, sentDown, pump, deadline,
                   upVars, pw, closing>>

\* The timer was armed when the Read began: a later SetReadDeadline does not
\* reach it.
ReadTimeout ==
    /\ read = "timed"
    /\ read' = "idle"
    /\ UNCHANGED <<dialVars, cancelled, server, down, sentDown, pumpVars, pending, readEOF,
                   failed, got, deadline, upVars, pw, closing>>

\* "past" also stands for a deadline that passes.
SetReadDeadline(t) ==
    /\ Connected
    /\ deadline' = t
    /\ UNCHANGED <<dialVars, cancelled, server, down, sentDown, pumpVars, readVars,
                   upVars, pw, closing>>

-----------------------------------------------------------------------------
(* The uplink, Close, and the server's end.                                *)

H2Write ==
    /\ Connected /\ pw /\ ~Broken /\ server = "open" /\ sentUp < MaxUp
    /\ sentUp' = sentUp + 1
    /\ up' = Append(up, sentUp + 1)
    /\ UNCHANGED <<dialVars, cancelled, server, down, sentDown, pumpVars, readVars, deadline,
                   gotUp, serverEOF, pw, closing>>

CloseWrite ==
    /\ Connected /\ pw
    /\ pw' = FALSE
    /\ UNCHANGED <<dialVars, cancelled, server, down, sentDown, pumpVars, readVars, deadline,
                   upVars, closing>>

\* Mutant: Close only ends the writing direction.
H2Close_WriteOnly ==
    /\ Connected /\ closing = "no"
    /\ closing' = "returned" /\ pw' = FALSE /\ UNCHANGED cancelled
    /\ UNCHANGED <<dialVars, server, down, sentDown, pumpVars, readVars, deadline, upVars>>

\* Both of its calls, each of which happens only once.
H2Close ==
    /\ Connected
    /\ \/ closing = "no" /\ closing' = "cancel" /\ pw' = FALSE /\ UNCHANGED cancelled
       \/ closing = "cancel" /\ closing' = "returned" /\ cancelled' = TRUE /\ UNCHANGED pw
    /\ UNCHANGED <<dialVars, server, down, sentDown, pumpVars, readVars, deadline, upVars>>

ServerWrites ==
    /\ server = "open" /\ ~cancelled /\ sentDown < MaxDown
    /\ sentDown' = sentDown + 1
    /\ down' = Append(down, sentDown + 1)
    /\ UNCHANGED <<dialVars, cancelled, server, pumpVars, readVars, deadline, upVars, pw, closing>>

ServerReads ==
    /\ server = "open" /\ ~serverEOF
    /\ IF up # <<>>
       THEN up' = Tail(up) /\ gotUp' = gotUp + 1 /\ UNCHANGED serverEOF
       ELSE ~pw /\ serverEOF' = TRUE /\ UNCHANGED <<up, gotUp>>
    /\ UNCHANGED <<dialVars, cancelled, server, down, sentDown, pumpVars, readVars, deadline,
                   sentUp, pw, closing>>

\* Close lets the handler return, which ends the response.
ServerCloses ==
    /\ server = "open"
    /\ server' = "ended"
    /\ UNCHANGED <<dialVars, cancelled, down, sentDown, pumpVars, readVars, deadline,
                   upVars, pw, closing>>

ConnectionLost ==
    /\ server = "open"
    /\ server' = "lost"
    /\ UNCHANGED <<dialVars, cancelled, down, sentDown, pumpVars, readVars, deadline,
                   upVars, pw, closing>>

-----------------------------------------------------------------------------
PumpSteps == PumpRead \/ PumpSend \/ PumpError

H2Next ==
    \/ StartDial \/ CtxEnds \/ WatchWakes \/ WatchCancels \/ ServerOpens \/ DoReturns \/ DialEnds
    \/ PumpSteps \/ ReadCall \/ ReadTakes \/ ReadTimeout
    \/ \E t \in {"zero", "future", "past"} : SetReadDeadline(t)
    \/ H2Write \/ CloseWrite \/ H2Close
    \/ ServerWrites \/ ServerReads \/ ServerCloses \/ ConnectionLost

-----------------------------------------------------------------------------
\* What Read returns is what the server wrote, in order, however the chunks are
\* cut, timed out and kept; and the end of the stream is reported only to a
\* reader that has all of it, in both directions: a broken or cancelled stream
\* never looks like an orderly end.
EofIsTrue ==
    /\ \A i \in DOMAIN got : got[i] = i
    /\ readEOF => server = "ended" /\ Len(got) = sentDown
    /\ serverEOF => ~pw /\ gotUp = sentUp

\* Close, the end of the handler and the loss of the connection end a Read that
\* is waiting, past whatever is queued, unless an earlier Read has already had
\* the error: the pump is gone then, and with it everybody who could wake it.
ReadUnblocks ==
    (closing = "returned" \/ server \in {"ended", "lost"}) /\ read # "idle" /\ ~failed
      ~> read = "idle"
=============================================================================
