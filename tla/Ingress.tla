------------------------------- MODULE Ingress ------------------------------
(***************************************************************************)
(* The accept side of the transports that hand logical connections over,   *)
(* and of the protocol sniffer.  A goroutine per session, request or       *)
(* connection offers what arrives to a channel; Accept takes it out; the   *)
(* listener is closed by its owner, by its context or by its accept loop.  *)
(*                                                                         *)
(*   src/internal/transport/kcp/kcp.go    src/internal/transport/h2/h2.go  *)
(*   src/internal/transport/quic/quic.go  src/internal/transport/ws/ws.go  *)
(*   src/internal/ingress/sniff/sniff.go  (Dispatcher, facade)             *)
(*                                                                         *)
(* The libraries below are external: an open socket lets connections in,   *)
(* and sessions that are up survive it.                                    *)
(***************************************************************************)
EXTENDS Naturals, Sequences, SequencesExt, FiniteSets

CONSTANTS Kinds,     \* the listeners of this instance
          Conns,     \* bound: the logical connections that ever arrive
          Session,   \* the session that carries a connection (kcp, quic, h2)
          Cap,       \* capacity of a buffered channel; 16 in the code
          Contents,  \* sniff: what a client sends, [bytes, host, mark, stop]
          Configs    \* sniff: Config, [prefixes, http, hosts, httpDefault, default]

ASSUME IngressAssumption ==
    /\ Kinds \subseteq {"kcp", "quic", "h2", "ws", "sniff"}
    /\ DOMAIN Session = Conns /\ Cap \in Nat \ {0}

ASSUME ContentsAssumption ==
    \A x \in Contents :
        /\ x.bytes \in Seq(Nat) /\ x.mark \in Nat /\ x.stop \in Nat
        /\ x.host # "" => x.mark > 3      \* behind the request line

ASSUME ConfigsAssumption ==
    \A c \in Configs :
        /\ c.prefixes \in Seq([prefix : Seq(Nat), target : STRING])
        /\ c.default # ""      \* New returns an error otherwise

VARIABLES kind,
          cfg,       \* the sniffer's Config
          raw,       \* the socket is open
          up,        \* sessions that are established
          gone,      \* sessions whose goroutine has returned
          st,        \* per connection: how far it has come
          content,   \* per connection: what its client sends
          target,    \* per connection: the channel it is meant for
          queue,     \* per target: the buffered channel
          acceptor,  \* per target: the owner's Accept loop
          closer,    \* per closing goroutine: what Close has still to do
          done,      \* the done channel is closed
          panicked   \* close of closed channel

vars == <<kind, cfg, raw, up, gone, st, content, target, queue, acceptor,
          closer, done, panicked>>
closing == <<raw, closer, done, panicked>>
fixed == <<kind, cfg, content>>

Closers == {"ctx", "loop", "owner", "facade"}
Multiplexed == kind \in {"kcp", "quic", "h2"}
Buffered == kind \in {"kcp", "sniff"}
Size == IF Buffered THEN Cap ELSE 0

-----------------------------------------------------------------------------
(* Dispatcher.dispatch: which target a connection is for *)

Starts(bytes, prefix) == IsPrefix(prefix, bytes)

\* New registers every target the configuration names.
Registered(c) ==
    ({c.default, c.httpDefault} \cup Range(c.hosts) \cup
     {c.prefixes[i].target : i \in DOMAIN c.prefixes}) \ {""}

\* handoff falls back on the default target.
Known(c, t) == IF t \in Registered(c) THEN t ELSE c.default

\* Where the bytes for rule i begin: a rule longer than the three bytes of the
\* head reads on from where the longer rules before it have stopped.  The bytes
\* they have read are counted by rule and position.
Extra(c, i) == IF Len(c.prefixes[i].prefix) > 3 THEN Len(c.prefixes[i].prefix) - 3 ELSE 0
ReadBefore(c, i) == Cardinality(UNION {{k} \X (1 .. Extra(c, k)) : k \in 1 .. i - 1})

Head3(x) == SubSeq(x.bytes, 1, 3)
ReadFor(c, x, i) ==
    Head3(x) \o SubSeq(x.bytes, 4 + ReadBefore(c, i), 3 + ReadBefore(c, i) + Extra(c, i))

\* The client ends before rule i has its bytes.
Short(c, x, i) == Len(x.bytes) < 3 + ReadBefore(c, i) + Extra(c, i)

\* A rule without bytes is skipped.
Decides(c, x, i) ==
    /\ c.prefixes[i].prefix # <<>>
    /\ Short(c, x, i) \/ Starts(ReadFor(c, x, i), c.prefixes[i].prefix)

\* A request: before its Host line come mark bytes, before the empty line that ends
\* its head stop bytes, where 0 stands for a line that does not come.  matchHTTP
\* reads on from byte n and first drops the rest of the line it is in: what comes
\* in a line of its own after that is seen.
HostSeen(x, n) == n < x.mark
HeadEnds(x, n) == n < x.stop

\* By Host, if there is a route for it.
HttpTarget(c, x, n) ==
    LET host == IF HostSeen(x, n) THEN x.host ELSE ""
    IN  IF host \in DOMAIN c.hosts THEN c.hosts[host] ELSE c.httpDefault

\* All that the rules have read when none of them has matched.
ReadByRules(c) == 3 + ReadBefore(c, Len(c.prefixes) + 1)

Hits(c, x) == {i \in DOMAIN c.prefixes : Decides(c, x, i)}

\* The client ends before the head or the first rule that decides has its bytes.
Unread(c, x) ==
    Len(x.bytes) < 3 \/ (Hits(c, x) # {} /\ Short(c, x, Min(Hits(c, x))))

\* dispatch, once the reads have returned.
\* Mutant: the last rule that matches wins.
Dispatch_LastRule(c, x) ==
    IF Unread(c, x) THEN "closed"
    ELSE IF Hits(c, x) # {} THEN Known(c, c.prefixes[Max(Hits(c, x))].target)
    ELSE IF Head3(x) \in c.http THEN Known(c, HttpTarget(c, x, ReadByRules(c)))
    ELSE c.default
Dispatch(c, x) ==
    IF Unread(c, x) THEN "closed"
    ELSE IF Hits(c, x) # {} THEN Known(c, c.prefixes[Min(Hits(c, x))].target)
    ELSE IF Head3(x) \in c.http THEN Known(c, HttpTarget(c, x, ReadByRules(c)))
    ELSE c.default

\* A read of dispatch or matchHTTP waits for more than the client sends.  There
\* is no deadline.
Awaits(c, x) ==
    \/ Unread(c, x)
    \/ /\ Hits(c, x) = {} /\ Head3(x) \in c.http
       /\ ~HostSeen(x, ReadByRules(c)) /\ ~HeadEnds(x, ReadByRules(c))

\* Evaluated once per configuration and content.
DispatchTable == [c \in Configs |-> [x \in Contents |-> Dispatch(c, x)]]
AwaitsTable == [c \in Configs |-> [x \in Contents |-> Awaits(c, x)]]

Self == "self"
NoContent == [bytes |-> <<>>, host |-> "", mark |-> 0, stop |-> 0]
NoConfig == [prefixes |-> <<>>, http |-> {}, hosts |-> <<>>, httpDefault |-> "", default |-> ""]

-----------------------------------------------------------------------------
Init ==
    /\ kind \in Kinds
    /\ cfg \in IF kind = "sniff" THEN Configs ELSE {NoConfig}
    /\ content = [c \in Conns |-> NoContent]
    /\ raw = TRUE /\ done = FALSE /\ panicked = FALSE
    /\ up = {} /\ gone = {}
    /\ st = [c \in Conns |-> "none"]
    /\ target = [c \in Conns |-> Self]
    /\ LET targets == IF kind = "sniff" THEN Registered(cfg) ELSE {Self}
       IN  /\ queue = [t \in targets |-> <<>>]
           /\ acceptor = [t \in targets |-> "accept"]
    /\ closer = [w \in Closers |-> <<"idle">>]

Targets == DOMAIN queue
Running == ~panicked
Now(c, s) == st' = [st EXCEPT ![c] = s]

\* A new session or connection needs the socket, a stream only its session.
Arrive(c) ==
    /\ Running /\ st[c] = "none"
    /\ raw \/ (Multiplexed /\ Session[c] \in up)
    /\ Now(c, "waiting")
    /\ \E x \in IF kind = "sniff" THEN Contents ELSE {NoContent} :
          content' = [content EXCEPT ![c] = x]
    /\ up' = up \cup {Session[c]}
    /\ UNCHANGED <<kind, cfg, gone, target, queue, acceptor, closing>>

\* kcp and quic: one goroutine per session takes one stream after the other;
\* h2 and ws: one handler per request; sniff: one goroutine per connection.
Serial == kind \in {"kcp", "quic"}

\* What a client of the sniffer has sent is not enough for its reads.
Silent(c) == kind = "sniff" /\ AwaitsTable[cfg][content[c]]

SendTo(c, t) ==
    /\ target' = [target EXCEPT ![c] = t]
    /\ Now(c, IF t = "closed" THEN "closed" ELSE "offered")
    /\ UNCHANGED <<fixed, up, gone, queue, acceptor, closing>>

Take(c) ==
    /\ Running /\ st[c] = "waiting" /\ ~Silent(c)
    /\ Serial => /\ Session[c] \notin gone
                 /\ \A x \in Conns : Session[x] = Session[c] => st[x] # "offered"
    /\ SendTo(c, IF kind = "sniff" THEN DispatchTable[cfg][content[c]] ELSE Self)

\* A silent client leaves, and the read fails.
Leave(c) ==
    /\ Running /\ st[c] = "waiting" /\ Silent(c)
    /\ SendTo(c, DispatchTable[cfg][content[c]])

\* A wrong path, a failed upgrade, a client that leaves before its request is
\* there; a socket that closes over its backlog.
Reject(c) ==
    /\ Running /\ st[c] = "waiting" /\ ~Serial
    /\ kind = "sniff" => ~raw
    /\ Now(c, "closed")
    /\ UNCHANGED <<fixed, up, gone, target, queue, acceptor, closing>>

\* The send of the select: into the buffer, or to an Accept that waits.
Offer(c) ==
    /\ Running /\ st[c] = "offered"
    /\ \/ /\ Buffered /\ Len(queue[target[c]]) < Size
          /\ queue' = [queue EXCEPT ![target[c]] = Append(@, c)]
          /\ Now(c, "queued")
       \/ /\ ~Buffered /\ acceptor[target[c]] = "accept"
          /\ Now(c, "accepted")
          /\ UNCHANGED queue
    /\ UNCHANGED <<fixed, up, gone, target, acceptor, closing>>

\* The done case of the select; the goroutine of a session returns with it.
\* Mutant: the select has no done case.
Refuse_Never(c) == FALSE

Refuse(c) ==
    /\ Running /\ st[c] = "offered" /\ done /\ kind # "sniff"
    /\ Now(c, "closed")
    /\ gone' = IF Serial THEN gone \cup {Session[c]} ELSE gone
    /\ UNCHANGED <<fixed, up, target, queue, acceptor, closing>>

\* handoff's ten seconds.
Expire(c) ==
    /\ Running /\ st[c] = "offered" /\ kind = "sniff"
    /\ Len(queue[target[c]]) = Size
    /\ Now(c, "closed")
    /\ UNCHANGED <<fixed, up, gone, target, queue, acceptor, closing>>

\* Accept is a select too: with both cases ready it may take either.
Accept(t) ==
    /\ Running /\ acceptor[t] = "accept" /\ queue[t] # <<>>
    /\ queue' = [queue EXCEPT ![t] = Tail(@)]
    /\ Now(Head(queue[t]), "accepted")
    /\ UNCHANGED <<fixed, up, gone, target, acceptor, closing>>

AcceptClosed(t) ==
    /\ Running /\ acceptor[t] = "accept" /\ done
    /\ acceptor' = [acceptor EXCEPT ![t] = "returned"]
    /\ UNCHANGED <<fixed, up, gone, st, target, queue, closing>>

-----------------------------------------------------------------------------
(* Close *)

Plan(w) ==
    CASE w = "facade" -> <<>>
      [] w # "facade" /\ kind \in {"kcp", "quic", "sniff"} -> <<"once", "raw">>
      [] kind = "h2" /\ w = "owner" -> <<"test", "close", "raw", "test", "close">>
      [] kind = "ws" /\ w = "owner" -> <<"raw", "test", "close">>
      [] OTHER -> <<"test", "close">>

\* The goroutine that waits for the end of the context, the accept loop after an
\* error (ws leaves that to http.Server), the owner, and the owner of a target.
StartClose(w) ==
    /\ Running /\ closer[w] = <<"idle">>
    /\ w = "loop" => kind # "ws"
    /\ w = "facade" => kind = "sniff"
    /\ closer' = [closer EXCEPT ![w] = Plan(w)]
    /\ UNCHANGED <<fixed, up, gone, st, target, queue, acceptor, raw, done, panicked>>

CloseStep(w) ==
    /\ Running /\ closer[w] \notin {<<>>, <<"idle">>}
    /\ LET step == Head(closer[w]) IN
       /\ closer' = [closer EXCEPT ![w] = IF step = "test" /\ done THEN Tail(Tail(@)) ELSE Tail(@)]
       /\ done' = (done \/ step \in {"once", "close"})
       /\ panicked' = (step = "close" /\ done)
       /\ raw' = (raw /\ step # "raw")
    /\ UNCHANGED <<fixed, up, gone, st, target, queue, acceptor>>

-----------------------------------------------------------------------------
Next ==
    \/ \E c \in Conns : \/ Arrive(c) \/ Take(c) \/ Leave(c) \/ Reject(c)
                        \/ Offer(c) \/ Refuse(c) \/ Expire(c)
    \/ \E t \in Targets : Accept(t) \/ AcceptClosed(t)
    \/ \E w \in Closers : StartClose(w) \/ CloseStep(w)

Spec == Init /\ [][Next]_vars

\* Every goroutine runs; a select that is ready again and again takes each of
\* its cases in the end.  Nobody need call Close, cancel the context, send or leave.
FairSpec ==
    /\ Spec
    /\ \A c \in Conns : SF_vars(Take(c) \/ Offer(c) \/ Refuse(c) \/ Expire(c))
    /\ WF_vars(\E t \in Targets : Accept(t))
    /\ SF_vars(\E t \in Targets : AcceptClosed(t))
    /\ \A w \in Closers : WF_vars(CloseStep(w))

-----------------------------------------------------------------------------
TypeOK ==
    /\ kind \in Kinds /\ cfg \in Configs \cup {NoConfig}
    /\ content \in [Conns -> Contents \cup {NoContent}]
    /\ {raw, done, panicked} \subseteq BOOLEAN
    /\ gone \subseteq up /\ up \subseteq Range(Session)
    /\ st \in [Conns -> {"none", "waiting", "offered", "queued", "accepted", "closed"}]
    /\ \A t \in Targets : Len(queue[t]) <= Size /\ acceptor[t] \in {"accept", "returned"}
    /\ \A c \in Conns : st[c] \in {"offered", "queued", "accepted"} => target[c] \in Targets

\* What the documentation says of the rules: the first prefix that the client's
\* bytes begin with, then the Host of an HTTP request, then the default, which
\* also stands in where a rule names no target.
Documented(c, x) ==
    LET hits == {i \in DOMAIN c.prefixes : /\ c.prefixes[i].prefix # <<>>
                                           /\ Starts(x.bytes, c.prefixes[i].prefix)}
        byHost == IF x.host \in DOMAIN c.hosts THEN c.hosts[x.host] ELSE c.httpDefault
        named == CASE hits # {} -> c.prefixes[Min(hits)].target
                   [] hits = {} /\ Head3(x) \in c.http -> byHost
                   [] OTHER -> ""
    IN  IF named = "" THEN c.default ELSE named

DocumentedTable == [c \in Configs |-> [x \in Contents |-> Documented(c, x)]]

\* At most one rule is longer than the three bytes read at first, and it does not
\* reach the last byte before a Host line.
RulesFit(c, x) ==
    /\ Cardinality({i \in DOMAIN c.prefixes : Extra(c, i) > 0}) <= 1
    /\ x.host # "" => \A i \in DOMAIN c.prefixes : 3 + Extra(c, i) < x.mark

\* A connection the sniffer hands over, whether its client went on sending or left,
\* is at the target that the documented rules name, if its bytes fit the rules.
\* (A second long rule compares the wrong bytes, and a rule that has read
\* into the Host line leaves none for matchHTTP to see.)
Routed ==
    \A c \in Conns :
        kind = "sniff" /\ st[c] \in {"queued", "accepted"} /\ RulesFit(cfg, content[c])
        => target[c] = DocumentedTable[cfg][content[c]]

\* Every connection that arrives is accepted or closed in the end, but for those of
\* the sniffer whose client neither sends what the rules read nor leaves.  What a
\* Close leaves behind is in the buffer of kcp or sniff, which nobody drains,
\* or on a session whose goroutine has returned with a refused stream.
ConnSettles ==
    \A c \in Conns :
        st[c] = "offered" \/ (st[c] = "waiting" /\ ~Silent(c))
          ~> \/ st[c] \in {"accepted", "closed"}
             \/ done /\ Buffered /\ st[c] = "queued"
             \/ done /\ Serial /\ Session[c] \in gone
             \/ panicked

Closes(w) == w # "facade" /\ closer[w] # <<"idle">>

=============================================================================
