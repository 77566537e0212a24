------------------------------ MODULE Registry ------------------------------
(***************************************************************************)
(* Who is connected and what is registered at the server: credentials,     *)
(* ctrl sessions, the stream table and the connection map of CtrlHub, with *)
(* several sessions at once.                                               *)
(*                                                                         *)
(*   src/internal/handler/star/ctrlproxy.go   (CtrlProxyServer)            *)
(*   src/internal/handler/star/streamtable.go (StreamTable)                *)
(*   src/internal/handler/star/ctrl_hub.go    (CtrlHub.conns)              *)
(*                                                                         *)
(* Every critical section of clientsMu, StreamTable.mu and CtrlHub.mu is   *)
(* one action.  Data, flow control and half-closed connections are module  *)
(* Tunnel's; here a connection is its entry in the map and what the client *)
(* believes about it.                                                      *)
(***************************************************************************)
EXTENDS Naturals, FiniteSets, Sequences

CONSTANTS Sessions,         \* ctrl connections, each used once
          Names,            \* clientProxyName values
          Services,         \* streamId values
          Passwords,        \* non-empty keyPassword values that clients present
          AdminPasswords,   \* settings.keyPassword: none or one of them
          Proxy,            \* clientProxy entries that may be configured
          Initial,          \* the configured clientProxy list
          StreamKey(_, _),  \* streamKey: name "/" service, as a map key
          MaxStreams,       \* bound: stream ids assigned
          MaxConns,         \* bound: connection ids assigned
          MaxProxies        \* bound: length of the clientProxy list

\* The identity of a session that presented the administrator's password.
Anyone == "*"

ASSUME RegistryAssumption ==
    /\ Anyone \notin Names
    /\ AdminPasswords \subseteq Passwords
    /\ Proxy \subseteq [name : Names, service : Services, password : Passwords]
    /\ Initial \in Seq(Proxy)
    /\ {MaxStreams, MaxConns, MaxProxies} \subseteq Nat

VARIABLES proxies,     \* settings.ClientProxy
          st,          \* session: "new", "auth", "verified", "live", "end1".."end3", "ended"
          snap,        \* the credentials a session's handshake is going to check against
          ident,       \* identity of a session
          clients,     \* sessions in CtrlProxyServer.clients
          kicked,      \* sessions whose transport is closed, by Kick or otherwise
          seq,         \* StreamTable.seq
          byID,        \* StreamTable.byID
          byStreamID,  \* StreamTable.byStreamID
          picked,      \* entries proxy handlers have picked, before OpenConn
          connSeq,     \* CtrlHub.connSeq
          conns,       \* CtrlHub.conns
          held,        \* per session, connections the client has open
          toServer     \* per session, full closes sent and not yet handled

vars == <<proxies, st, snap, ident, clients, kicked, seq, byID, byStreamID,
          picked, connSeq, conns, held, toServer>>
table == <<seq, byID, byStreamID>>
sessions == <<st, snap, ident, clients, kicked>>
connections == <<picked, connSeq, conns, held, toServer>>

Identities == Names \union {Anyone}

Entry == [id : Nat, name : Names, service : Services, client : Sessions]

\* A map without some keys, and a map with one more entry.
Without(f, D) == [x \in DOMAIN f \ D |-> f[x]]
With(f, k, v) == [x \in DOMAIN f \union {k} |-> IF x = k THEN v ELSE f[x]]

KeyOf(e) == StreamKey(e.name, e.service)

-----------------------------------------------------------------------------
NoCreds == [w \in {} |-> Anyone]

Init ==
    /\ proxies = Initial
    /\ st = [s \in Sessions |-> "new"]
    /\ snap = [s \in Sessions |-> NoCreds]
    /\ ident = [s \in Sessions |-> Anyone]
    /\ clients = {} /\ kicked = {}
    /\ seq = 0
    /\ byID = [x \in {} |-> x] /\ byStreamID = [x \in {} |-> x]
    /\ picked = {}
    /\ connSeq = 0
    /\ conns = [x \in {} |-> x]
    /\ held = [s \in Sessions |-> {}]
    /\ toServer = [s \in Sessions |-> {}]

\* creds(): of several entries with one password the last one counts, and the
\* administrator's password counts before all of them.
Creds ==
    [w \in {proxies[i].password : i \in DOMAIN proxies} \union AdminPasswords |->
        IF w \in AdminPasswords THEN Anyone
        ELSE proxies[CHOOSE i \in DOMAIN proxies :
                        /\ proxies[i].password = w
                        /\ \A j \in DOMAIN proxies :
                              proxies[j].password = w => j <= i].name]

\* handleConn takes the credentials before it reads the handshake.
Accept(s) ==
    /\ st[s] = "new"
    /\ st' = [st EXCEPT ![s] = "auth"]
    /\ snap' = [snap EXCEPT ![s] = Creds]
    /\ UNCHANGED <<proxies, ident, clients, kicked, table, connections>>

Handshake(s, w) ==
    /\ st[s] = "auth"
    /\ snap' = [snap EXCEPT ![s] = NoCreds]
    /\ IF w \in DOMAIN snap[s]
       THEN /\ st' = [st EXCEPT ![s] = "verified"]
            /\ ident' = [ident EXCEPT ![s] = snap[s][w]]
       ELSE /\ st' = [st EXCEPT ![s] = "ended"]
            /\ UNCHANGED ident
    /\ UNCHANGED <<proxies, clients, kicked, table, connections>>

\* The session enters the clients map, where Kick can find it.
AddClient(s) ==
    /\ st[s] = "verified"
    /\ st' = [st EXCEPT ![s] = "live"]
    /\ clients' = clients \union {s}
    /\ UNCHANGED <<proxies, snap, ident, kicked, table, connections>>

AddClientProxy(p) ==
    /\ Len(proxies) < MaxProxies
    /\ \A i \in DOMAIN proxies :
          <<proxies[i].name, proxies[i].service>> # <<p.name, p.service>>
    /\ proxies' = Append(proxies, p)
    /\ UNCHANGED <<sessions, table, connections>>

\* The first entry of that name and service goes.
RemoveClientProxy(i) ==
    /\ i \in DOMAIN proxies
    /\ \A j \in 1 .. i - 1 :
          <<proxies[j].name, proxies[j].service>>
             # <<proxies[i].name, proxies[i].service>>
    /\ proxies' = SubSeq(proxies, 1, i - 1) \o SubSeq(proxies, i + 1, Len(proxies))
    /\ UNCHANGED <<sessions, table, connections>>

Kick(name) ==
    /\ kicked' = kicked \union {s \in clients : ident[s] = name}
    /\ UNCHANGED <<proxies, st, snap, ident, clients, table, connections>>

\* May a session with this identity register streams of that name?
Allowed(s, name) == ident[s] \in {Anyone, name}

\* StreamTable.Assign's duplicate check.
Free(name, service) == StreamKey(name, service) \notin DOMAIN byStreamID

\* The number of a new stream.
NewID == seq + 1

\* MsgRegisterStream: identity check, then StreamTable.Assign.
RegisterStream(s, name, service) ==
    /\ st[s] = "live"
    /\ seq < MaxStreams
    /\ Allowed(s, name)
    /\ Free(name, service)
    /\ LET e == [id |-> NewID, name |-> name, service |-> service, client |-> s]
       IN  /\ byID' = With(byID, e.id, e)
           /\ byStreamID' = With(byStreamID, KeyOf(e), e)
    /\ seq' = seq + 1
    /\ UNCHANGED <<proxies, sessions, connections>>

\* The entries of byID and byStreamID that go when the ids D are removed;
\* mutant: byStreamID is forgotten.
RemoveIDs_OneMap(D) ==
    /\ byID' = Without(byID, D)
    /\ UNCHANGED <<byStreamID, seq>>
RemoveIDs(D) ==
    /\ byID' = Without(byID, D)
    /\ byStreamID' = Without(byStreamID, {KeyOf(byID[i]) : i \in D})
    /\ UNCHANGED seq

-----------------------------------------------------------------------------
\* A proxy handler picks a stream, and opens a connection on it later.
PickEntry(id) ==
    /\ id \in DOMAIN byID
    /\ connSeq < MaxConns
    /\ picked' = picked \union {byID[id]}
    /\ UNCHANGED <<proxies, sessions, table, connSeq, conns, held, toServer>>

\* The number of a new connection; mutant: the smallest one that is free.
NewConn_Reused == CHOOSE i \in 1 .. connSeq + 1 :
                     /\ i \notin DOMAIN conns
                     /\ \A j \in 1 .. i - 1 : j \in DOMAIN conns
NewConn == connSeq + 1

\* OpenConn; ok says whether the client got the request and accepted it.
OpenConn(e, ok) ==
    /\ e \in picked
    /\ connSeq < MaxConns
    /\ connSeq' = connSeq + 1
    /\ conns' = With(conns, NewConn, [stream |-> e.id, client |-> e.client])
    /\ picked' = picked \ {e}
    /\ ok => st[e.client] = "live" /\ e.client \notin kicked
    /\ held' = IF ok THEN [held EXCEPT ![e.client] = @ \union {NewConn}] ELSE held
    /\ UNCHANGED <<proxies, sessions, table, toServer>>

\* The server drops a connection: OpenConn failed or timed out, and the client
\* is not told; or handleConn tears it down, and the client closes it in turn.
ServerCloses(c, told) ==
    /\ c \in DOMAIN conns
    /\ conns' = Without(conns, {c})
    /\ held' = IF told THEN [held EXCEPT ![conns[c].client] = @ \ {c}] ELSE held
    /\ UNCHANGED <<proxies, sessions, table, picked, connSeq, toServer>>

\* The client closes a connection and sends its streamClose.
ClientCloses(s, c) ==
    /\ c \in held[s]
    /\ held' = [held EXCEPT ![s] = @ \ {c}]
    /\ toServer' = [toServer EXCEPT ![s] = @ \union {c}]
    /\ UNCHANGED <<proxies, sessions, table, picked, connSeq, conns>>

\* MsgStreamClose at the server: a connection of that number is closed, else
\* the stream of that number is deregistered.
HandleClose(s, c) ==
    /\ st[s] = "live"
    /\ c \in toServer[s]
    /\ toServer' = [toServer EXCEPT ![s] = @ \ {c}]
    /\ IF c \in DOMAIN conns
       THEN conns' = Without(conns, {c}) /\ UNCHANGED table
       ELSE RemoveIDs({c} \intersect DOMAIN byID) /\ UNCHANGED conns
    /\ UNCHANGED <<proxies, sessions, picked, connSeq, held>>

\* The session's transport fails or is closed, and the deferred cleanup of
\* handleConn runs: clients, then CloseConnsByClient, then RemoveByClient.
SessionEnds(s) ==
    /\ st[s] = "live"
    /\ st' = [st EXCEPT ![s] = "end1"]
    /\ kicked' = kicked \union {s}
    /\ UNCHANGED <<proxies, snap, ident, clients, table, connections>>

DeleteClient(s) ==
    /\ st[s] = "end1"
    /\ st' = [st EXCEPT ![s] = "end2"]
    /\ clients' = clients \ {s}
    /\ UNCHANGED <<proxies, snap, ident, kicked, table, connections>>

\* The connections CloseConnsByClient selects: through the stream table.
ConnsOf(s) ==
    {c \in DOMAIN conns : /\ conns[c].stream \in DOMAIN byID
                          /\ byID[conns[c].stream].client = s}

CloseConnsByClient(s) ==
    /\ st[s] = "end2"
    /\ st' = [st EXCEPT ![s] = "end3"]
    /\ conns' = Without(conns, ConnsOf(s))
    /\ UNCHANGED <<proxies, snap, ident, clients, kicked, table, picked,
                   connSeq, held, toServer>>

\* RemoveByClient; mutant: the cleanup stops before it.
RemoveByClient_Skipped(s) ==
    /\ st[s] = "end3"
    /\ st' = [st EXCEPT ![s] = "ended"]
    /\ UNCHANGED <<proxies, snap, ident, clients, kicked, table, connections>>
RemoveByClient(s) ==
    /\ st[s] = "end3"
    /\ st' = [st EXCEPT ![s] = "ended"]
    /\ RemoveIDs({i \in DOMAIN byID : byID[i].client = s})
    /\ UNCHANGED <<proxies, snap, ident, clients, kicked, connections>>

SessionStep(s) ==
    \/ Accept(s)
    \/ \E w \in Passwords : Handshake(s, w)
    \/ AddClient(s)
    \/ \E name \in Names, service \in Services : RegisterStream(s, name, service)
    \/ \E c \in held[s] : ClientCloses(s, c)
    \/ \E c \in toServer[s] : HandleClose(s, c)
    \/ SessionEnds(s) \/ DeleteClient(s) \/ CloseConnsByClient(s)
    \/ RemoveByClient(s)

Next ==
    \/ \E s \in Sessions : SessionStep(s)
    \/ \E p \in Proxy : AddClientProxy(p)
    \/ \E i \in DOMAIN proxies : RemoveClientProxy(i)
    \/ \E name \in Identities : Kick(name)
    \/ \E id \in DOMAIN byID : PickEntry(id)
    \/ \E e \in picked, ok \in BOOLEAN : OpenConn(e, ok)
    \/ \E c \in DOMAIN conns, told \in BOOLEAN : ServerCloses(c, told)

Spec == Init /\ [][Next]_vars

-----------------------------------------------------------------------------
States == {"new", "auth", "verified", "live", "end1", "end2", "end3", "ended"}

\* Types, and that the two stream maps hold stream entries.
TypeOK ==
    /\ proxies \in Seq(Proxy)
    /\ st \in [Sessions -> States]
    /\ DOMAIN snap = Sessions
    /\ \A s \in Sessions : \A w \in DOMAIN snap[s] : snap[s][w] \in Identities
    /\ ident \in [Sessions -> Identities]
    /\ clients \subseteq Sessions /\ kicked \subseteq Sessions
    /\ seq \in Nat /\ connSeq \in Nat
    /\ DOMAIN byID \subseteq Nat
    /\ \A i \in DOMAIN byID : byID[i] \in Entry
    /\ \A k \in DOMAIN byStreamID : byStreamID[k] \in Entry
    /\ picked \subseteq Entry
    /\ DOMAIN conns \subseteq Nat
    /\ \A c \in DOMAIN conns : conns[c] \in [stream : Nat, client : Sessions]
    /\ held \in [Sessions -> SUBSET Nat]
    /\ toServer \in [Sessions -> SUBSET Nat]

\* byID and byStreamID (streamtable.go) are two indexes of one set of entries,
\* also when two different streams have the same key: a lookup by name finds
\* exactly the streams a lookup by number finds.
TableConsistent ==
    /\ \A i \in DOMAIN byID :
          /\ byID[i].id = i
          /\ KeyOf(byID[i]) \in DOMAIN byStreamID
          /\ byStreamID[KeyOf(byID[i])] = byID[i]
    /\ \A k \in DOMAIN byStreamID :
          /\ KeyOf(byStreamID[k]) = k
          /\ byStreamID[k].id \in DOMAIN byID
          /\ byID[byStreamID[k].id] = byStreamID[k]

Serving == {"live", "end1", "end2", "end3"}

\* No stream outlives its ctrl session: once handleConn's deferred cleanup is
\* over, nothing of the session is left for a proxy handler to pick.
NoStreamOfEndedSession ==
    \A i \in DOMAIN byID : st[byID[i].client] \in Serving

\* Every registered stream carries the name its session's credential stands
\* for, unless that was the administrator's.
IdentityRespected ==
    \A i \in DOMAIN byID : ident[byID[i].client] \in {Anyone, byID[i].name}

\* CloseConnsByClient selects connections through the stream table by number;
\* a number that is still registered leads to the connection's own session,
\* so the end of one session never closes a connection of another.
CloseFindsOwnConns ==
    \A c \in DOMAIN conns :
       conns[c].stream \in DOMAIN byID =>
          byID[conns[c].stream].client = conns[c].client

\* HandleClose does not ask whose the connection is.  Even so a full close,
\* however late it is handled, only ever names a connection of the session
\* that sent it.
NoForeignClose ==
    \A s \in Sessions : \A c \in held[s] \union toServer[s] :
       c \in DOMAIN conns => conns[c].client = s
=============================================================================
