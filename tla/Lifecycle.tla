----------------------------- MODULE Lifecycle ------------------------------
(* The life of the server process: Run waits for signals, Reload validates *)
(* the configuration file, stops the running instance and starts a new one *)
(* from the file as it is by then, Start assembles the servers, binds them *)
(* one by one and gives each two goroutines, Stop closes the sockets and   *)
(* waits for those goroutines.                                             *)
(*                                                                         *)
(* A configuration is abstracted to what assembly looks at.  Addresses are *)
(* model values; a TCP and a UDP socket do not compete.                    *)
EXTENDS Naturals, Sequences, FiniteSets

CONSTANTS
    Addrs,          \* addresses
    Configs,        \* configurations the file may hold
    Plugins,        \* plugins that are compiled in
    Transports,     \* names in the transport registry
    MaxEdits,       \* bound on the number of changes of the file
    MaxSignals,     \* bound on the number of signals
    ListenMayFail,  \* a socket may be refused for a reason outside the process
    AcceptMayFail   \* Accept may fail on an open listener

Signals == {"HUP", "TERM"}
Handlers == {"star", "admin", "dns", "", "chain"}

\* An ingress with handler "chain" names a handler of the file; plugins is that
\* handler's list (empty when the handler is not defined).  codec is whether
\* settings.inCodec names a codec.
Ingress ==
    [name : STRING, handler : Handlers, transport : STRING, addr : Addrs,
     plugins : SUBSET STRING, codec : BOOLEAN]

ASSUME ConstantsAssumption ==
    /\ \A c \in Configs :
          /\ c.legacy \in BOOLEAN /\ c.services \in Nat
          /\ c.ingress \in Seq(Ingress)
          /\ c.routes \subseteq STRING /\ c.dialers \subseteq STRING
    /\ MaxEdits \in Nat /\ MaxSignals \in Nat
    /\ ListenMayFail \in BOOLEAN /\ AcceptMayFail \in BOOLEAN

-----------------------------------------------------------------------------
(* Assembly. *)

\* config.Load: no field of the old schema, no ingress name twice, every route
\* leads to a dialer that is defined.
Load(c) ==
    /\ ~c.legacy
    /\ \A j, k \in DOMAIN c.ingress : c.ingress[j].name = c.ingress[k].name => j = k
    /\ c.routes \subseteq c.dialers

\* executeDirectives: every plugin of every ingress is registered.
Directives(c) == \A k \in DOMAIN c.ingress : c.ingress[k].plugins \subseteq Plugins

\* GetConfig of a plugin's setup puts the chain under transport://address.
Zone(c, g) ==
    UNION {c.ingress[k].plugins :
              k \in {j \in DOMAIN c.ingress : /\ c.ingress[j].transport = g.transport
                                              /\ c.ingress[j].addr = g.addr}}

\* What the ingress becomes (buildRuntimeConfig, makeServersForGroup, NewServer):
\* a listener with an accept loop, a server that binds nothing, a frame server
\* over TCP or UDP, or the nil *Server of an ingress without plugins.
Kind(c, g) ==
    CASE g.handler \in {"star", "admin"} -> "pump"
      [] g.handler = "" -> IF g.transport = "udp" THEN "unbound" ELSE "pump"
      [] g.handler = "dns" -> "dns"
      [] OTHER -> IF Zone(c, g) = {} THEN "nil"
                  ELSE IF g.transport = "udp" THEN "udp" ELSE "tcp"

Server(c, g) ==
    [kind |-> Kind(c, g), addr |-> g.addr, open |-> FALSE, broke |-> FALSE,
     ptr |-> "none", serve |-> "off", packet |-> "off"]

\* A frame server needs a registered transport, or assembly fails.
CanMake(c) ==
    /\ c.services > 0
    /\ \A k \in DOMAIN c.ingress :
          c.ingress[k].handler = "chain" => c.ingress[k].transport \in Transports \union {"udp"}

\* A proxy without codec is skipped.
MakeServers(c) ==
    {[pos |-> k, rank |-> IF c.ingress[k].handler = "admin" THEN 1 ELSE 0,
      srv |-> Server(c, c.ingress[k])] :
        k \in {j \in DOMAIN c.ingress : c.ingress[j].handler # "" \/ c.ingress[j].codec}}

\* Servers are bound in the order of the file, the admin servers last.
Before(t, u) == t.rank < u.rank \/ (t.rank = u.rank /\ t.pos <= u.pos)

-----------------------------------------------------------------------------
VARIABLES
    file,       \* the configuration in the file
    sigCh,      \* the signal channel, of capacity one
    main,       \* where Run is
    why,        \* why an instance is stopped or started
    insts,      \* pluginer.instances: the server lists of all instances
    cur,        \* inst of Run, an index of insts
    todo,       \* servers startServers has still to bind
    outage,     \* the last Reload failed after it had stopped the old instance
    edits, signals  \* bounded counters

vars == <<file, sigCh, main, why, insts, cur, todo, outage, edits, signals>>
env == <<file, sigCh, edits, signals>>

\* The process is there.
Up == main \notin {"exited", "crashed"}

Socket(s) == s.kind \in {"pump", "tcp", "udp"}
Proto(s) == IF s.kind = "udp" THEN "udp" ELSE "tcp"
\* Both goroutines of a server have returned or were never started.
Idle(s) == s.serve \in {"off", "done"} /\ s.packet \in {"off", "done"}
Quiet(i) == \A k \in DOMAIN insts[i] : Idle(insts[i][k])

\* Some socket of this process holds the address.
InUse(s) ==
    \E i \in DOMAIN insts : \E k \in DOMAIN insts[i] :
        /\ insts[i][k].open
        /\ insts[i][k].addr = s.addr /\ Proto(insts[i][k]) = Proto(s)

Init ==
    /\ file \in Configs
    /\ sigCh = <<>>
    /\ main = "start" /\ why = "boot"
    /\ insts = <<>> /\ cur = 0 /\ todo = {}
    /\ outage = FALSE
    /\ edits = 0 /\ signals = 0

-----------------------------------------------------------------------------
(* Start. *)

\* An error of Start panics at boot; Run goes on with the instance it had.
StartFails ==
    /\ main' = IF why = "boot" THEN "crashed" ELSE "idle"
    /\ outage' = TRUE
    /\ todo' = {}
    /\ UNCHANGED <<why, cur>>

Crash ==
    /\ main' = "crashed"
    /\ UNCHANGED <<why, insts, cur, todo, outage>>

\* newContext reads the file a second time and panics when it does not load;
\* the instance is remembered before its servers are made.
NewInstance ==
    /\ main = "start"
    /\ \/ ~Load(file) /\ Crash
       \/ /\ Load(file) /\ ~Directives(file)
          /\ StartFails /\ UNCHANGED insts
       \/ /\ Load(file) /\ Directives(file)
          /\ insts' = Append(insts, <<>>)
          /\ \/ ~CanMake(file) /\ StartFails
             \/ /\ CanMake(file)
                /\ todo' = MakeServers(file) /\ main' = "listen"
                /\ UNCHANGED <<why, cur, outage>>
    /\ UNCHANGED env

\* startServers, first loop.  What is bound when a later server fails stays so.
Listen ==
    /\ main = "listen"
    /\ \E t \in todo :
          LET s == t.srv
              Bound(open) ==
                  /\ insts' = [insts EXCEPT ![Len(insts)] = Append(@, [s EXCEPT !.open = open])]
                  /\ todo' = todo \ {t}
                  /\ UNCHANGED <<main, why, cur, outage>>
          IN /\ \A u \in todo : Before(t, u)
             /\ \/ s.kind = "nil" /\ Crash
                \/ s.kind \in {"dns", "unbound"} /\ Bound(FALSE)
                \/ Socket(s) /\ ~InUse(s) /\ Bound(TRUE)
                \/ /\ Socket(s) /\ (InUse(s) \/ ListenMayFail)
                   /\ StartFails /\ UNCHANGED insts
    /\ UNCHANGED env

\* startServers, second loop; Run goes on with the new instance.
Spawn ==
    /\ main = "listen" /\ todo = {}
    /\ insts' = [insts EXCEPT ![Len(insts)] =
                    [k \in DOMAIN @ |-> [@[k] EXCEPT !.serve = "run", !.packet = "run"]]]
    /\ main' = "idle" /\ cur' = Len(insts) /\ outage' = FALSE
    /\ UNCHANGED <<file, sigCh, edits, signals, why, todo>>

-----------------------------------------------------------------------------
(* The goroutines of the servers. *)

Goroutine == {"serve", "packet"}

SetServer(i, k, s) ==
    /\ insts' = [insts EXCEPT ![i][k] = s]
    /\ UNCHANGED <<file, sigCh, main, why, cur, todo, outage, edits, signals>>

\* Frame server: Serve and ServePacket each make a star.Server of their own and
\* put it into s.server under the lock ...
Assign(i, k, g) ==
    LET s == insts[i][k] IN
    /\ Up /\ s.kind \in {"tcp", "udp"} /\ s[g] = "run"
    /\ SetServer(i, k, [s EXCEPT ![g] = "set",
                                 !.ptr = IF g = "serve" THEN "listener" ELSE "packet"])

\* ... and read s.server again after the unlock: ActivateAndServe runs on what
\* the last of them has put there.
Activate(i, k, g) ==
    LET s == insts[i][k] IN
    /\ Up /\ s[g] = "set"
    /\ SetServer(i, k, [s EXCEPT ![g] =
           IF s.ptr = "listener" /\ s.kind = "tcp" THEN "accept"
           ELSE IF s.ptr = "packet" /\ s.kind = "udp" THEN "receive"
           ELSE "done"])

\* The other servers go straight to their accept loop, or return at once.
Enter(i, k, g) ==
    LET s == insts[i][k] IN
    /\ Up /\ s.kind \in {"pump", "dns", "unbound"} /\ s[g] = "run"
    /\ ~(s.kind = "unbound" /\ g = "serve")
    /\ SetServer(i, k, [s EXCEPT ![g] = IF s.kind = "pump" /\ g = "serve"
                                        THEN "accept" ELSE "done"])

\* The accept loop of a proxy without a listener dereferences nil.
EnterNil(i, k) ==
    /\ Up /\ insts[i][k].kind = "unbound" /\ insts[i][k].serve = "run"
    /\ main' = "crashed"
    /\ UNCHANGED <<file, sigCh, why, insts, cur, todo, outage, edits, signals>>

\* Accept fails, since the listener was closed or for another reason; serveTCP
\* of the frame server closes it then.  The loop that receives datagrams has
\* no way out (state "receive" has no further step).
\* Mutant: the loop goes on after an error of Accept.
LoopEnds_Retries(i, k, g) ==
    LET s == insts[i][k] IN
    /\ Up /\ s[g] = "accept" /\ s.kind = "tcp" /\ ~s.open
    /\ SetServer(i, k, [s EXCEPT ![g] = "done"])
LoopEnds(i, k, g) ==
    LET s == insts[i][k] IN
    /\ Up /\ s[g] = "accept"
    /\ ~s.open \/ AcceptMayFail
    /\ SetServer(i, k, [s EXCEPT ![g] = "done", !.broke = @ \/ s.open,
                                 !.open = @ /\ s.kind = "pump"])

-----------------------------------------------------------------------------
(* Run, Reload, Stop. *)

Keep == UNCHANGED <<insts, cur, todo>>

TakeSignal ==
    /\ main = "idle" /\ sigCh # <<>>
    /\ sigCh' = Tail(sigCh)
    /\ main' = IF Head(sigCh) = "HUP" THEN "reload" ELSE "stop"
    /\ why' = IF Head(sigCh) = "HUP" THEN "reload" ELSE "exit"
    /\ Keep /\ UNCHANGED <<file, outage, edits, signals>>

\* Reload reads and validates; the old instance is kept when that fails.
\* Mutant: the old instance is stopped first.
Validate_StopFirst ==
    /\ main = "reload"
    /\ main' = IF Load(file) THEN "stop" ELSE "idle"
    /\ insts' = [insts EXCEPT ![cur] = [k \in DOMAIN @ |-> [@[k] EXCEPT !.open = FALSE]]]
    /\ UNCHANGED <<why, outage, cur, todo, file, sigCh, edits, signals>>
Validate ==
    /\ main = "reload"
    /\ main' = IF Load(file) THEN "stop" ELSE "idle"
    /\ Keep /\ UNCHANGED <<why, outage, file, sigCh, edits, signals>>

\* Stop closes all sockets of the instance ...
\* Mutant: it forgets the packet connections.
StopCloses_ListenersOnly ==
    /\ main = "stop"
    /\ insts' = [insts EXCEPT ![cur] =
                    [k \in DOMAIN @ |-> [@[k] EXCEPT !.open = @ /\ insts[cur][k].kind = "udp"]]]
    /\ main' = "wait"
    /\ UNCHANGED <<why, cur, todo, outage, file, sigCh, edits, signals>>
StopCloses ==
    /\ main = "stop"
    /\ insts' = [insts EXCEPT ![cur] = [k \in DOMAIN @ |-> [@[k] EXCEPT !.open = FALSE]]]
    /\ main' = "wait"
    /\ UNCHANGED <<why, cur, todo, outage, file, sigCh, edits, signals>>

\* ... and waits for its goroutines.
\* Mutant: Stop does not wait.
StopWaits_Not ==
    /\ main = "wait"
    /\ main' = IF why = "exit" THEN "exited" ELSE "start"
    /\ Keep /\ UNCHANGED <<why, outage, file, sigCh, edits, signals>>
StopWaits ==
    /\ main = "wait" /\ Quiet(cur)
    /\ main' = IF why = "exit" THEN "exited" ELSE "start"
    /\ Keep /\ UNCHANGED <<why, outage, file, sigCh, edits, signals>>

-----------------------------------------------------------------------------
(* Environment. *)

Edit ==
    /\ Up /\ edits < MaxEdits
    /\ file' \in Configs \ {file}
    /\ edits' = edits + 1
    /\ Keep /\ UNCHANGED <<sigCh, main, why, outage, signals>>

\* A signal that finds the channel full is lost (signal.Notify does not block);
\* Run asks for signals only once the first Start has returned.
Signal ==
    /\ Up /\ cur # 0 /\ signals < MaxSignals
    /\ \E s \in Signals : sigCh' = IF sigCh = <<>> THEN <<s>> ELSE sigCh
    /\ signals' = signals + 1
    /\ Keep /\ UNCHANGED <<file, main, why, outage, edits>>

-----------------------------------------------------------------------------
MainStep ==
    \/ NewInstance \/ Listen \/ Spawn
    \/ TakeSignal \/ Validate \/ StopCloses \/ StopWaits

GoStep(i, k) ==
    \/ \E g \in Goroutine : \/ Assign(i, k, g) \/ Activate(i, k, g)
                            \/ Enter(i, k, g) \/ LoopEnds(i, k, g)
    \/ EnterNil(i, k)

Next ==
    \/ MainStep
    \/ \E i \in DOMAIN insts : \E k \in DOMAIN insts[i] : GoStep(i, k)
    \/ Edit \/ Signal

Spec == Init /\ [][Next]_vars

\* The goroutines run, Accept fails on a closed listener.  Nobody has to send a
\* signal or to change the file, and Accept need not fail on an open one.
Run(i, k) ==
    \/ \E g \in Goroutine : \/ Assign(i, k, g) \/ Activate(i, k, g) \/ Enter(i, k, g)
                            \/ ~insts[i][k].open /\ LoopEnds(i, k, g)
    \/ EnterNil(i, k)

Goroutines == \E i \in DOMAIN insts : \E k \in DOMAIN insts[i] : Run(i, k)

\* Every goroutine takes finitely many of these steps, so fairness to all of
\* them together is enough.
Fairness == WF_vars(MainStep) /\ WF_vars(Goroutines)

FairSpec == Spec /\ Fairness

-----------------------------------------------------------------------------
(* Properties *)

ServerRec ==
    [kind : {"pump", "unbound", "dns", "nil", "tcp", "udp"}, addr : Addrs,
     open : BOOLEAN, broke : BOOLEAN, ptr : {"none", "listener", "packet"},
     serve : {"off", "run", "set", "accept", "receive", "done"},
     packet : {"off", "run", "set", "accept", "receive", "done"}]

\* Types; Run holds an instance that exists.
TypeOK ==
    /\ file \in Configs
    /\ sigCh \in Seq(Signals) /\ Len(sigCh) <= 1
    /\ main \in {"start", "listen", "idle", "reload", "stop", "wait", "exited", "crashed"}
    /\ why \in {"boot", "reload", "exit"}
    /\ insts \in Seq(Seq(ServerRec))
    /\ cur \in 0 .. Len(insts)
    /\ todo \subseteq [pos : Nat, rank : 0 .. 1, srv : ServerRec]
    /\ outage \in BOOLEAN
    /\ edits \in Nat /\ signals \in Nat

\* The listeners of two configurations never serve at the same time: only the
\* current instance has Serve goroutines, and none is left when Start begins to
\* bind (Stop waits).  Connections accepted before are not waited for.
OneGeneration ==
    /\ \A i \in DOMAIN insts : i # cur => Quiet(i)
    /\ main \in {"start", "listen"} => \A i \in DOMAIN insts : Quiet(i)

\* As long as Run waits for signals the current instance holds every socket it
\* was configured with, however many reloads were rejected, unless Accept broke
\* or a reload failed after it had stopped the instance.
IdleServes ==
    main = "idle" /\ ~outage =>
        /\ cur # 0
        /\ \A k \in DOMAIN insts[cur] :
              Socket(insts[cur][k]) => insts[cur][k].open \/ insts[cur][k].broke

\* startServers has given the server its goroutines.
Spawned(s) == s.serve # "off" \/ s.packet # "off"

\* A socket that was served is open only while its instance is the current one and not
\* stopped: what gets in the way of a later start is left by a start that
\* failed, never by a reload.
StoppedReleases ==
    \A i \in DOMAIN insts : \A k \in DOMAIN insts[i] :
        insts[i][k].open /\ Spawned(insts[i][k]) =>
            i = cur /\ main \notin {"wait", "start", "listen", "exited"}

\* "reload failed, keeping current instance": whenever Run waits for signals again, the
\* instance it keeps holds its sockets, unless Accept broke.
ReloadKeeps ==
    main = "idle" =>
        \A k \in DOMAIN insts[cur] :
            Socket(insts[cur][k]) => insts[cur][k].open \/ insts[cur][k].broke

\* A datagram loop that does not notice that its socket is closed.
Spins == \E i \in DOMAIN insts : \E k \in DOMAIN insts[i] :
            "receive" \in {insts[i][k].serve, insts[i][k].packet}

\* A termination signal that got into the channel ends the process, whatever
\* reload it arrives in, unless a datagram server keeps Stop waiting.
TermExits == (sigCh = <<"TERM">>) ~> (~Up \/ Spins)
=============================================================================
