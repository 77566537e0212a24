-------------------------- MODULE LifecycleProofs ---------------------------
(* Proofs of the safety properties of Lifecycle.  The inductive invariant  *)
(* adds to them what holds between the steps of a reload: the stopped      *)
(* instance stays closed and quiet until the next one is spawned, and the  *)
(* one that is being bound is not yet the current one.                     *)
EXTENDS Lifecycle, TLAPS, SequenceTheorems

TodoRec == [pos : Nat, rank : 0 .. 1, srv : ServerRec]

\* Run holds an instance from the first successful Start on.
HoldsInstance ==
    /\ main \notin {"start", "listen", "crashed"} => cur # 0
    /\ why # "boot" => cur # 0

\* The servers to be bound have no goroutine yet.
TodoIdle == \A t \in todo : Idle(t.srv) /\ ~Spawned(t.srv)

\* IdleServes, until Stop has closed the sockets.
HoldsSockets ==
    main \in {"idle", "reload", "stop"} /\ ~outage =>
        \A k \in DOMAIN insts[cur] :
            Socket(insts[cur][k]) => insts[cur][k].open \/ insts[cur][k].broke

\* Once Stop has run, and after a reload that failed behind it, nothing of the
\* current instance is left.
Down ==
    /\ outage /\ main \in {"idle", "reload", "stop", "wait"} =>
          \A i \in DOMAIN insts : Quiet(i)
    /\ (main \in {"wait", "start", "listen"} \/ (outage /\ main \in {"idle", "reload", "stop"}))
          /\ cur # 0 => \A k \in DOMAIN insts[cur] : ~insts[cur][k].open

\* What startServers has bound so far is not the current instance.
Binding ==
    main = "listen" =>
        /\ cur < Len(insts)
        /\ \A k \in DOMAIN insts[Len(insts)] :
              Socket(insts[Len(insts)][k]) => insts[Len(insts)][k].open

IInv ==
    /\ TypeOK /\ OneGeneration /\ StoppedReleases
    /\ HoldsInstance /\ TodoIdle /\ HoldsSockets /\ Down /\ Binding

-----------------------------------------------------------------------------
\* Assembly yields servers that are not bound and have no goroutine.
LEMMA MakeServersType ==
    ASSUME NEW c \in Configs
    PROVE  /\ MakeServers(c) \subseteq TodoRec
           /\ \A t \in MakeServers(c) : Idle(t.srv) /\ ~Spawned(t.srv)
<1>1. ASSUME NEW k \in DOMAIN c.ingress
      PROVE  c.ingress[k] \in Ingress /\ k \in Nat
  BY ConstantsAssumption
<1>2. ASSUME NEW k \in DOMAIN c.ingress
      PROVE  /\ Server(c, c.ingress[k]) \in ServerRec
             /\ Idle(Server(c, c.ingress[k])) /\ ~Spawned(Server(c, c.ingress[k]))
  <2>1. Kind(c, c.ingress[k]) \in {"pump", "unbound", "dns", "nil", "tcp", "udp"}
    BY DEF Kind
  <2>2. c.ingress[k].addr \in Addrs
    BY <1>1 DEF Ingress
  <2> QED BY <2>1, <2>2 DEF Server, ServerRec, Idle, Spawned
<1>3. ASSUME NEW t \in MakeServers(c)
      PROVE  t \in TodoRec /\ Idle(t.srv) /\ ~Spawned(t.srv)
  <2>1. PICK k \in DOMAIN c.ingress :
           t = [pos |-> k, rank |-> IF c.ingress[k].handler = "admin" THEN 1 ELSE 0,
                srv |-> Server(c, c.ingress[k])]
    BY <1>3 DEF MakeServers
  <2>2. /\ t.srv = Server(c, c.ingress[k]) /\ t.pos = k
        /\ t = [pos |-> t.pos, rank |-> t.rank, srv |-> t.srv]
        /\ t.rank \in 0 .. 1
    BY <2>1
  <2>3. Idle(t.srv) /\ ~Spawned(t.srv) /\ t.srv \in ServerRec /\ t.pos \in Nat
    BY <1>1, <1>2, <2>2
  <2> QED BY <2>2, <2>3 DEF TodoRec
<1> QED BY <1>3

\* Init satisfies the inductive invariant.
LEMMA InitIInv == Init => IInv
<1> SUFFICES ASSUME Init PROVE IInv
  OBVIOUS
<1>1. TypeOK
  <2>1. /\ sigCh \in Seq(Signals) /\ Len(sigCh) <= 1
        /\ insts \in Seq(Seq(ServerRec)) /\ cur \in 0 .. Len(insts)
    BY DEF Init
  <2> QED BY <2>1 DEF Init, TypeOK
<1>2. QED
  BY <1>1 DEF Init, IInv, OneGeneration, StoppedReleases, HoldsInstance, TodoIdle, HoldsSockets,
               Down, Binding

-----------------------------------------------------------------------------
\* A failed Start leaves every instance quiet and the current one closed.
LEMMA StartFailsIInv ==
    ASSUME IInv, main \in {"start", "listen"}, StartFails, UNCHANGED env,
           insts' = insts \/ insts' = Append(insts, <<>>)
    PROVE  IInv'
<1> USE DEF IInv
<1>0. /\ insts \in Seq(Seq(ServerRec)) /\ cur \in 0 .. Len(insts)
      /\ <<>> \in Seq(ServerRec)
  BY DEF TypeOK
<1>2. /\ insts' \in Seq(Seq(ServerRec)) /\ Len(insts) <= Len(insts')
      /\ \A i \in DOMAIN insts : i \in DOMAIN insts' /\ insts'[i] = insts[i]
      /\ \A i \in DOMAIN insts' : \/ i \in DOMAIN insts /\ insts'[i] = insts[i]
                                  \/ insts'[i] = <<>>
  <2>1. CASE insts' = insts
    BY <1>0, <2>1
  <2>2. CASE insts' = Append(insts, <<>>)
    BY <1>0, <2>2
  <2> QED BY <2>1, <2>2
<1>1. TypeOK'
  <2>2. cur' \in 0 .. Len(insts')
    BY <1>0, <1>2 DEF StartFails
  <2> QED BY <1>2, <2>2 DEF TypeOK, StartFails, env
<1>3. \A i \in DOMAIN insts' : Quiet(i)'
  BY <1>2 DEF OneGeneration, Quiet
<1>4. OneGeneration'
  BY <1>3 DEF OneGeneration
<1>5. HoldsInstance'
  BY DEF HoldsInstance, StartFails, TypeOK
<1>6. TodoIdle' /\ HoldsSockets' /\ Binding'
  BY DEF TodoIdle, HoldsSockets, Binding, StartFails
<1>7. Down'
  <2>1. ASSUME cur' # 0, NEW k \in DOMAIN insts'[cur']
        PROVE  ~insts'[cur'][k].open
    <3>1. cur' = cur /\ cur \in DOMAIN insts
      BY <1>0, <2>1 DEF StartFails
    <3> QED BY <1>2, <2>1, <3>1 DEF Down
  <2> QED BY <1>3, <2>1 DEF Down
<1>8. StoppedReleases'
  <2>1. ASSUME NEW i \in DOMAIN insts', NEW k \in DOMAIN insts'[i]
        PROVE  ~(insts'[i][k].open /\ Spawned(insts'[i][k]))
    BY <1>2 DEF StoppedReleases
  <2> QED BY <2>1 DEF StoppedReleases, Spawned
<1> QED BY <1>1, <1>4, <1>5, <1>6, <1>7, <1>8

\* A crash changes nothing but main.
LEMMA CrashIInv ==
    ASSUME IInv, Crash, UNCHANGED env
    PROVE  IInv'
BY DEF IInv, Crash, env, TypeOK, OneGeneration, StoppedReleases, Spawned, Quiet, Idle,
       HoldsInstance, TodoIdle, HoldsSockets, Down, Binding, Signals

\* newContext, executeDirectives and MakeServers.
LEMMA NewInstanceIInv == IInv /\ NewInstance => IInv'
<1> SUFFICES ASSUME IInv, NewInstance PROVE IInv'
  OBVIOUS
<1>1. CASE Crash
  BY <1>1, CrashIInv DEF NewInstance
<1>2. CASE StartFails /\ (insts' = insts \/ insts' = Append(insts, <<>>))
  BY <1>2, StartFailsIInv DEF NewInstance
<1>3. CASE /\ insts' = Append(insts, <<>>)
           /\ todo' = MakeServers(file) /\ main' = "listen"
           /\ UNCHANGED <<why, cur, outage>>
  <2> USE DEF IInv
  <2>1. file \in Configs /\ UNCHANGED env /\ main = "start"
    BY DEF NewInstance, TypeOK
  <2>2. TypeOK'
    <3>1. insts' \in Seq(Seq(ServerRec)) /\ cur' \in 0 .. Len(insts')
      BY <1>3 DEF TypeOK
    <3>2. todo' \subseteq TodoRec
      BY <1>3, <2>1, MakeServersType
    <3> QED BY <1>3, <2>1, <3>1, <3>2 DEF TypeOK, env, TodoRec
  <2>3. /\ Len(insts') = Len(insts) + 1 /\ insts'[Len(insts')] = <<>>
        /\ \A i \in DOMAIN insts' : \/ i \in DOMAIN insts /\ insts'[i] = insts[i]
                                    \/ insts'[i] = <<>>
    BY <1>3 DEF TypeOK
  <2>4. OneGeneration'
    <3>1. \A i \in DOMAIN insts' : Quiet(i)'
      BY <2>1, <2>3 DEF OneGeneration, Quiet
    <3> QED BY <3>1 DEF OneGeneration
  <2>5. HoldsInstance' /\ HoldsSockets'
    BY <1>3, <2>1 DEF HoldsInstance, HoldsSockets
  <2>6. TodoIdle'
    BY <1>3, <2>1, MakeServersType DEF TodoIdle, Idle, Spawned
  <2>7. Binding'
    BY <1>3, <2>3 DEF Binding, TypeOK
  <2>8. Down'
    <3>1. ASSUME cur' # 0, NEW k \in DOMAIN insts'[cur']
          PROVE  ~insts'[cur'][k].open
      <4>1. cur' = cur /\ cur \in DOMAIN insts /\ insts'[cur] = insts[cur]
        BY <1>3, <3>1 DEF TypeOK
      <4> QED BY <2>1, <3>1, <4>1 DEF Down
    <3> QED BY <1>3, <3>1 DEF Down
  <2>9. StoppedReleases'
    <3>1. ASSUME NEW i \in DOMAIN insts', NEW k \in DOMAIN insts'[i]
          PROVE  ~(insts'[i][k].open /\ Spawned(insts'[i][k]))
      BY <2>1, <2>3 DEF StoppedReleases
    <3> QED BY <3>1 DEF StoppedReleases, Spawned
  <2> QED BY <2>2, <2>4, <2>5, <2>6, <2>7, <2>8, <2>9
<1> QED BY <1>1, <1>2, <1>3 DEF NewInstance

\* Binding one server.
LEMMA ListenIInv == IInv /\ Listen => IInv'
<1> SUFFICES ASSUME IInv, Listen PROVE IInv'
  OBVIOUS
<1>1. PICK t \in todo :
         \/ Crash
         \/ StartFails /\ UNCHANGED insts
         \/ \E open \in BOOLEAN :
               /\ Socket(t.srv) => open
               /\ insts' = [insts EXCEPT ![Len(insts)] = Append(@, [t.srv EXCEPT !.open = open])]
               /\ todo' = todo \ {t}
               /\ UNCHANGED <<main, why, cur, outage>>
  BY DEF Listen, Socket
<1>2. main = "listen" /\ UNCHANGED env
  BY DEF Listen
<1>3. CASE Crash
  BY <1>2, <1>3, CrashIInv
<1>4. CASE StartFails /\ UNCHANGED insts
  BY <1>2, <1>4, StartFailsIInv
<1>5. ASSUME NEW open \in BOOLEAN,
             Socket(t.srv) => open,
             insts' = [insts EXCEPT ![Len(insts)] = Append(@, [t.srv EXCEPT !.open = open])],
             todo' = todo \ {t},
             UNCHANGED <<main, why, cur, outage>>
      PROVE  IInv'
  <2> USE DEF IInv
  <2> DEFINE n == Len(insts)
             s == [t.srv EXCEPT !.open = open]
  <2>1. /\ insts \in Seq(Seq(ServerRec)) /\ cur \in 0 .. n /\ cur < n
        /\ n \in DOMAIN insts /\ insts[n] \in Seq(ServerRec)
    BY <1>2 DEF TypeOK, Binding
  <2>2. t.srv \in ServerRec /\ Idle(t.srv) /\ ~Spawned(t.srv)
    BY DEF TypeOK, TodoIdle
  <2>3. /\ s \in ServerRec /\ Idle(s) /\ s.open = open /\ (Socket(s) => open)
        /\ ~Spawned(s)
    BY <1>5, <2>2 DEF ServerRec, Idle, Socket, Spawned
  <2>4. /\ insts' \in Seq(Seq(ServerRec)) /\ Len(insts') = n
        /\ insts'[n] = Append(insts[n], s)
        /\ \A i \in DOMAIN insts : i # n => insts'[i] = insts[i]
        /\ DOMAIN insts' = DOMAIN insts
    BY <1>5, <2>1, <2>3
  <2>5. \A k \in DOMAIN insts'[n] : \/ k \in DOMAIN insts[n] /\ insts'[n][k] = insts[n][k]
                                   \/ insts'[n][k] = s
    BY <2>1, <2>3, <2>4
  <2>6. TypeOK'
    BY <1>2, <1>5, <2>1, <2>4 DEF TypeOK, env
  <2>7. OneGeneration'
    <3>1. \A i \in DOMAIN insts' : Quiet(i)'
      <4>1. \A k \in DOMAIN insts'[n] : Idle(insts'[n][k])
        BY <1>2, <2>1, <2>3, <2>5 DEF OneGeneration, Quiet
      <4>2. \A i \in DOMAIN insts : i # n => \A k \in DOMAIN insts'[i] : Idle(insts'[i][k])
        BY <1>2, <2>4 DEF OneGeneration, Quiet
      <4> QED BY <2>4, <4>1, <4>2 DEF Quiet, Idle
    <3> QED BY <3>1 DEF OneGeneration
  <2>8. HoldsInstance' /\ TodoIdle' /\ HoldsSockets'
    BY <1>2, <1>5 DEF HoldsInstance, TodoIdle, HoldsSockets, Idle, Spawned
  <2>9. Down'
    <3>0. cur' = cur
      BY <1>5
    <3>1. cur' # 0 => cur \in DOMAIN insts /\ insts'[cur'] = insts[cur]
      <4>1. cur # 0 => cur \in DOMAIN insts /\ cur # n
        BY <2>1
      <4>2. \A i \in DOMAIN insts : i # n => insts'[i] = insts[i]
        BY <2>4
      <4> HIDE DEF s, n
      <4> QED BY <3>0, <4>1, <4>2
    <3>2. cur # 0 => \A k \in DOMAIN insts[cur] : ~insts[cur][k].open
      BY <1>2 DEF Down
    <3>3. cur' # 0 => \A k \in DOMAIN insts'[cur'] : ~insts'[cur'][k].open
      BY <3>0, <3>1, <3>2
    <3>4. main' = "listen"
      BY <1>2, <1>5
    <3> QED BY <3>3, <3>4 DEF Down
  <2>10. Binding'
    <3>1. \A k \in DOMAIN insts'[n] : Socket(insts'[n][k]) => insts'[n][k].open
      BY <1>2, <1>5, <2>3, <2>5 DEF Binding
    <3> QED BY <1>5, <2>1, <2>4, <3>1 DEF Binding, Socket
  <2>11. StoppedReleases'
    <3>1. \A k \in DOMAIN insts'[n] : ~(insts'[n][k].open /\ Spawned(insts'[n][k]))
      BY <1>2, <2>1, <2>3, <2>5 DEF StoppedReleases
    <3>2. \A i \in DOMAIN insts : i # n =>
              \A k \in DOMAIN insts'[i] : ~(insts'[i][k].open /\ Spawned(insts'[i][k]))
      BY <1>2, <2>4 DEF StoppedReleases
    <3> QED BY <2>4, <3>1, <3>2 DEF StoppedReleases, Spawned
  <2> QED BY <2>6, <2>7, <2>8, <2>9, <2>10, <2>11
<1> QED BY <1>1, <1>3, <1>4, <1>5

\* The new instance gets its goroutines and becomes the current one.
LEMMA SpawnIInv == IInv /\ Spawn => IInv'
<1> SUFFICES ASSUME IInv, Spawn PROVE IInv'
  OBVIOUS
<1> USE DEF IInv
<1> DEFINE n == Len(insts)
<1>0. main = "listen" /\ main' = "idle" /\ cur' = n /\ outage' = FALSE /\ todo' = todo
  BY DEF Spawn
<1>1. /\ insts \in Seq(Seq(ServerRec)) /\ cur \in 0 .. n /\ cur < n
      /\ n \in DOMAIN insts /\ insts[n] \in Seq(ServerRec) /\ n # 0
  BY <1>0 DEF TypeOK, Binding
<1> DEFINE new == [k \in DOMAIN insts[n] |-> [insts[n][k] EXCEPT !.serve = "run", !.packet = "run"]]
<1>2. ASSUME NEW k \in DOMAIN insts[n]
      PROVE  /\ new[k] \in ServerRec
             /\ new[k].open = insts[n][k].open
             /\ new[k].kind = insts[n][k].kind
  <2>1. insts[n][k] \in ServerRec
    BY <1>1
  <2>2. new[k] = [insts[n][k] EXCEPT !.serve = "run", !.packet = "run"]
    OBVIOUS
  <2> QED BY <2>1, <2>2 DEF ServerRec
<1>3. new \in Seq(ServerRec) /\ DOMAIN new = DOMAIN insts[n]
  <2>1. DOMAIN insts[n] = 1 .. Len(insts[n]) /\ Len(insts[n]) \in Nat
    BY <1>1
  <2>2. new \in [1 .. Len(insts[n]) -> ServerRec] /\ DOMAIN new = DOMAIN insts[n]
    BY <1>2, <2>1
  <2> HIDE DEF new
  <2> QED BY <2>1, <2>2
<1>4. /\ insts' \in Seq(Seq(ServerRec)) /\ Len(insts') = n /\ insts'[n] = new
      /\ \A i \in DOMAIN insts : i # n => insts'[i] = insts[i]
      /\ DOMAIN insts' = DOMAIN insts
  <2>1. insts' = [insts EXCEPT ![n] = new]
    BY DEF Spawn
  <2> HIDE DEF new
  <2> QED BY <1>1, <1>3, <2>1
<1> HIDE DEF new
<1>5. TypeOK'
  <2>1. cur' \in 0 .. Len(insts')
    BY <1>0, <1>1, <1>4
  <2> QED BY <1>0, <1>4, <2>1 DEF TypeOK, Spawn
<1>6. OneGeneration'
  BY <1>4 DEF OneGeneration, Spawn, Quiet
<1>7. HoldsInstance' /\ TodoIdle' /\ Down' /\ Binding'
  BY <1>1, <1>4 DEF HoldsInstance, TodoIdle, Down, Binding, Spawn
<1>9. StoppedReleases'
  <2>1. \A i \in DOMAIN insts : i # n =>
            \A k \in DOMAIN insts'[i] : ~(insts'[i][k].open /\ Spawned(insts'[i][k]))
    BY <1>0, <1>4 DEF StoppedReleases
  <2> QED BY <1>0, <1>4, <2>1 DEF StoppedReleases, Spawned
<1>8. HoldsSockets'
  <2>1. \A k \in DOMAIN insts[n] : Socket(insts[n][k]) => insts[n][k].open
    BY <1>0 DEF Binding
  <2>2. \A k \in DOMAIN new : Socket(new[k]) => new[k].open
    BY <1>2, <1>3, <2>1 DEF Socket
  <2>3. insts'[cur'] = new
    BY <1>0, <1>4
  <2> QED BY <2>2, <2>3 DEF HoldsSockets, Socket
<1> QED BY <1>5, <1>6, <1>7, <1>8, <1>9

-----------------------------------------------------------------------------
\* A step of a goroutine: only the current instance has any, and none while an
\* instance is started or after a failed reload.  A socket is never reopened.
LEMMA GoroutineIInv ==
    ASSUME IInv,
           NEW i \in DOMAIN insts, NEW k \in DOMAIN insts[i], NEW s \in ServerRec,
           ~Idle(insts[i][k]),
           s.kind = insts[i][k].kind,
           s.open => insts[i][k].open,
           insts[i][k].open \/ insts[i][k].broke => s.open \/ s.broke,
           SetServer(i, k, s)
    PROVE  IInv'
<1> USE DEF IInv
<1>1. i = cur /\ main \notin {"start", "listen"} /\ cur # 0
  BY DEF OneGeneration, Quiet, TypeOK
<1>2. ~(outage /\ main \in {"idle", "reload", "stop", "wait"})
  BY DEF Down, Quiet
<1>3. /\ insts \in Seq(Seq(ServerRec)) /\ insts[i] \in Seq(ServerRec)
      /\ UNCHANGED <<file, sigCh, main, why, cur, todo, outage, edits, signals>>
      /\ insts' = [insts EXCEPT ![i] = [insts[i] EXCEPT ![k] = s]]
  BY DEF TypeOK, SetServer
<1>4. /\ insts' \in Seq(Seq(ServerRec)) /\ DOMAIN insts' = DOMAIN insts
      /\ Len(insts') = Len(insts)
      /\ DOMAIN insts'[i] = DOMAIN insts[i] /\ insts'[i][k] = s
      /\ \A j \in DOMAIN insts : j # i => insts'[j] = insts[j]
      /\ \A j \in DOMAIN insts[i] : j # k => insts'[i][j] = insts[i][j]
  BY <1>3
<1>5. TypeOK'
  BY <1>3, <1>4 DEF TypeOK
<1>6. OneGeneration'
  BY <1>1, <1>3, <1>4 DEF OneGeneration, Quiet
<1>7. HoldsInstance' /\ TodoIdle' /\ Binding'
  BY <1>1, <1>3 DEF HoldsInstance, TodoIdle, Binding, Idle, Spawned
<1>8. HoldsSockets'
  BY <1>1, <1>3, <1>4 DEF HoldsSockets, Socket
<1>9. Down'
  BY <1>1, <1>2, <1>3, <1>4 DEF Down
<1>10. StoppedReleases'
  <2>1. Spawned(insts[i][k])
    BY DEF Idle, Spawned
  <2>2. s.open => main \notin {"wait", "start", "listen", "exited"}
    BY <2>1 DEF StoppedReleases
  <2> QED BY <1>1, <1>3, <1>4, <2>2 DEF StoppedReleases, Spawned
<1> QED BY <1>5, <1>6, <1>7, <1>8, <1>9, <1>10

\* All steps of Serve and ServePacket.
LEMMA GoStepIInv ==
    ASSUME IInv, NEW i \in DOMAIN insts, NEW k \in DOMAIN insts[i], GoStep(i, k)
    PROVE  IInv'
<1> DEFINE o == insts[i][k]
<1>1. o \in ServerRec
  BY DEF IInv, TypeOK
<1>2. ASSUME NEW g \in Goroutine, Assign(i, k, g)
      PROVE  IInv'
  <2> DEFINE s == [o EXCEPT ![g] = "set", !.ptr = IF g = "serve" THEN "listener" ELSE "packet"]
  <2>1. /\ s \in ServerRec /\ s.kind = o.kind /\ s.open = o.open /\ s.broke = o.broke
        /\ ~Idle(o)
    BY <1>1, <1>2 DEF Assign, Goroutine, ServerRec, Idle
  <2>2. SetServer(i, k, s)
    BY <1>2 DEF Assign
  <2> HIDE DEF s
  <2> QED BY <2>1, <2>2, GoroutineIInv
<1>3. ASSUME NEW g \in Goroutine, Activate(i, k, g)
      PROVE  IInv'
  <2> DEFINE s == [o EXCEPT ![g] = IF o.ptr = "listener" /\ o.kind = "tcp" THEN "accept"
                                   ELSE IF o.ptr = "packet" /\ o.kind = "udp" THEN "receive"
                                   ELSE "done"]
  <2>1. /\ s \in ServerRec /\ s.kind = o.kind /\ s.open = o.open /\ s.broke = o.broke
        /\ ~Idle(o)
    BY <1>1, <1>3 DEF Activate, Goroutine, ServerRec, Idle
  <2>2. SetServer(i, k, s)
    BY <1>3 DEF Activate
  <2> HIDE DEF s
  <2> QED BY <2>1, <2>2, GoroutineIInv
<1>4. ASSUME NEW g \in Goroutine, Enter(i, k, g)
      PROVE  IInv'
  <2> DEFINE s == [o EXCEPT ![g] = IF o.kind = "pump" /\ g = "serve" THEN "accept" ELSE "done"]
  <2>1. /\ s \in ServerRec /\ s.kind = o.kind /\ s.open = o.open /\ s.broke = o.broke
        /\ ~Idle(o)
    BY <1>1, <1>4 DEF Enter, Goroutine, ServerRec, Idle
  <2>2. SetServer(i, k, s)
    BY <1>4 DEF Enter
  <2> HIDE DEF s
  <2> QED BY <2>1, <2>2, GoroutineIInv
<1>5. ASSUME NEW g \in Goroutine, LoopEnds(i, k, g)
      PROVE  IInv'
  <2> DEFINE s == [o EXCEPT ![g] = "done", !.broke = o.broke \/ o.open,
                            !.open = o.open /\ o.kind = "pump"]
  <2>1. /\ s \in ServerRec /\ s.kind = o.kind /\ (s.open => o.open)
        /\ (o.open \/ o.broke => s.open \/ s.broke)
        /\ ~Idle(o)
    BY <1>1, <1>5 DEF LoopEnds, Goroutine, ServerRec, Idle
  <2>2. SetServer(i, k, s)
    BY <1>5 DEF LoopEnds
  <2> HIDE DEF s
  <2> QED BY <2>1, <2>2, GoroutineIInv
<1>6. CASE EnterNil(i, k)
  <2>1. Crash /\ UNCHANGED env
    BY <1>6 DEF EnterNil, Crash, env
  <2> QED BY <2>1, CrashIInv
<1> QED BY <1>2, <1>3, <1>4, <1>5, <1>6 DEF GoStep

-----------------------------------------------------------------------------
\* Run and Reload do not touch the instances before Stop.
LEMMA RunIInv == IInv /\ (TakeSignal \/ Validate \/ StopWaits) => IInv'
<1> SUFFICES ASSUME IInv, TakeSignal \/ Validate \/ StopWaits PROVE IInv'
  OBVIOUS
<1> USE DEF IInv
<1>1. UNCHANGED <<insts, cur, todo, outage, file, edits, signals>>
  BY DEF TakeSignal, Validate, StopWaits, Keep
<1>2. TypeOK'
  <2>1. sigCh' \in Seq(Signals) /\ Len(sigCh') <= 1
    BY DEF TypeOK, TakeSignal, Validate, StopWaits
  <2>2. /\ main' \in {"start", "listen", "idle", "reload", "stop", "wait", "exited", "crashed"}
        /\ why' \in {"boot", "reload", "exit"}
    BY DEF TypeOK, TakeSignal, Validate, StopWaits
  <2> QED BY <1>1, <2>1, <2>2 DEF TypeOK
<1>3. \/ main \in {"idle", "reload"} /\ main' \in {"idle", "reload", "stop"}
      \/ main = "wait" /\ Quiet(cur) /\ main' \in {"start", "exited"}
  BY DEF TakeSignal, Validate, StopWaits
<1>4. OneGeneration'
  BY <1>1, <1>3 DEF OneGeneration, Quiet
<1>5. HoldsInstance'
  BY <1>1, <1>3 DEF HoldsInstance
<1>6. TodoIdle' /\ Binding'
  BY <1>1, <1>3 DEF TodoIdle, Idle, Spawned, Binding
<1>7. HoldsSockets'
  BY <1>1, <1>3 DEF HoldsSockets, Socket
<1>8. Down'
  BY <1>1, <1>3 DEF Down, Quiet
<1>9. StoppedReleases'
  BY <1>1, <1>3 DEF StoppedReleases, Spawned
<1> QED BY <1>2, <1>4, <1>5, <1>6, <1>7, <1>8, <1>9

\* Stop closes the sockets of the current instance.
LEMMA StopClosesIInv == IInv /\ StopCloses => IInv'
<1> SUFFICES ASSUME IInv, StopCloses PROVE IInv'
  OBVIOUS
<1> USE DEF IInv
<1>0. /\ main = "stop" /\ main' = "wait" /\ cur # 0
      /\ UNCHANGED <<why, cur, todo, outage, file, sigCh, edits, signals>>
  BY DEF StopCloses, HoldsInstance
<1>1. /\ insts \in Seq(Seq(ServerRec)) /\ cur \in DOMAIN insts /\ insts[cur] \in Seq(ServerRec)
  BY <1>0 DEF TypeOK
<1> DEFINE new == [k \in DOMAIN insts[cur] |-> [insts[cur][k] EXCEPT !.open = FALSE]]
<1>2. ASSUME NEW k \in DOMAIN insts[cur]
      PROVE  /\ new[k] \in ServerRec /\ ~new[k].open
             /\ (Idle(insts[cur][k]) => Idle(new[k]))
  <2>1. insts[cur][k] \in ServerRec
    BY <1>1
  <2>2. new[k] = [insts[cur][k] EXCEPT !.open = FALSE]
    OBVIOUS
  <2> QED BY <2>1, <2>2 DEF ServerRec, Idle
<1>3. new \in Seq(ServerRec) /\ DOMAIN new = DOMAIN insts[cur]
  <2>1. DOMAIN insts[cur] = 1 .. Len(insts[cur]) /\ Len(insts[cur]) \in Nat
    BY <1>1
  <2>2. new \in [1 .. Len(insts[cur]) -> ServerRec] /\ DOMAIN new = DOMAIN insts[cur]
    BY <1>2, <2>1
  <2> HIDE DEF new
  <2> QED BY <2>1, <2>2
<1>4. insts' = [insts EXCEPT ![cur] = new]
  BY DEF StopCloses
<1> HIDE DEF new
<1>5. /\ insts' \in Seq(Seq(ServerRec)) /\ DOMAIN insts' = DOMAIN insts
      /\ Len(insts') = Len(insts) /\ insts'[cur] = new
      /\ \A i \in DOMAIN insts : i # cur => insts'[i] = insts[i]
  BY <1>1, <1>3, <1>4
<1>6. TypeOK'
  BY <1>0, <1>5 DEF TypeOK
<1>7. OneGeneration'
  BY <1>0, <1>5 DEF OneGeneration, Quiet
<1>8. HoldsInstance' /\ TodoIdle' /\ HoldsSockets' /\ Binding'
  BY <1>0 DEF HoldsInstance, TodoIdle, HoldsSockets, Binding, Idle, Spawned
<1>9. Down'
  <2>1. ASSUME outage' PROVE \A i \in DOMAIN insts' : Quiet(i)'
    <3>1. \A i \in DOMAIN insts : Quiet(i)
      BY <1>0, <2>1 DEF Down
    <3>2. \A k \in DOMAIN new : Idle(new[k])
      BY <1>1, <1>2, <1>3, <3>1 DEF Quiet
    <3> QED BY <1>5, <3>1, <3>2 DEF Quiet, Idle
  <2>2. \A k \in DOMAIN insts'[cur'] : ~insts'[cur'][k].open
    BY <1>0, <1>2, <1>3, <1>5
  <2> QED BY <2>1, <2>2 DEF Down
<1>10. StoppedReleases'
  <2>1. \A k \in DOMAIN insts'[cur] : ~insts'[cur][k].open
    BY <1>2, <1>3, <1>5
  <2>2. \A i \in DOMAIN insts : i # cur =>
            \A k \in DOMAIN insts'[i] : ~(insts'[i][k].open /\ Spawned(insts'[i][k]))
    BY <1>5 DEF StoppedReleases
  <2> QED BY <1>5, <2>1, <2>2 DEF StoppedReleases, Spawned
<1> QED BY <1>6, <1>7, <1>8, <1>9, <1>10

\* The environment does not touch the instances.
LEMMA EnvIInv == IInv /\ (Edit \/ Signal) => IInv'
<1> SUFFICES ASSUME IInv, Edit \/ Signal PROVE IInv'
  OBVIOUS
<1>1. UNCHANGED <<main, why, insts, cur, todo, outage>>
  BY DEF Edit, Signal, Keep
<1>2. TypeOK'
  <2>1. sigCh' \in Seq(Signals) /\ Len(sigCh') <= 1
    <3>1. sigCh \in Seq(Signals) /\ Len(sigCh) <= 1
      BY DEF IInv, TypeOK
    <3>2. \A s \in Signals : <<s>> \in Seq(Signals) /\ Len(<<s>>) <= 1
      OBVIOUS
    <3>3. sigCh' = sigCh \/ \E s \in Signals : sigCh' = <<s>>
      BY DEF Edit, Signal
    <3> QED BY <3>1, <3>2, <3>3
  <2>2. file' \in Configs /\ edits' \in Nat /\ signals' \in Nat
    BY DEF IInv, TypeOK, Edit, Signal
  <2> QED BY <1>1, <2>1, <2>2 DEF IInv, TypeOK
<1> QED
  BY <1>1, <1>2 DEF IInv, OneGeneration, StoppedReleases, Spawned, Quiet, Idle,
                    HoldsInstance, TodoIdle, HoldsSockets, Socket, Down, Binding

\* Every step preserves the inductive invariant.
LEMMA NextIInv == IInv /\ [Next]_vars => IInv'
<1> SUFFICES ASSUME IInv, [Next]_vars PROVE IInv'
  OBVIOUS
<1>1. CASE MainStep
  BY <1>1, NewInstanceIInv, ListenIInv, SpawnIInv, RunIInv, StopClosesIInv DEF MainStep
<1>2. ASSUME NEW i \in DOMAIN insts, NEW k \in DOMAIN insts[i], GoStep(i, k)
      PROVE  IInv'
  BY <1>2, GoStepIInv
<1>3. CASE Edit \/ Signal
  BY <1>3, EnvIInv
<1>4. CASE UNCHANGED vars
  BY <1>4 DEF vars, IInv, TypeOK, OneGeneration, StoppedReleases, Spawned, Quiet, Idle,
              HoldsInstance, TodoIdle, HoldsSockets, Socket, Down, Binding
<1> QED BY <1>1, <1>2, <1>3, <1>4 DEF Next

\* The inductive invariant holds in every reachable state.
THEOREM LifecycleInvariant == Spec => []IInv
BY InitIInv, NextIInv, PTL DEF Spec

\* Type correctness: Run never holds an instance that was not started.
THEOREM LifecycleTypes == Spec => []TypeOK
<1>1. IInv => TypeOK
  BY DEF IInv
<1> QED BY <1>1, LifecycleInvariant, PTL

\* Stop waits for all goroutines, so two generations of servers never overlap.
THEOREM LifecycleOneGeneration == Spec => []OneGeneration
<1>1. IInv => OneGeneration
  BY DEF IInv
<1> QED BY <1>1, LifecycleInvariant, PTL

\* Rejected reloads do not cost the current instance a socket.
THEOREM LifecycleIdleServes == Spec => []IdleServes
<1>1. IInv => IdleServes
  BY DEF IInv, IdleServes, HoldsSockets, HoldsInstance
<1> QED BY <1>1, LifecycleInvariant, PTL

\* An instance that was stopped, or that a reload has replaced, holds no socket; what
\* a start that failed has bound is all that can be left behind.
THEOREM LifecycleReleases == Spec => []StoppedReleases
<1>1. IInv => StoppedReleases
  BY DEF IInv
<1> QED BY <1>1, LifecycleInvariant, PTL
=============================================================================
