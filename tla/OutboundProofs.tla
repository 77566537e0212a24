--------------------------- MODULE OutboundProofs ---------------------------
(* What TLAPS proves about the pools of kcp and quic, the streams of h2 and *)
(* the frames of ws, for any number of goroutines, addresses, sessions,     *)
(* bytes, chunks, writers and frames.                                       *)
EXTENDS Outbound, SequenceTheorems, TLAPS

-----------------------------------------------------------------------------
(* Pools.  The inductive invariant says who may hold which session: one    *)
(* that is being dialled is known to its Dial alone until it is pooled, a  *)
(* pooled one is never a closed entry, and as long as no Unlock went       *)
(* astray the critical sections exclude each other.                        *)

Making == {"publish", "insert", "recheck", "relock", "overwrite", "discard"}
Holding == {"check", "dropDead", "dead", "unlock", "dropFailed", "failing",
            "recheck", "discard", "open", "ok"}
Inside == {"look", "dead", "failing", "insert"}

\* Every goroutine has the operands of its next step, and the branches for a
\* closed entry are not taken.
Located ==
    \A p \in Dialers :
        /\ d[p].pc # "idle" => d[p].addr \in Addrs
        /\ d[p].pc \in Holding => d[p].cur \in Sessions
        /\ d[p].pc \in Making => d[p].mine \in Sessions
        /\ d[p].pc \notin {"relock", "overwrite"}
        /\ d[p].pc \in {"dropDead", "dead", "unlock"} =>
              kind = "kcp" /\ sess[d[p].cur] = "dead"

\* A session that was looked up, or is pooled, is no closed entry.
Known ==
    /\ \A p \in Dialers : d[p].cur \in Sessions =>
          sess[d[p].cur] \in {"open", "dead"} /\ d[p].cur \notin done
    /\ \A a \in Addrs : pool[a] \in Sessions =>
          sess[pool[a]] \in {"open", "dead"} /\ pool[a] \notin done

\* A session that is being dialled is its Dial's alone.
Private ==
    \A p \in Dialers : d[p].pc \in Making =>
        /\ sess[d[p].mine] \in {"open", "dead"}
        /\ d[p].mine \notin done
        /\ \A a \in Addrs : pool[a] # d[p].mine
        /\ \A q \in Dialers : /\ d[q].cur # d[p].mine
                              /\ d[q].pc \in Making /\ q # p => d[q].mine # d[p].mine

Exclusion ==
    stray \/ /\ \A p \in Dialers : d[p].pc \in Inside => mu
             /\ \A p, q \in Dialers : d[p].pc \in Inside /\ d[q].pc \in Inside => p = q

\* Shared, from the look-up on.
Sharing ==
    \A p \in Dialers :
        /\ d[p].pc \in {"check", "recheck", "discard", "open", "ok"}
        /\ sess[d[p].cur] = "open"
        /\ d[p].cur \notin dropped
        => Pooled(p) = d[p].cur

IInv ==
    /\ TypeOK /\ Located /\ Known /\ Private /\ Exclusion
    /\ fatal => stray
    /\ UnlockSound /\ Sharing /\ NoLostSession

-----------------------------------------------------------------------------
LEMMA KindCases == TypeOK => kind \in {"kcp", "quic"}
BY PoolAssumption DEF TypeOK

LEMMA InitIInv == Init => IInv
<1> SUFFICES ASSUME Init PROVE IInv
  OBVIOUS
<1>1. TypeOK
  BY DEF Init, TypeOK, Idle, Places
<1> QED
  BY <1>1, PoolAssumption
  DEF Init, Idle, IInv, Located, Known, Private, Exclusion, UnlockSound, Sharing,
      NoLostSession, Making, Holding, Inside, None

\* Taking the mutex; the critical section was empty.
LEMMA LockIInv ==
    ASSUME IInv, NEW p \in Dialers, Lock(p)
    PROVE  IInv'
<1> USE DEF IInv, Lock, Goto, Critical
<1>0. d'[p] = [d[p] EXCEPT !.pc = Critical[d[p].pc]] /\ \A q \in Dialers : q # p => d'[q] = d[q]
  BY DEF TypeOK
<1>1. TypeOK'
  BY DEF TypeOK, Places
<1>2. Located' /\ Known' /\ Private'
  BY <1>0 DEF TypeOK, Located, Known, Private, Making, Holding
<1>3. Exclusion'
  BY <1>0 DEF Exclusion, Inside, TypeOK
<1>4. UnlockSound' /\ Sharing'
  BY <1>0 DEF UnlockSound, Sharing, Pooled, TypeOK
<1>5. NoLostSession'
  BY <1>0 DEF NoLostSession, TypeOK
<1> QED BY <1>1, <1>2, <1>3, <1>4, <1>5

\* The steps outside the mutex that only move the goroutine on.
LEMMA LocalIInv ==
    ASSUME IInv, NEW p \in Dialers,
           Check(p) \/ DialFails(p) \/ Recheck(p) \/ OpenStream(p) \/ OpenFails(p)
    PROVE  IInv'
<1> USE DEF IInv
<1>0. /\ UNCHANGED <<kind, mu, pool, sess, done, dropped, stray, fatal>>
      /\ \/ d[p].pc = "check" /\ d'[p].pc = "dropDead" /\ kind = "kcp" /\ sess[d[p].cur] = "dead"
         \/ d[p].pc = "check" /\ d'[p].pc = "open"
         \/ d[p].pc = "dial" /\ d'[p].pc = "failed"
         \/ d[p].pc = "recheck" /\ d'[p].pc = "discard"
         \/ d[p].pc = "open" /\ d'[p].pc = "ok"
         \/ d[p].pc = "open" /\ d'[p].pc = "dropFailed"
      /\ d' = [d EXCEPT ![p] = [d[p] EXCEPT !.pc = d'[p].pc]]
  <2>1. CASE Check(p)
    BY <2>1 DEF Check, At, Goto, TypeOK, Known, Located, Holding
  <2>2. CASE Recheck(p)
    BY <2>2 DEF Recheck, At, Goto, TypeOK, Known, Located, Holding
  <2>3. CASE DialFails(p) \/ OpenStream(p) \/ OpenFails(p)
    BY <2>3 DEF DialFails, OpenStream, OpenFails, At, Goto, TypeOK
  <2> QED BY <2>1, <2>2, <2>3
<1>1. TypeOK'
  BY <1>0 DEF TypeOK, Places, Critical
<1>2. Located'
  BY <1>0 DEF TypeOK, Located, Holding, Making
<1>3. Known' /\ Private'
  BY <1>0 DEF Known, Private, Making, TypeOK, Located
<1>4. Exclusion' /\ UnlockSound'
  BY <1>0 DEF Exclusion, UnlockSound, Inside, TypeOK
<1>5. Sharing'
  BY <1>0 DEF TypeOK, Sharing, Pooled
<1>6. NoLostSession'
  BY <1>0 DEF TypeOK, NoLostSession
<1> QED BY <1>0, <1>1, <1>2, <1>3, <1>4, <1>5, <1>6

\* The beginning and the end of a call of Dial.
LEMMA CallIInv ==
    ASSUME IInv, NEW p \in Dialers, Again(p) \/ \E a \in Addrs : Dial(p, a)
    PROVE  IInv'
<1> USE DEF IInv
<1>0. PICK r \in [pc : {"idle", "lock"}, addr : Addrs \cup {None}, cur : {None}, mine : {None}] :
        /\ UNCHANGED <<kind, mu, pool, sess, done, dropped, stray, fatal>>
        /\ d' = [d EXCEPT ![p] = r]
        /\ r.pc # "idle" => r.addr \in Addrs
        /\ d[p].pc \in {"idle", "ok", "failed"}
  <2>1. CASE Again(p)
    <3>1. Idle \in [pc : {"idle", "lock"}, addr : Addrs \cup {None}, cur : {None}, mine : {None}]
      BY DEF Idle
    <3> QED BY <2>1, <3>1 DEF Again, At, Idle
  <2>2. CASE \E a \in Addrs : Dial(p, a)
    <3>1. PICK a \in Addrs : Dial(p, a)
      BY <2>2
    <3>2. [pc |-> "lock", addr |-> a, cur |-> None, mine |-> None]
             \in [pc : {"idle", "lock"}, addr : Addrs \cup {None}, cur : {None}, mine : {None}]
      OBVIOUS
    <3> QED BY <3>1, <3>2 DEF Dial, At
  <2> QED BY <2>1, <2>2
<1>1. TypeOK'
  BY <1>0 DEF TypeOK, Places, Critical
<1>2. Located'
  BY <1>0 DEF TypeOK, Located, Holding, Making
<1>3. Known' /\ Private'
  BY <1>0, PoolAssumption DEF Known, Private, Making, TypeOK, Located
<1>4. Exclusion' /\ UnlockSound'
  BY <1>0 DEF Exclusion, UnlockSound, Inside, TypeOK
<1>5. Sharing'
  BY <1>0 DEF TypeOK, Sharing, Pooled
<1>6. NoLostSession'
  BY <1>0 DEF TypeOK, NoLostSession
<1> QED BY <1>0, <1>1, <1>2, <1>3, <1>4, <1>5, <1>6

\* A session comes into being.
LEMMA DialSessionIInv ==
    ASSUME IInv, NEW p \in Dialers, NEW s \in Sessions, DialSession(p, s) \/ DialLate(p, s)
    PROVE  IInv'
<1> USE DEF IInv, DialSession, DialLate, At, Goto
<1>1. TypeOK'
  BY DEF TypeOK, Places
<1>2. Located'
  BY DEF TypeOK, Located, Holding, Making, Known
<1>3. Known'
  BY DEF TypeOK, Known
<1>4. Private'
  BY PoolAssumption DEF TypeOK, Known, Private, Making, Located
<1>5. Exclusion' /\ UnlockSound'
  BY DEF TypeOK, Exclusion, Inside, UnlockSound
<1>6. Sharing'
  BY DEF TypeOK, Sharing, Pooled, Known, Located, Holding
<1>7. NoLostSession'
  BY DEF TypeOK, NoLostSession, Private, Making
<1> QED BY <1>1, <1>2, <1>3, <1>4, <1>5, <1>6, <1>7

\* Looking up the pool.
LEMMA LookUpIInv ==
    ASSUME IInv, NEW p \in Dialers, LookUp(p)
    PROVE  IInv'
<1> USE DEF IInv, LookUp, At, Unlock, Pooled
<1>1. TypeOK'
  BY DEF TypeOK, Places, Located
<1>2. Located'
  BY PoolAssumption DEF TypeOK, Located, Holding, Making
<1>3. Known' /\ Private'
  BY DEF TypeOK, Known, Private, Making, Located
<1>4. Exclusion' /\ (fatal' => stray')
  BY DEF TypeOK, Exclusion, Inside
<1>5. UnlockSound'
  BY <1>4 DEF TypeOK, UnlockSound
<1>6. Sharing'
  BY DEF TypeOK, Sharing
<1>7. NoLostSession'
  BY DEF TypeOK, NoLostSession
<1> QED BY <1>1, <1>2, <1>3, <1>4, <1>5, <1>6, <1>7

\* The Unlock that has no Lock.
LEMMA SecondUnlockIInv ==
    ASSUME IInv, NEW p \in Dialers, SecondUnlock(p)
    PROVE  IInv'
<1> USE DEF IInv, SecondUnlock, At, Goto
<1>1. TypeOK'
  BY DEF TypeOK, Places
<1>2. Located' /\ Known' /\ Private'
  BY DEF TypeOK, Located, Holding, Making, Known, Private
<1>3. Exclusion' /\ NoLostSession'
  BY DEF Exclusion, NoLostSession
<1>4. UnlockSound'
  BY DEF UnlockSound, Located, Holding, TypeOK
<1>5. Sharing'
  BY DEF TypeOK, Sharing, Pooled
<1> QED BY <1>1, <1>2, <1>3, <1>4, <1>5

\* Publishing the new session, or keeping the pooled one.
LEMMA InsertIInv ==
    ASSUME IInv, NEW p \in Dialers, Insert(p)
    PROVE  IInv'
<1> USE DEF IInv, Insert, At, Unlock, Pooled
<1>0. /\ d[p].pc = "insert"
      /\ d[p].addr \in Addrs /\ d[p].mine \in Sessions
      /\ sess[d[p].mine] \in {"open", "dead"} /\ d[p].mine \notin done
  BY DEF Located, Private, Making
<1>1. TypeOK'
  BY <1>0 DEF TypeOK, Places, Keeps
<1>2. Located'
  BY <1>0, PoolAssumption DEF TypeOK, Located, Holding, Making, Keeps
<1>3. Known'
  BY <1>0 DEF TypeOK, Known
<1>4. Private'
  BY <1>0 DEF TypeOK, Private, Making, Keeps, Located
<1>5. Exclusion' /\ (fatal' => stray')
  BY <1>0 DEF TypeOK, Exclusion, Inside
<1>6. UnlockSound'
  BY <1>5 DEF UnlockSound
<1>7. Sharing'
  BY <1>0 DEF TypeOK, Sharing, Keeps, Known, Private, Making, Located, Holding
<1>8. NoLostSession'
  BY <1>0 DEF TypeOK, NoLostSession, Keeps, Known
<1> QED BY <1>1, <1>2, <1>3, <1>4, <1>5, <1>6, <1>7, <1>8

\* Closing the redundant session.
LEMMA DiscardIInv ==
    ASSUME IInv, NEW p \in Dialers, Discard(p)
    PROVE  IInv'
<1> USE DEF IInv, Discard, At, Goto
<1>1. TypeOK'
  BY DEF TypeOK, Places, Located, Making
<1>2. Located'
  BY DEF TypeOK, Located, Holding, Making
<1>3. Known' /\ Private'
  BY DEF TypeOK, Known, Private, Making, Located
<1>4. Exclusion' /\ UnlockSound'
  BY DEF TypeOK, Exclusion, Inside, UnlockSound
<1>5. Sharing'
  BY DEF TypeOK, Sharing, Pooled
<1>6. NoLostSession'
  BY DEF TypeOK, NoLostSession
<1> QED BY <1>1, <1>2, <1>3, <1>4, <1>5, <1>6

\* Taking a session out of the pool.
LEMMA DropIInv ==
    ASSUME IInv, NEW p \in Dialers, Drop(p)
    PROVE  IInv'
<1> USE DEF IInv, Drop, At, Goto, Unlock, Pooled
<1>0. /\ d[p].pc \in {"dead", "failing"}
      /\ d[p].addr \in Addrs /\ d[p].cur \in Sessions
      /\ sess[d[p].cur] \in {"open", "dead"}
  BY DEF Located, Known, Holding
<1>1. TypeOK'
  <2>1. pool' \in [Addrs -> Sessions \cup {None}]
    BY <1>0 DEF TypeOK
  <2>2. sess' \in [Sessions -> {"unused", "open", "orphan", "dead"}]
    BY <1>0 DEF TypeOK
  <2>3. d' = [d EXCEPT ![p] = [d[p] EXCEPT !.pc = IF d[p].pc = "dead" THEN "unlock" ELSE "failed"]]
    BY <1>0 DEF TypeOK
  <2>4. d' \in [Dialers -> [pc : Places, addr : Addrs \cup {None},
                           cur : Sessions \cup {None}, mine : Sessions \cup {None}]]
    <3> DEFINE Rec == [pc : Places, addr : Addrs \cup {None},
                       cur : Sessions \cup {None}, mine : Sessions \cup {None}]
    <3>1. PICK v \in Rec : v = d[p]
      BY DEF TypeOK
    <3>2. PICK q \in Places : q = IF d[p].pc = "dead" THEN "unlock" ELSE "failed"
      BY DEF Places
    <3>3. [v EXCEPT !.pc = q] \in Rec
      OBVIOUS
    <3> HIDE DEF Rec
    <3>4. d' = [d EXCEPT ![p] = [v EXCEPT !.pc = q]] /\ d \in [Dialers -> Rec]
      BY <2>3, <3>1, <3>2 DEF TypeOK, Rec
    <3>5. d' \in [Dialers -> Rec]
      BY <3>3, <3>4
    <3>6. QED BY <3>5 DEF Rec
  <2> QED BY <1>0, <2>1, <2>2, <2>4 DEF TypeOK
<1>2. Located'
  BY <1>0 DEF TypeOK, Located, Holding, Making
<1>3. Known' /\ Private'
  BY <1>0, PoolAssumption DEF TypeOK, Known, Private, Making, Located
<1>4. Exclusion' /\ (fatal' => stray')
  BY <1>0 DEF TypeOK, Exclusion, Inside
<1>5. UnlockSound'
  BY <1>0, <1>4 DEF UnlockSound, TypeOK
<1>6. Sharing'
  BY <1>0 DEF TypeOK, Sharing
<1>7. NoLostSession'
  <2> SUFFICES ASSUME ~stray', NEW s \in Sessions, sess'[s] = "open"
               PROVE  \/ \E a \in Addrs : pool'[a] = s
                      \/ \E q \in Dialers : d'[q].mine = s /\ d'[q].pc \in Making
                      \/ kind' = "quic" /\ s \in dropped'
    BY DEF NoLostSession, Making
  <2>1. sess[s] = "open" /\ kind' = kind /\ (kind = "kcp" => s # d[p].cur)
    BY <1>0 DEF TypeOK
  <2>2. CASE \E a \in Addrs : pool[a] = s
    BY <1>0, <2>1, <2>2, KindCases DEF TypeOK
  <2>3. CASE \E q \in Dialers : d[q].mine = s /\ d[q].pc \in Making
    BY <1>0, <2>3 DEF TypeOK, Making
  <2> QED BY <2>1, <2>2, <2>3 DEF NoLostSession, Making
<1> QED BY <1>1, <1>2, <1>3, <1>4, <1>5, <1>6, <1>7

\* A session dies on its own.
LEMMA SessionDiesIInv ==
    ASSUME IInv, NEW s \in Sessions, SessionDies(s)
    PROVE  IInv'
<1> USE DEF IInv, SessionDies
<1>1. TypeOK'
  BY DEF TypeOK
<1>2. Located' /\ Known' /\ Private'
  BY DEF TypeOK, Located, Known, Private, Holding, Making
<1>3. Exclusion' /\ UnlockSound' /\ NoLostSession'
  BY DEF TypeOK, Exclusion, UnlockSound, NoLostSession
<1>4. Sharing'
  BY DEF TypeOK, Sharing, Pooled, Located, Holding
<1> QED BY <1>1, <1>2, <1>3, <1>4

LEMMA NextIInv == IInv /\ [Next]_vars => IInv'
<1> SUFFICES ASSUME IInv, [Next]_vars PROVE IInv'
  OBVIOUS
<1>1. CASE UNCHANGED vars
  BY <1>1 DEF vars, IInv, TypeOK, Located, Known, Private, Exclusion, UnlockSound, Sharing,
              NoLostSession, Pooled
<1>2. ASSUME NEW p \in Dialers,
             Lock(p) \/ Progress(p) \/ Again(p) \/ \E a \in Addrs : Dial(p, a)
      PROVE  IInv'
  BY <1>2, LockIInv, LocalIInv, CallIInv, DialSessionIInv, LookUpIInv, SecondUnlockIInv,
     InsertIInv, DiscardIInv, DropIInv
  DEF Progress
<1>3. ASSUME NEW s \in Sessions, SessionDies(s) PROVE IInv'
  BY <1>3, SessionDiesIInv
<1> QED BY <1>1, <1>2, <1>3 DEF Next

\* The inductive invariant holds in every reachable state.
THEOREM PoolInvariant == Spec => []IInv
BY InitIInv, NextIInv, PTL DEF Spec

\* The variables of the pools keep their types.
THEOREM PoolTypes == Spec => []TypeOK
<1>1. IInv => TypeOK
  BY DEF IInv
<1> QED BY <1>1, PoolInvariant, PTL

\* For any number of goroutines and addresses, only kcp's getPooled unlocks a
\* mutex it does not hold, and only after a session has died.
THEOREM PoolUnlockSound == Spec => []UnlockSound
<1>1. IInv => UnlockSound
  BY DEF IInv
<1> QED BY <1>1, PoolInvariant, PTL

\* For any number of concurrent Dials of an address, a living session that was
\* handed out and not dropped is the pooled one.
THEOREM PoolShared == Spec => []Shared
<1>1. IInv => Shared
  BY DEF IInv, Sharing, Shared
<1> QED BY <1>1, PoolInvariant, PTL

\* No session is left open out of reach, except the ones quic's drop forgets.
THEOREM PoolNoLostSession == Spec => []NoLostSession
<1>1. IInv => NoLostSession
  BY DEF IInv
<1> QED BY <1>1, PoolInvariant, PTL

-----------------------------------------------------------------------------
(* ws: frames of several goroutines.  Who holds writeMu is in the middle   *)
(* of its frames, and only then may the raw connection end in a header.    *)

PartRecords == [by : WsProcs, op : {"data", "close", "pong", "echo"},
                part : {"whole", "head", "last"}]

JobRecords == [pc : {"idle", "lock", "emit", "read", "flag", "raw", "closed", "ended"},
               todo : Seq(PartRecords), left : Nat]

WsTypeOK ==
    /\ wsKind \in {"stream", "codec"}
    /\ writeMu \in WsProcs \cup {Nobody}
    /\ job \in [WsProcs -> JobRecords]
    /\ wire \in Seq(PartRecords)

\* Header and payload are next to each other in t, except that t may begin in the
\* middle of a frame.
Paired(t) ==
    /\ \A i \in 1 .. Len(t) : t[i].part = "head" =>
          i < Len(t) /\ t[i + 1] = [t[i] EXCEPT !.part = "last"]
    /\ \A i \in 2 .. Len(t) : t[i].part = "last" /\ t[i].op # "close" =>
          t[i - 1] = [t[i] EXCEPT !.part = "head"]

\* A payload that has no header before it.
Dangling(x) == x.part = "last" /\ x.op # "close"

\* The raw connection ends in a header.
HalfFrame == Len(wire) > 0 /\ wire[Len(wire)].part = "head"

MutexInv ==
    /\ \A p \in WsProcs : job[p].pc = "emit" => writeMu = p
    /\ writeMu # Nobody => job[writeMu].pc = "emit"

JobsPaired ==
    \A p \in WsProcs :
        /\ job[p].pc \in {"lock", "flag", "emit"} => Len(job[p].todo) > 0 /\ Paired(job[p].todo)
        /\ job[p].pc \in {"lock", "flag"} => ~Dangling(job[p].todo[1])

\* As long as anything can be written, the holder of the mutex goes on where the
\* raw connection ends.
WireInv ==
    ~Dead =>
        /\ HalfFrame => /\ writeMu # Nobody
                        /\ job[writeMu].todo[1] = [wire[Len(wire)] EXCEPT !.part = "last"]
        /\ ~HalfFrame /\ writeMu # Nobody => ~Dangling(job[writeMu].todo[1])

WsInv == WsTypeOK /\ MutexInv /\ JobsPaired /\ WireInv /\ FramesWhole

\* The three parts a frame of p may have.
FrameOf(p, op, whole, head, last) ==
    /\ whole = [by |-> p, op |-> op, part |-> "whole"]
    /\ head = [by |-> p, op |-> op, part |-> "head"]
    /\ last = [by |-> p, op |-> op, part |-> "last"]
    /\ whole.part = "whole" /\ head.part = "head" /\ last.part = "last"
    /\ head.op = op /\ last.op = op
    /\ last = [head EXCEPT !.part = "last"] /\ head = [last EXCEPT !.part = "head"]

\* They are records of the right kind.
LEMMA FrameRecords ==
    ASSUME NEW p \in WsProcs, NEW op \in {"data", "close", "pong", "echo"}
    PROVE  \E whole, head, last \in PartRecords : FrameOf(p, op, whole, head, last)
<1> DEFINE whole == [by |-> p, op |-> op, part |-> "whole"]
           head == [by |-> p, op |-> op, part |-> "head"]
           last == [by |-> p, op |-> op, part |-> "last"]
<1>1. whole \in PartRecords /\ head \in PartRecords /\ last \in PartRecords
  BY DEF PartRecords
<1>2. FrameOf(p, op, whole, head, last)
  BY DEF FrameOf
<1> HIDE DEF whole, head, last
<1>3. QED BY <1>1, <1>2

\* The parts of one frame.
LEMMA PartsFacts ==
    ASSUME WsTypeOK, NEW p \in WsProcs, NEW op \in {"data", "close", "pong", "echo"}
    PROVE  /\ Parts(p, op) \in Seq(PartRecords)
           /\ Len(Parts(p, op)) > 0
           /\ Paired(Parts(p, op)) /\ ~Dangling(Parts(p, op)[1])
           /\ op = "data" =>
                \/ Parts(p, op) = <<[by |-> p, op |-> op, part |-> "whole"]>>
                \/ Parts(p, op) = <<[by |-> p, op |-> op, part |-> "head"],
                                    [by |-> p, op |-> op, part |-> "last"]>>
<1>1. \E whole, head, last \in PartRecords : FrameOf(p, op, whole, head, last)
  BY FrameRecords
<1>2. PICK whole \in PartRecords, head \in PartRecords, last \in PartRecords :
         FrameOf(p, op, whole, head, last)
  BY <1>1
<1> USE DEF FrameOf
<1>3. \/ Parts(p, op) = <<whole>>
      \/ Parts(p, op) = <<last>> /\ op = "close"
      \/ Parts(p, op) = <<head, last>>
  BY <1>2 DEF Parts, WsTypeOK
<1>4. CASE Parts(p, op) = <<whole>>
  BY <1>2, <1>4 DEF Paired, Dangling
<1>5. CASE Parts(p, op) = <<last>> /\ op = "close"
  BY <1>2, <1>5 DEF Paired, Dangling
<1>6. CASE Parts(p, op) = <<head, last>>
  <2> DEFINE t == Parts(p, op)
  <2>1. t \in Seq(PartRecords) /\ Len(t) = 2 /\ t[1] = head /\ t[2] = last
    BY <1>6
  <2>2. \A i \in 1 .. Len(t) : t[i].part = "head" =>
          i < Len(t) /\ t[i + 1] = [t[i] EXCEPT !.part = "last"]
    <3> SUFFICES ASSUME NEW i \in 1 .. Len(t), t[i].part = "head"
                 PROVE  i < Len(t) /\ t[i + 1] = [t[i] EXCEPT !.part = "last"]
      OBVIOUS
    <3>1. i = 1 \/ i = 2
      BY <2>1
    <3>2. QED BY <1>2, <2>1, <3>1
  <2>3. \A i \in 2 .. Len(t) : t[i].part = "last" /\ t[i].op # "close" =>
          t[i - 1] = [t[i] EXCEPT !.part = "head"]
    <3> SUFFICES ASSUME NEW i \in 2 .. Len(t)
                 PROVE  t[i - 1] = [t[i] EXCEPT !.part = "head"]
      OBVIOUS
    <3>1. i = 2
      BY <2>1
    <3>2. QED BY <1>2, <2>1, <3>1
  <2>4. Paired(t) /\ ~Dangling(t[1])
    BY <2>1, <2>2, <2>3, <1>2 DEF Paired, Dangling
  <2>5. QED
    BY <1>2, <1>6, <2>1, <2>4 DEF t
<1>7. QED
  BY <1>3, <1>4, <1>5, <1>6

\* The frames of one Write, whole frames one after the other.
LEMMA RepeatFacts ==
    ASSUME WsTypeOK, NEW p \in WsProcs, NEW n \in Nat \ {0}
    PROVE  LET t == Repeat(Parts(p, "data"), n) IN
           t \in Seq(PartRecords) /\ Len(t) > 0 /\ Paired(t) /\ ~Dangling(t[1])
<1> DEFINE P == Parts(p, "data")
           t == Repeat(P, n)
<1>1. PICK whole \in PartRecords, head \in PartRecords, last \in PartRecords :
         FrameOf(p, "data", whole, head, last)
  BY FrameRecords
<1> USE DEF FrameOf
<1>2. P = <<whole>> \/ P = <<head, last>>
  BY <1>1, PartsFacts
<1>3. t = [k \in 1 .. n * Len(P) |-> P[1 + ((k - 1) % Len(P))]]
  BY DEF Repeat
<1> HIDE DEF P, t
<1>4. CASE P = <<whole>>
  <2>1. Len(P) = 1 /\ P[1] = whole /\ n * Len(P) = n
    BY <1>4
  <2>2. t = [k \in 1 .. n |-> whole]
    <3>1. \A k \in 1 .. n : 1 + ((k - 1) % 1) = 1
      OBVIOUS
    <3>2. QED BY <1>3, <2>1, <3>1
  <2>3. t \in Seq(PartRecords) /\ Len(t) = n /\ \A i \in 1 .. n : t[i] = whole
    BY <2>2
  <2>4. Paired(t) /\ ~Dangling(t[1])
    BY <1>1, <2>3 DEF Paired, Dangling
  <2>5. QED BY <2>3, <2>4 DEF t, P
<1>5. CASE P = <<head, last>>
  <2>1. Len(P) = 2 /\ P[1] = head /\ P[2] = last
    BY <1>5
  <2>2. n * 2 \in Nat \ {0} /\ n * 2 > 1
    OBVIOUS
  <2>3. t = [k \in 1 .. n * 2 |-> IF (k - 1) % 2 = 0 THEN head ELSE last]
    <3>1. \A k \in 1 .. n * 2 :
             P[1 + ((k - 1) % 2)] = IF (k - 1) % 2 = 0 THEN head ELSE last
      <4> SUFFICES ASSUME NEW k \in 1 .. n * 2
                   PROVE  P[1 + ((k - 1) % 2)] = IF (k - 1) % 2 = 0 THEN head ELSE last
        OBVIOUS
      <4>1. (k - 1) % 2 = 0 \/ (k - 1) % 2 = 1
        OBVIOUS
      <4>2. QED BY <2>1, <4>1
    <3>2. QED BY <1>3, <2>1, <3>1
  <2>4. /\ t \in Seq(PartRecords) /\ Len(t) = n * 2
        /\ \A i \in 1 .. n * 2 : t[i] = IF (i - 1) % 2 = 0 THEN head ELSE last
    BY <2>2, <2>3
  <2>5. \A i \in 1 .. Len(t) : t[i].part = "head" =>
          i < Len(t) /\ t[i + 1] = [t[i] EXCEPT !.part = "last"]
    <3> SUFFICES ASSUME NEW i \in 1 .. Len(t), t[i].part = "head"
                 PROVE  i < Len(t) /\ t[i + 1] = [t[i] EXCEPT !.part = "last"]
      OBVIOUS
    <3>1. (i - 1) % 2 = 0 /\ t[i] = head
      BY <1>1, <2>4
    <3>2. i < n * 2 /\ i + 1 \in 1 .. n * 2 /\ (i + 1 - 1) % 2 # 0
      BY <2>4, <3>1
    <3>3. t[i + 1] = last
      BY <2>4, <3>2
    <3>4. QED BY <1>1, <2>4, <3>1, <3>2, <3>3
  <2>6. \A i \in 2 .. Len(t) : t[i].part = "last" /\ t[i].op # "close" =>
          t[i - 1] = [t[i] EXCEPT !.part = "head"]
    <3> SUFFICES ASSUME NEW i \in 2 .. Len(t), t[i].part = "last"
                 PROVE  t[i - 1] = [t[i] EXCEPT !.part = "head"]
      OBVIOUS
    <3>0. i \in 1 .. n * 2 /\ i - 1 \in 1 .. n * 2
      BY <2>4
    <3>1. (i - 1) % 2 # 0 /\ t[i] = last
      BY <1>1, <2>4, <3>0
    <3>2. (i - 1 - 1) % 2 = 0
      BY <3>0, <3>1
    <3>3. t[i - 1] = head
      BY <2>4, <3>0, <3>2
    <3>4. QED BY <1>1, <3>1, <3>3
  <2>7. t[1] = head
    BY <2>2, <2>4
  <2>8. Paired(t) /\ ~Dangling(t[1])
    BY <1>1, <2>5, <2>6, <2>7 DEF Paired, Dangling
  <2>9. QED BY <2>2, <2>4, <2>8 DEF t, P
<1>6. QED
  BY <1>2, <1>4, <1>5

\* A goroutine that does not write changes its own job.
LEMMA OwnStep ==
    ASSUME WsAssumption, WsInv, NEW p \in WsProcs, NEW x \in JobRecords,
           job[p].pc # "emit", x.pc # "emit",
           x.pc \in {"lock", "flag"} => Len(x.todo) > 0 /\ Paired(x.todo) /\ ~Dangling(x.todo[1]),
           job' = [job EXCEPT ![p] = x], UNCHANGED <<wsKind, writeMu, wire>>, Dead => Dead'
    PROVE  WsInv'
<1>1. job'[p] = x /\ \A q \in WsProcs : q # p => job'[q] = job[q]
  BY DEF WsInv, WsTypeOK
<1>2. WsTypeOK'
  BY DEF WsInv, WsTypeOK
<1>3. writeMu # p /\ MutexInv'
  <2>1. p # Nobody
    BY WsAssumption DEF WsAssumption
  <2>2. QED BY <1>1, <2>1 DEF WsInv, WsTypeOK, MutexInv
<1>4. JobsPaired'
  BY <1>1 DEF WsInv, JobsPaired
<1>5. writeMu # Nobody => job'[writeMu] = job[writeMu]
  BY <1>1, <1>3 DEF WsInv, WsTypeOK
<1>6. WireInv'
  BY <1>5 DEF WsInv, WireInv, HalfFrame
<1>7. FramesWhole'
  BY DEF WsInv, FramesWhole
<1>8. QED BY <1>2, <1>3, <1>4, <1>6, <1>7 DEF WsInv

\* What is left of a job when its writing is over.
LEMMA LeaveFacts ==
    ASSUME WsTypeOK, NEW p \in WsProcs, NEW ok \in BOOLEAN, Leave(p, ok)
    PROVE  \E x \in JobRecords :
              /\ x.pc \in {"idle", "raw", "read", "ended"} /\ x.todo = <<>>
              /\ job' = [job EXCEPT ![p] = x]
<1> DEFINE a == After(p, ok)
           x == [job[p] EXCEPT !.pc = a, !.todo = <<>>]
<1>1. a \in {"idle", "raw", "read", "ended"}
  BY DEF After
<1> HIDE DEF a
<1>2. job[p] \in JobRecords
  BY DEF WsTypeOK
<1>a. <<>> \in Seq(PartRecords)
  BY EmptySeq
<1>3. x \in JobRecords /\ x.pc = a /\ x.todo = <<>>
  BY <1>1, <1>2, <1>a DEF JobRecords
<1>4. job' = [job EXCEPT ![p] = x]
  BY DEF Leave, a, WsTypeOK
<1> HIDE DEF x
<1>5. QED BY <1>1, <1>3, <1>4

\* The mutex is taken at the start of a frame, or not at all.
LEMMA LockStep ==
    ASSUME WsAssumption, WsInv, NEW p \in WsProcs, LockWrite(p)
    PROVE  WsInv'
<1>1. job[p].pc = "lock" /\ writeMu = Nobody /\ job[p] \in JobRecords
      /\ UNCHANGED <<wsKind, wire, rawOpen, peerUp>>
  BY DEF LockWrite, WsInv, WsTypeOK
<1>2. CASE Leave(p, FALSE) /\ UNCHANGED writeMu
  <2>1. PICK x \in JobRecords : /\ x.pc \in {"idle", "raw", "read", "ended"}
                                /\ job' = [job EXCEPT ![p] = x]
    BY <1>2, LeaveFacts DEF WsInv
  <2>2. Dead => Dead'
    BY <1>1 DEF Dead
  <2>3. QED
    BY <1>1, <1>2, <2>1, <2>2, WsAssumption, OwnStep
<1>3. CASE writeMu' = p /\ job' = [job EXCEPT ![p].pc = "emit"]
  <2>1. /\ job'[p] = [job[p] EXCEPT !.pc = "emit"] /\ job'[p] \in JobRecords
        /\ \A q \in WsProcs : q # p => job'[q] = job[q]
        /\ job' \in [WsProcs -> JobRecords]
    BY <1>1, <1>3 DEF WsInv, WsTypeOK, JobRecords
  <2>2. job'[p].pc = "emit" /\ job'[p].todo = job[p].todo
    BY <1>1, <2>1 DEF JobRecords
  <2>3. p # Nobody
    BY WsAssumption DEF WsAssumption
  <2>4. WsTypeOK'
    BY <1>1, <1>3, <2>1 DEF WsInv, WsTypeOK
  <2>5. \A q \in WsProcs : job[q].pc # "emit"
    BY <1>1, WsAssumption DEF WsInv, MutexInv, WsAssumption
  <2>6. MutexInv'
    BY <1>3, <2>1, <2>2, <2>5 DEF MutexInv
  <2>7. JobsPaired'
    BY <1>1, <2>1, <2>2 DEF WsInv, JobsPaired
  <2>8. ~Dead' => ~Dead
    BY <1>1 DEF Dead
  <2>9. WireInv'
    BY <1>1, <1>3, <2>2, <2>3, <2>8 DEF WsInv, WireInv, HalfFrame, JobsPaired
  <2>10. FramesWhole'
    BY <1>1 DEF WsInv, FramesWhole
  <2>11. QED BY <2>4, <2>6, <2>7, <2>9, <2>10 DEF WsInv
<1>4. QED
  BY <1>2, <1>3 DEF LockWrite

\* One more part on the raw connection fits to what is there.
LEMMA AppendWhole ==
    ASSUME WsInv, NEW x \in PartRecords, wire' = Append(wire, x),
           HalfFrame => x = [wire[Len(wire)] EXCEPT !.part = "last"],
           ~HalfFrame => ~Dangling(x)
    PROVE  FramesWhole'
<1> DEFINE n == Len(wire)
<1>1. /\ wire \in Seq(PartRecords) /\ n \in Nat /\ Len(wire') = n + 1
      /\ \A i \in 1 .. n : wire'[i] = wire[i] /\ wire[i] \in PartRecords
      /\ wire'[n + 1] = x
      /\ DOMAIN wire' = 1 .. n + 1 /\ DOMAIN wire = 1 .. n
  BY DEF WsInv, WsTypeOK
<1>2. ASSUME NEW i \in 1 .. n + 1, wire'[i].part = "head", i < n + 1
      PROVE  wire'[i + 1] = [wire'[i] EXCEPT !.part = "last"]
  <2>1. CASE i < n
    <3>1. i \in DOMAIN wire /\ i \in 1 .. n /\ i + 1 \in 1 .. n /\ i < Len(wire)
      BY <1>1, <1>2, <2>1
    <3>2. wire[i + 1] = [wire[i] EXCEPT !.part = "last"]
      BY <1>1, <1>2, <3>1 DEF WsInv, FramesWhole
    <3>3. QED BY <1>1, <3>1, <3>2
  <2>2. CASE i = n
    BY <1>1, <1>2, <2>2 DEF HalfFrame
  <2>3. QED BY <1>1, <1>2, <2>1, <2>2
<1>3. ASSUME NEW i \in 1 .. n + 1, wire'[i].part = "last", wire'[i].op # "close"
      PROVE  i > 1 /\ wire'[i - 1] = [wire'[i] EXCEPT !.part = "head"]
  <2>1. CASE i <= n
    <3>1. i \in DOMAIN wire /\ i \in 1 .. n
      BY <1>1, <1>3, <2>1
    <3>2. i > 1 /\ wire[i - 1] = [wire[i] EXCEPT !.part = "head"]
      BY <1>1, <1>3, <3>1 DEF WsInv, FramesWhole
    <3>3. i - 1 \in 1 .. n
      BY <1>1, <3>1, <3>2
    <3>4. QED BY <1>1, <3>1, <3>2, <3>3
  <2>2. CASE i = n + 1
    <3>1. HalfFrame /\ x = [wire[n] EXCEPT !.part = "last"]
      BY <1>1, <1>3, <2>2 DEF Dangling
    <3>2. n > 0 /\ n \in 1 .. n /\ wire[n].part = "head" /\ wire[n] \in PartRecords
      BY <1>1, <3>1 DEF HalfFrame
    <3>3. wire[n] = [x EXCEPT !.part = "head"]
      BY <3>1, <3>2 DEF PartRecords
    <3>4. QED BY <1>1, <2>2, <3>2, <3>3
  <2>3. QED BY <1>1, <2>1, <2>2
<1>4. QED
  BY <1>1, <1>2, <1>3 DEF FramesWhole

\* The holder of the mutex writes a part; with its last one it gives the mutex up.
LEMMA EmitStep ==
    ASSUME WsAssumption, WsInv, NEW p \in WsProcs, Emit(p)
    PROVE  WsInv'
<1> DEFINE t == job[p].todo
           n == Len(wire)
<1>1. /\ job[p].pc = "emit" /\ ~Dead /\ writeMu = p /\ p # Nobody
      /\ job[p] \in JobRecords /\ t \in Seq(PartRecords) /\ Len(t) > 0 /\ Paired(t)
      /\ UNCHANGED <<wsKind, rawOpen, peerUp>> /\ wire' = Append(wire, Head(t))
  BY WsAssumption DEF Emit, WsInv, WsTypeOK, MutexInv, JobsPaired, WsAssumption, JobRecords
<1>2. Head(t) = t[1] /\ t[1] \in PartRecords /\ Len(t) \in Nat /\ Len(t) > 0
  BY <1>1
<1>3. /\ wire \in Seq(PartRecords) /\ n \in Nat /\ wire' \in Seq(PartRecords)
      /\ Len(wire') = n + 1 /\ wire'[n + 1] = t[1]
  BY <1>1, <1>2 DEF WsInv, WsTypeOK
<1>4. FramesWhole'
  BY <1>1, <1>2, AppendWhole DEF WsInv, WireInv
<1>5. HalfFrame' <=> t[1].part = "head"
  BY <1>3 DEF HalfFrame
<1>6. \A q \in WsProcs : q # p => job[q].pc # "emit"
  BY <1>1 DEF WsInv, MutexInv
<1>7. ~Dead'
  BY <1>1 DEF Dead
<1>8. CASE Len(t) = 1
  <2>1. Leave(p, TRUE) /\ writeMu' = Nobody
    BY <1>8 DEF Emit
  <2>2. PICK x \in JobRecords : /\ x.pc \in {"idle", "raw", "read", "ended"}
                                /\ job' = [job EXCEPT ![p] = x]
    BY <2>1, LeaveFacts DEF WsInv
  <2>3. /\ job'[p] = x /\ \A q \in WsProcs : q # p => job'[q] = job[q]
        /\ job' \in [WsProcs -> JobRecords]
    BY <2>2 DEF WsInv, WsTypeOK
  <2>4. ~HalfFrame'
    BY <1>1, <1>2, <1>5, <1>8 DEF Paired
  <2>5. WsTypeOK'
    BY <1>1, <1>3, <2>1, <2>3 DEF WsInv, WsTypeOK
  <2>6. MutexInv'
    BY <1>6, <2>1, <2>2, <2>3 DEF MutexInv
  <2>7. JobsPaired'
    BY <2>2, <2>3 DEF WsInv, JobsPaired
  <2>8. WireInv'
    BY <2>1, <2>4 DEF WireInv
  <2>9. QED BY <1>4, <2>5, <2>6, <2>7, <2>8 DEF WsInv
<1>9. CASE Len(t) # 1
  <2>1. job' = [job EXCEPT ![p].todo = Tail(@)] /\ writeMu' = writeMu
    BY <1>9 DEF Emit
  <2> DEFINE u == Tail(t)
  <2>2. /\ u \in Seq(PartRecords) /\ Len(u) = Len(t) - 1
        /\ \A i \in 1 .. Len(t) - 1 : u[i] = t[i + 1] /\ i + 1 \in 1 .. Len(t)
    BY <1>1, <1>2
  <2> HIDE DEF u
  <2>3. /\ job'[p] = [job[p] EXCEPT !.todo = u]
        /\ \A q \in WsProcs : q # p => job'[q] = job[q]
        /\ job' \in [WsProcs -> JobRecords]
    BY <1>1, <2>1, <2>2 DEF WsInv, WsTypeOK, JobRecords, u
  <2>4. job'[p].pc = "emit" /\ job'[p].todo = u
    BY <1>1, <2>3 DEF JobRecords
  <2> HIDE DEF t
  <2>5. Len(t) >= 2 /\ Len(u) > 0 /\ u[1] = t[2]
    <3>1. PICK m \in Nat : m = Len(t)
      BY <1>2
    <3>2. m > 0 /\ m # 1
      BY <1>2, <1>9, <3>1
    <3>3. m >= 2 /\ 1 \in 1 .. m - 1
      BY <3>2
    <3>4. QED BY <2>2, <3>1, <3>3
  <2> HIDE DEF t
  <2>6. Paired(u)
    <3>1. ASSUME NEW i \in 1 .. Len(t) - 1, u[i].part = "head"
          PROVE  i < Len(t) - 1 /\ u[i + 1] = [u[i] EXCEPT !.part = "last"]
      <4>1. u[i] = t[i + 1] /\ i + 1 \in 1 .. Len(t)
        BY <2>2, <3>1
      <4>2. i + 1 < Len(t) /\ t[(i + 1) + 1] = [t[i + 1] EXCEPT !.part = "last"]
        BY <1>1, <3>1, <4>1 DEF Paired
      <4>3. i + 1 \in 1 .. Len(t) - 1
        BY <1>2, <4>2
      <4>4. u[i + 1] = t[(i + 1) + 1]
        BY <2>2, <4>3
      <4>5. QED BY <1>2, <4>1, <4>2, <4>4
    <3>2. ASSUME NEW i \in 2 .. Len(t) - 1, u[i].part = "last", u[i].op # "close"
          PROVE  u[i - 1] = [u[i] EXCEPT !.part = "head"]
      <4>1. i \in 1 .. Len(t) - 1 /\ i - 1 \in 1 .. Len(t) - 1 /\ i + 1 \in 2 .. Len(t)
            /\ (i + 1) - 1 = i /\ (i - 1) + 1 = i
        BY <1>2, <3>2
      <4>2. u[i] = t[i + 1] /\ u[i - 1] = t[i]
        BY <2>2, <4>1
      <4>3. t[(i + 1) - 1] = [t[i + 1] EXCEPT !.part = "head"]
        BY <1>1, <3>2, <4>1, <4>2 DEF Paired
      <4>4. QED BY <4>1, <4>2, <4>3
    <3>3. QED BY <2>2, <3>1, <3>2 DEF Paired
  <2>7. WsTypeOK'
    BY <1>1, <1>3, <2>1, <2>3 DEF WsInv, WsTypeOK
  <2>8. MutexInv'
    BY <1>1, <1>6, <2>1, <2>3, <2>4 DEF MutexInv
  <2>9. JobsPaired'
    BY <2>3, <2>4, <2>5, <2>6 DEF WsInv, JobsPaired
  <2>10. t[1].part = "head" => t[2] = [t[1] EXCEPT !.part = "last"]
    <3>1. 1 \in 1 .. Len(t) /\ 1 + 1 = 2
      BY <1>2, <2>5
    <3>2. QED BY <1>1, <3>1 DEF Paired
  <2>11. t[1].part # "head" => ~Dangling(t[2])
    <3> SUFFICES ASSUME t[2].part = "last", t[2].op # "close" PROVE t[1].part = "head"
      BY DEF Dangling
    <3>1. 2 \in 2 .. Len(t) /\ 2 - 1 = 1
      BY <1>2, <2>5
    <3>2. t[1] = [t[2] EXCEPT !.part = "head"]
      BY <1>1, <3>1 DEF Paired
    <3>3. t[2] \in PartRecords
      BY <1>1, <1>2, <2>5
    <3>4. QED BY <3>2, <3>3 DEF PartRecords
  <2>12. WireInv'
    BY <1>1, <1>3, <1>5, <2>1, <2>4, <2>5, <2>10, <2>11 DEF WireInv
  <2>13. QED BY <1>4, <2>7, <2>8, <2>9, <2>12 DEF WsInv
<1>10. QED BY <1>8, <1>9

\* A write that fails gives the mutex up; nothing is written after it.
LEMMA EmitFailsStep ==
    ASSUME WsAssumption, WsInv, NEW p \in WsProcs, EmitFails(p)
    PROVE  WsInv'
<1>1. /\ job[p].pc = "emit" /\ Dead /\ writeMu = p /\ Leave(p, FALSE) /\ writeMu' = Nobody
      /\ UNCHANGED <<wsKind, rawOpen, peerUp, wire>>
  BY DEF EmitFails, WsInv, MutexInv
<1>2. PICK x \in JobRecords : /\ x.pc \in {"idle", "raw", "read", "ended"}
                              /\ job' = [job EXCEPT ![p] = x]
  BY <1>1, LeaveFacts DEF WsInv
<1>3. /\ job'[p] = x /\ \A q \in WsProcs : q # p => job'[q] = job[q]
      /\ job' \in [WsProcs -> JobRecords]
  BY <1>2 DEF WsInv, WsTypeOK
<1>4. \A q \in WsProcs : q # p => job[q].pc # "emit"
  BY <1>1 DEF WsInv, MutexInv
<1>5. Dead'
  BY <1>1 DEF Dead
<1>6. WsTypeOK'
  BY <1>1, <1>3 DEF WsInv, WsTypeOK
<1>7. MutexInv'
  BY <1>1, <1>2, <1>3, <1>4 DEF MutexInv
<1>8. JobsPaired'
  BY <1>2, <1>3 DEF WsInv, JobsPaired
<1>9. WireInv' /\ FramesWhole'
  BY <1>1, <1>5 DEF WsInv, WireInv, FramesWhole
<1>10. QED BY <1>6, <1>7, <1>8, <1>9 DEF WsInv

\* A Write begins, with whole frames.
LEMMA WriteStep ==
    ASSUME WsAssumption, WsInv, NEW w \in Writers, WsWrite(w)
    PROVE  WsInv'
<1>1. w \in WsProcs /\ job[w].pc = "idle" /\ job[w].left > 0 /\ job[w] \in JobRecords
      /\ UNCHANGED <<wsKind, writeMu, wire, rawOpen, peerUp>>
  BY DEF WsWrite, WsInv, WsTypeOK, WsProcs
<1>2. PICK n \in 1 .. (IF wsKind = "codec" THEN 1 ELSE MaxFrames) :
         job' = [job EXCEPT ![w] = [pc |-> "lock", left |-> job[w].left - 1,
                                    todo |-> Repeat(Parts(w, "data"), n)]]
  BY DEF WsWrite
<1>3. n \in Nat \ {0}
  BY <1>2, WsAssumption DEF WsAssumption
<1> DEFINE t == Repeat(Parts(w, "data"), n)
           x == [pc |-> "lock", left |-> job[w].left - 1, todo |-> t]
<1>4. t \in Seq(PartRecords) /\ Len(t) > 0 /\ Paired(t) /\ ~Dangling(t[1])
  BY <1>1, <1>3, RepeatFacts DEF WsInv
<1> HIDE DEF t
<1>5. x \in JobRecords /\ x.pc = "lock" /\ x.todo = t
  BY <1>1, <1>4 DEF JobRecords
<1>6. job' = [job EXCEPT ![w] = x]
  BY <1>2 DEF t
<1>7. Dead => Dead'
  BY <1>1 DEF Dead
<1> HIDE DEF x
<1>8. QED
  BY <1>1, <1>4, <1>5, <1>6, <1>7, WsAssumption, OwnStep

\* Close begins, sets the flag, and closes the raw connection.
LEMMA CloseStep ==
    ASSUME WsAssumption, WsInv, NEW c \in Closers, WsClose(c) \/ SetClosed(c) \/ CloseRaw(c)
    PROVE  WsInv'
<1>1. c \in WsProcs /\ job[c] \in JobRecords /\ UNCHANGED <<wsKind, writeMu, wire>>
      /\ (Dead => Dead')
  BY DEF WsClose, SetClosed, CloseRaw, WsInv, WsTypeOK, WsProcs, Dead
<1>2. CASE WsClose(c)
  <2> DEFINE t == Parts(c, "close")
             z == IF wsKind = "stream" THEN "lock" ELSE "flag"
             x == [job[c] EXCEPT !.pc = z, !.todo = t]
  <2>1. t \in Seq(PartRecords) /\ Len(t) > 0 /\ Paired(t) /\ ~Dangling(t[1])
    BY <1>1, PartsFacts DEF WsInv
  <2>2. job' = [job EXCEPT ![c] = x] /\ job[c].pc = "idle"
    BY <1>1, <1>2 DEF WsClose, WsInv, WsTypeOK
  <2>3. z \in {"lock", "flag"}
    OBVIOUS
  <2> HIDE DEF t, z
  <2>4. x \in JobRecords /\ x.pc = z /\ x.todo = t
    BY <1>1, <2>1, <2>3 DEF JobRecords
  <2> HIDE DEF x
  <2>5. QED
    BY <1>1, <2>1, <2>2, <2>3, <2>4, WsAssumption, OwnStep
<1>3. CASE SetClosed(c)
  <2> DEFINE z == IF closedFlag THEN "raw" ELSE "lock"
             x == [job[c] EXCEPT !.pc = z]
  <2>1. job' = [job EXCEPT ![c] = x] /\ job[c].pc = "flag"
    BY <1>1, <1>3 DEF SetClosed, WsInv, WsTypeOK
  <2>2. z \in {"raw", "lock"}
    OBVIOUS
  <2> HIDE DEF z
  <2>3. x \in JobRecords /\ x.pc = z /\ x.todo = job[c].todo
    BY <1>1, <2>2 DEF JobRecords
  <2>4. Len(job[c].todo) > 0 /\ Paired(job[c].todo) /\ ~Dangling(job[c].todo[1])
    BY <1>1, <2>1 DEF WsInv, JobsPaired
  <2> HIDE DEF x
  <2>5. QED
    BY <1>1, <2>1, <2>2, <2>3, <2>4, WsAssumption, OwnStep
<1>4. CASE CloseRaw(c)
  <2> DEFINE x == [job[c] EXCEPT !.pc = "closed"]
  <2>1. job' = [job EXCEPT ![c] = x] /\ job[c].pc = "raw"
    BY <1>1, <1>4 DEF CloseRaw, WsInv, WsTypeOK
  <2>2. x \in JobRecords /\ x.pc = "closed"
    BY <1>1 DEF JobRecords
  <2> HIDE DEF x
  <2>3. QED
    BY <1>1, <2>1, <2>2, WsAssumption, OwnStep
<1>5. QED BY <1>2, <1>3, <1>4

\* The reader goes on, answers or ends.
LEMMA ReadStep ==
    ASSUME WsAssumption, WsInv, StreamReads \/ CodecReads \/ ReadFails
    PROVE  WsInv'
<1>1. Reader \in WsProcs /\ job[Reader] \in JobRecords /\ UNCHANGED <<wsKind, writeMu, wire>>
      /\ (Dead => Dead') /\ job[Reader].pc = "read"
  BY DEF StreamReads, CodecReads, ReadFails, WsInv, WsTypeOK, WsProcs, Dead
<1>2. Ends \/ Answer("pong") \/ Answer("echo") \/ job' = job
  BY DEF StreamReads, CodecReads, ReadFails
<1>3. ASSUME NEW op \in {"pong", "echo"}, Answer(op) PROVE WsInv'
  <2> DEFINE t == Parts(Reader, op)
             x == [job[Reader] EXCEPT !.pc = "lock", !.todo = t]
  <2>1. t \in Seq(PartRecords) /\ Len(t) > 0 /\ Paired(t) /\ ~Dangling(t[1])
    BY <1>1, PartsFacts DEF WsInv
  <2>2. job' = [job EXCEPT ![Reader] = x]
    BY <1>1, <1>3 DEF Answer, WsInv, WsTypeOK
  <2> HIDE DEF t
  <2>3. x \in JobRecords /\ x.pc = "lock" /\ x.todo = t
    BY <1>1, <2>1 DEF JobRecords
  <2> HIDE DEF x
  <2>4. QED
    BY <1>1, <2>1, <2>2, <2>3, WsAssumption, OwnStep
<1>4. CASE Ends
  <2> DEFINE x == [job[Reader] EXCEPT !.pc = "ended"]
  <2>1. job' = [job EXCEPT ![Reader] = x]
    BY <1>1, <1>4 DEF Ends, WsInv, WsTypeOK
  <2>2. x \in JobRecords /\ x.pc = "ended"
    BY <1>1 DEF JobRecords
  <2> HIDE DEF x
  <2>3. QED
    BY <1>1, <2>1, <2>2, WsAssumption, OwnStep
<1>5. CASE job' = job
  <2>1. job' = [job EXCEPT ![Reader] = job[Reader]]
    BY <1>1, <1>5 DEF WsInv, WsTypeOK
  <2>2. QED
    BY <1>1, <2>1, WsAssumption, OwnStep
<1>6. QED BY <1>2, <1>3, <1>4, <1>5

\* Every step of the connection keeps the invariant.
LEMMA WsStep ==
    ASSUME WsAssumption, WsInv, WsNext
    PROVE  WsInv'
<1>1. ASSUME NEW p \in WsProcs, WsSteps(p) PROVE WsInv'
  BY <1>1, WsAssumption, LockStep, EmitStep, EmitFailsStep, CloseStep DEF WsSteps
<1>2. ASSUME NEW w \in Writers, WsWrite(w) PROVE WsInv'
  BY <1>2, WsAssumption, WriteStep
<1>3. ASSUME NEW c \in Closers, WsClose(c) PROVE WsInv'
  BY <1>3, WsAssumption, CloseStep
<1>4. CASE StreamReads \/ CodecReads \/ ReadFails
  BY <1>4, WsAssumption, ReadStep
<1>5. CASE PeerReads \/ PeerGoes
  BY <1>5 DEF PeerReads, PeerGoes, WsInv, WsTypeOK, MutexInv, JobsPaired, WireInv, HalfFrame,
              Dead, FramesWhole
<1>6. QED
  BY <1>1, <1>2, <1>3, <1>4, <1>5 DEF WsNext

\* The frames that any number of writers, the reader's answers and Close put on
\* one raw connection never interleave, also when a write fails in the middle:
\* writeMu of wsConn and of Conn.
THEOREM FramesStayWhole == OutSpec => []FramesWhole
<1>1. OutInit => WsInv
  <2> SUFFICES ASSUME OutInit PROVE WsInv
    OBVIOUS
  <2>1. /\ wsKind \in WsKinds /\ writeMu = Nobody /\ wire = <<>>
        /\ job = [p \in WsProcs |-> [pc |-> IF p = Reader THEN "read" ELSE "idle",
                                     todo |-> <<>>, left |-> MaxWrites]]
    BY DEF OutInit, WsInit
  <2>2. WsTypeOK
    <3>1. <<>> \in Seq(PartRecords)
      BY EmptySeq
    <3>2. wsKind \in {"stream", "codec"} /\ MaxWrites \in Nat
      BY <2>1, WsAssumption DEF WsAssumption
    <3>3. QED
      BY <2>1, <3>1, <3>2 DEF WsTypeOK, JobRecords
  <2>3. \A p \in WsProcs : job[p].pc \in {"read", "idle"}
    BY <2>1
  <2>4. MutexInv /\ JobsPaired /\ FramesWhole
    BY <2>1, <2>3 DEF MutexInv, JobsPaired, FramesWhole
  <2>5. WireInv
    BY <2>1 DEF WireInv, HalfFrame
  <2>6. QED BY <2>2, <2>4, <2>5 DEF WsInv
<1>2. WsInv /\ [OutNext]_outVars => WsInv'
  <2>1. ASSUME WsInv, UNCHANGED wsVars PROVE WsInv'
    BY <2>1 DEF wsVars, WsInv, WsTypeOK, MutexInv, JobsPaired, WireInv, HalfFrame, Dead,
                FramesWhole
  <2>2. QED
    BY <2>1, WsAssumption, WsStep DEF OutNext, outVars
<1>3. WsInv => FramesWhole
  BY DEF WsInv
<1>4. QED
  BY <1>1, <1>2, <1>3, PTL DEF OutSpec

-----------------------------------------------------------------------------
(* h2: the bytes of the response body.  Wherever the pump, its queue and   *)
(* Read have cut the downlink, the pieces from got to down are the bytes   *)
(* 1 .. sentDown in order, and an EOF travels behind the last of them.     *)

\* s holds the bytes that follow byte number from.
Run(s, from) == \A k \in 1 .. Len(s) : s[k] = from + k

ItemRecords == [data : Seq(Nat), err : {"nil", "EOF", "reset"}]

\* The items of q hold the bytes from + 1 .. to; b says where each one ends.
Cuts(b, q, from, to) ==
    /\ b \in [0 .. Len(q) -> Nat]
    /\ b[0] = from /\ b[Len(q)] = to
    /\ \A i \in 1 .. Len(q) : Run(q[i].data, b[i - 1]) /\ b[i] = b[i - 1] + Len(q[i].data)

InOrder(q, from, to) == \E b : Cuts(b, q, from, to)

\* Bytes in the hands of the pump.
Hold == IF pump.pc = "send" THEN Len(pump.chunk) ELSE 0

H2TypeOK ==
    /\ pump \in [pc : {"none", "read", "send", "error", "ended"}, chunk : Seq(Nat),
                 err : {"nil", "EOF", "reset"}]
    /\ queue \in Seq(ItemRecords)
    /\ down \in Seq(Nat) /\ pending \in Seq(Nat) /\ got \in Seq(Nat) /\ up \in Seq(Nat)
    /\ sentDown \in Nat /\ sentUp \in Nat /\ gotUp \in Nat

DownInv ==
    /\ Run(got, 0) /\ Run(pending, Len(got))
    /\ \E e \in Nat : /\ InOrder(queue, Len(got) + Len(pending), e)
                      /\ pump.pc = "send" => Run(pump.chunk, e)
                      /\ Run(down, e + Hold)
                      /\ sentDown = e + Hold + Len(down)

EndInv ==
    /\ dial # "conn" => pump.pc = "none"
    /\ read # "idle" => pending = <<>>
    /\ pump.pc \in {"send", "error", "ended"} /\ pump.err = "EOF" => server = "ended" /\ down = <<>>
    /\ pump.pc = "error" => pump.err # "nil"
    /\ \A i \in 1 .. Len(queue) : queue[i].err # "nil" =>
          /\ i = Len(queue) /\ queue[i].data = <<>>
          /\ pump.pc = "ended" /\ pump.err = queue[i].err
    /\ readEOF => /\ pump.pc = "ended" /\ pump.err = "EOF"
                  /\ queue = <<>> /\ pending = <<>>

UpInv ==
    /\ sentUp = gotUp + Len(up)
    /\ serverEOF => ~pw /\ up = <<>>

H2Inv == H2TypeOK /\ DownInv /\ EndInv /\ UpInv

\* A run that is cut in two, as Read and the pump do, is two runs.
LEMMA RunSplit ==
    ASSUME NEW s \in Seq(Nat), NEW from \in Nat, Run(s, from), NEW n \in 0 .. Len(s)
    PROVE  /\ SubSeq(s, 1, n) \in Seq(Nat) /\ Len(SubSeq(s, 1, n)) = n
           /\ Run(SubSeq(s, 1, n), from)
           /\ SubSeq(s, n + 1, Len(s)) \in Seq(Nat)
           /\ Len(SubSeq(s, n + 1, Len(s))) = Len(s) - n
           /\ Run(SubSeq(s, n + 1, Len(s)), from + n)
<1> DEFINE t == SubSeq(s, 1, n)
           u == SubSeq(s, n + 1, Len(s))
<1>1. Len(s) \in Nat /\ n \in Nat /\ n <= Len(s)
  BY LenProperties
<1>2. t \in Seq(Nat) /\ Len(t) = n /\ \A k \in 1 .. n : t[k] = s[k]
  BY <1>1, SubSeqProperties
<1>3. /\ u \in Seq(Nat) /\ Len(u) = Len(s) - n
      /\ \A k \in 1 .. Len(s) - n : u[k] = s[n + k]
  BY <1>1, SubSeqProperties
<1> HIDE DEF t, u
<1>4. Run(t, from)
  <2>1. \A k \in 1 .. n : k \in 1 .. Len(s)
    BY <1>1
  <2>2. QED BY <1>2, <2>1 DEF Run
<1>5. Run(u, from + n)
  <2>1. ASSUME NEW k \in 1 .. Len(s) - n PROVE u[k] = (from + n) + k
    <3>1. n + k \in 1 .. Len(s) /\ from + (n + k) = (from + n) + k
      BY <1>1, <2>1
    <3>2. QED BY <1>3, <3>1 DEF Run
  <2>2. QED BY <1>3, <2>1 DEF Run
<1>6. QED BY <1>2, <1>3, <1>4, <1>5 DEF t, u

\* What Read adds to got continues it.
LEMMA RunConcat ==
    ASSUME NEW s \in Seq(Nat), NEW t \in Seq(Nat), Run(s, 0), Run(t, Len(s))
    PROVE  s \o t \in Seq(Nat) /\ Len(s \o t) = Len(s) + Len(t) /\ Run(s \o t, 0)
<1> DEFINE u == s \o t
<1>1. Len(s) \in Nat /\ Len(t) \in Nat
  BY LenProperties
<1>2. /\ u \in Seq(Nat) /\ Len(u) = Len(s) + Len(t)
      /\ \A k \in 1 .. Len(s) + Len(t) : u[k] = IF k <= Len(s) THEN s[k] ELSE t[k - Len(s)]
  BY ConcatProperties
<1> HIDE DEF u
<1>3. ASSUME NEW k \in 1 .. Len(s) + Len(t) PROVE u[k] = 0 + k
  <2>1. CASE k <= Len(s)
    <3>1. k \in 1 .. Len(s) /\ 0 + k = k
      BY <1>1, <2>1
    <3>2. QED BY <1>2, <2>1, <3>1 DEF Run
  <2>2. CASE ~(k <= Len(s))
    <3>1. k - Len(s) \in 1 .. Len(t) /\ Len(s) + (k - Len(s)) = k /\ 0 + k = k
      BY <1>1, <2>2
    <3>2. QED BY <1>2, <2>2, <3>1 DEF Run
  <2>3. QED BY <2>1, <2>2
<1>4. QED BY <1>2, <1>3 DEF Run, u

\* An empty queue cuts nothing.
LEMMA EmptyInOrder ==
    ASSUME NEW from \in Nat, NEW to \in Nat
    PROVE  InOrder(<<>>, from, to) <=> from = to
<1>1. Len(<<>>) = 0 /\ 1 .. 0 = {}
  OBVIOUS
<1>2. ASSUME InOrder(<<>>, from, to) PROVE from = to
  BY <1>1, <1>2 DEF InOrder, Cuts
<1>3. ASSUME from = to PROVE InOrder(<<>>, from, to)
  <2> DEFINE b == [i \in 0 .. 0 |-> from]
  <2>1. Cuts(b, <<>>, from, to)
    BY <1>1, <1>3 DEF Cuts
  <2>2. QED BY <2>1 DEF InOrder
<1>4. QED BY <1>2, <1>3

\* The pump's send: the item goes behind the others.
LEMMA AppendInOrder ==
    ASSUME NEW q \in Seq(ItemRecords), NEW from \in Nat, NEW to \in Nat, InOrder(q, from, to),
           NEW x \in ItemRecords, Run(x.data, to)
    PROVE  InOrder(Append(q, x), from, to + Len(x.data))
<1>1. PICK b : Cuts(b, q, from, to)
  BY DEF InOrder
<1> DEFINE r == Append(q, x)
           l == Len(x.data)
           c == [i \in 0 .. Len(q) + 1 |-> IF i = Len(q) + 1 THEN to + l ELSE b[i]]
<1>2. Len(q) \in Nat /\ l \in Nat
  BY LenProperties DEF ItemRecords
<1>3. /\ Len(r) = Len(q) + 1 /\ r[Len(q) + 1] = x
      /\ \A i \in 1 .. Len(q) : r[i] = q[i]
  BY AppendProperties
<1> HIDE DEF r, l
<1>4. c \in [0 .. Len(q) + 1 -> Nat]
  BY <1>1, <1>2 DEF Cuts
<1>5. c[0] = from /\ c[Len(q)] = to /\ c[Len(q) + 1] = to + l
  BY <1>1, <1>2 DEF Cuts
<1>6. ASSUME NEW i \in 1 .. Len(q) + 1
      PROVE  Run(r[i].data, c[i - 1]) /\ c[i] = c[i - 1] + Len(r[i].data)
  <2>1. CASE i = Len(q) + 1
    <3>1. i - 1 = Len(q)
      BY <1>2, <2>1
    <3>2. QED BY <1>3, <1>5, <2>1, <3>1 DEF l
  <2>2. CASE i # Len(q) + 1
    <3>1. i \in 1 .. Len(q) /\ i - 1 \in 0 .. Len(q)
      BY <1>2, <2>2
    <3>2. c[i] = b[i] /\ c[i - 1] = b[i - 1]
      BY <1>2, <3>1
    <3>3. QED BY <1>1, <1>3, <3>1, <3>2 DEF Cuts
  <2>3. QED BY <2>1, <2>2
<1> HIDE DEF c
<1>7. Cuts(c, r, from, to + l)
  BY <1>3, <1>4, <1>5, <1>6 DEF Cuts
<1>8. QED BY <1>7 DEF InOrder, r, l

\* Read takes the first item: it holds what comes next.
LEMMA TailInOrder ==
    ASSUME NEW q \in Seq(ItemRecords), q # <<>>, NEW from \in Nat, NEW to \in Nat,
           InOrder(q, from, to)
    PROVE  /\ Run(q[1].data, from)
           /\ InOrder(Tail(q), from + Len(q[1].data), to)
<1>1. PICK b : Cuts(b, q, from, to)
  BY DEF InOrder
<1> DEFINE r == Tail(q)
           c == [i \in 0 .. Len(q) - 1 |-> b[i + 1]]
<1>2. Len(q) \in Nat /\ Len(q) > 0 /\ 1 \in 1 .. Len(q) /\ 1 - 1 = 0 /\ 0 + 1 = 1
  BY EmptySeq, LenProperties
<1>3. Len(r) = Len(q) - 1 /\ \A i \in 1 .. Len(q) - 1 : r[i] = q[i + 1]
  BY HeadTailProperties
<1> HIDE DEF r
<1>4. Run(q[1].data, from) /\ b[1] = from + Len(q[1].data)
  BY <1>1, <1>2 DEF Cuts
<1>5. c \in [0 .. Len(q) - 1 -> Nat]
  BY <1>1, <1>2 DEF Cuts
<1>6. c[0] = b[1] /\ c[Len(q) - 1] = to
  BY <1>1, <1>2 DEF Cuts
<1>7. ASSUME NEW i \in 1 .. Len(q) - 1
      PROVE  Run(r[i].data, c[i - 1]) /\ c[i] = c[i - 1] + Len(r[i].data)
  <2>1. /\ i + 1 \in 1 .. Len(q) /\ (i + 1) - 1 = i /\ (i - 1) + 1 = i
        /\ i - 1 \in 0 .. Len(q) - 1 /\ i \in 0 .. Len(q) - 1
    BY <1>2, <1>7
  <2>2. c[i] = b[i + 1] /\ c[i - 1] = b[i]
    BY <2>1
  <2>3. QED BY <1>1, <1>3, <2>1, <2>2 DEF Cuts
<1> HIDE DEF c
<1>8. Cuts(c, r, from + Len(q[1].data), to)
  BY <1>3, <1>4, <1>5, <1>6, <1>7 DEF Cuts
<1>9. QED BY <1>4, <1>8 DEF InOrder, r

\* A step that leaves the downlink's pieces alone.
LEMMA DownSame ==
    ASSUME DownInv, UNCHANGED <<got, pending, queue, pump, down, sentDown>>
    PROVE  DownInv'
BY DEF DownInv, Hold

\* Read copies a run that follows what it has returned: Copy(bytes), whose rest is
\* kept, moves nothing.
LEMMA CopyFacts ==
    ASSUME H2TypeOK, NEW bytes \in Seq(Nat), Run(got, 0), Run(bytes, Len(got)), Copy(bytes)
    PROVE  /\ got' \in Seq(Nat) /\ pending' \in Seq(Nat)
           /\ Run(got', 0) /\ Run(pending', Len(got'))
           /\ Len(got') + Len(pending') = Len(got) + Len(bytes)
<1>1. PICK n \in 1 .. Len(bytes) : /\ got' = got \o SubSeq(bytes, 1, n)
                               /\ pending' = SubSeq(bytes, n + 1, Len(bytes))
  BY DEF Copy
<1>2. Len(bytes) \in Nat /\ Len(got) \in Nat /\ n \in 0 .. Len(bytes) /\ got \in Seq(Nat)
  BY LenProperties DEF H2TypeOK
<1> DEFINE s == SubSeq(bytes, 1, n)
<1>3. /\ s \in Seq(Nat) /\ Len(s) = n /\ Run(s, Len(got))
      /\ pending' \in Seq(Nat) /\ Len(pending') = Len(bytes) - n /\ Run(pending', Len(got) + n)
  BY <1>1, <1>2, RunSplit
<1> HIDE DEF s
<1>4. got' \in Seq(Nat) /\ Len(got') = Len(got) + n /\ Run(got', 0)
  BY <1>1, <1>2, <1>3, RunConcat, ZenonT(60) DEF s
<1>5. QED BY <1>2, <1>3, <1>4

\* The pump reads the body: bytes move from down to its chunk.
LEMMA PumpReadStep ==
    ASSUME H2Inv, PumpRead
    PROVE  H2TypeOK' /\ DownInv' /\ EndInv'
<1>1. PICK r \in BodyRead :
         /\ Possible(r)
         /\ pump' = [pc |-> IF r.chunk # <<>> THEN "send" ELSE "error",
                     chunk |-> r.chunk, err |-> r.err]
         /\ down' = SubSeq(down, Len(r.chunk) + 1, Len(down))
  BY DEF PumpRead
<1>2. PICK n \in 0 .. Len(down), err \in {"nil", "EOF", "reset"} :
         r = [chunk |-> SubSeq(down, 1, n), err |-> err]
  BY DEF BodyRead
<1>3. PICK e \in Nat : /\ InOrder(queue, Len(got) + Len(pending), e)
                       /\ Run(down, e) /\ sentDown = e + Len(down)
  <2>1. Hold = 0
    BY DEF Hold, PumpRead
  <2>2. PICK e \in Nat : /\ InOrder(queue, Len(got) + Len(pending), e)
                         /\ Run(down, e + 0) /\ sentDown = e + 0 + Len(down)
    BY <2>1 DEF H2Inv, DownInv
  <2>3. e + 0 = e
    OBVIOUS
  <2>4. QED BY <2>2, <2>3
<1> DEFINE s == SubSeq(down, 1, n)
           u == SubSeq(down, n + 1, Len(down))
<1>4. /\ s \in Seq(Nat) /\ Len(s) = n /\ Run(s, e)
      /\ u \in Seq(Nat) /\ Len(u) = Len(down) - n /\ Run(u, e + n)
      /\ Len(down) \in Nat /\ down \in Seq(Nat)
  BY <1>3, RunSplit, LenProperties DEF H2Inv, H2TypeOK
<1>5. s = <<>> <=> n = 0
  BY <1>4, EmptySeq
<1>6. /\ pump' = [pc |-> IF s # <<>> THEN "send" ELSE "error", chunk |-> s, err |-> err]
      /\ down' = u
  BY <1>1, <1>2, <1>4
<1> HIDE DEF s, u
<1>7. /\ pump'.pc = IF s # <<>> THEN "send" ELSE "error"
      /\ pump'.chunk = s /\ pump'.err = err
  BY <1>6
<1>8. Hold' = n
  BY <1>4, <1>5, <1>7 DEF Hold
<1>9. /\ err = "nil" => n # 0
      /\ err = "EOF" => server = "ended" /\ n = Len(down)
  <2>1. Possible([chunk |-> s, err |-> err])
    BY <1>1, <1>2 DEF s
  <2>2. /\ err = "nil" => s # <<>>
        /\ err = "EOF" => server = "ended" /\ s = down
    BY <2>1 DEF Possible
  <2>3. QED BY <1>4, <1>5, <2>2
<1>10. UNCHANGED <<dial, server, sentDown, queue, read, pending, readEOF, got, up, sentUp, gotUp>>
  BY DEF PumpRead, dialVars, readVars, upVars
<1>11. H2TypeOK'
  BY <1>4, <1>6, <1>10 DEF H2Inv, H2TypeOK
<1>12. DownInv'
  <2>1. sentDown' = e + n + Len(down')
    <3>1. PICK l \in Nat : l = Len(down)
      BY <1>4
    <3>2. Len(down') = l - n /\ sentDown' = e + l
      BY <1>3, <1>4, <1>6, <1>10, <3>1
    <3>3. n \in Nat /\ n <= l
      BY <3>1
    <3>4. QED BY <3>2, <3>3
  <2>2. Run(got', 0) /\ Run(pending', Len(got')) /\ InOrder(queue', Len(got') + Len(pending'), e)
    BY <1>3, <1>10 DEF H2Inv, DownInv
  <2>3. Run(pump'.chunk, e) /\ Run(down', e + Hold') /\ sentDown' = e + Hold' + Len(down')
    BY <1>4, <1>6, <1>7, <1>8, <2>1
  <2>4. QED BY <2>2, <2>3 DEF DownInv
<1>13. EndInv'
  <2>1. err = "EOF" => down' = <<>>
    BY <1>4, <1>6, <1>9, EmptySeq
  <2>2. ~readEOF /\ dial = "conn" /\ \A i \in 1 .. Len(queue) : queue[i].err = "nil"
    BY DEF H2Inv, EndInv, PumpRead
  <2>3. pump'.pc \in {"send", "error"} /\ (pump'.pc = "error" => pump'.err # "nil")
    BY <1>5, <1>7, <1>9
  <2>4. QED BY <1>7, <1>9, <1>10, <2>1, <2>2, <2>3 DEF H2Inv, EndInv
<1>14. QED BY <1>11, <1>12, <1>13

\* The pump queues its chunk, or the error behind it.
LEMMA PumpQueueStep ==
    ASSUME H2Inv, PumpSend \/ PumpError
    PROVE  H2TypeOK' /\ DownInv' /\ EndInv'
<1> DEFINE x == IF pump.pc = "send" THEN [data |-> pump.chunk, err |-> "nil"]
                ELSE [data |-> <<>>, err |-> pump.err]
           pc == IF pump.pc = "error" THEN "ended"
                 ELSE IF pump.err = "nil" THEN "read" ELSE "error"
<1>1. /\ pump.pc \in {"send", "error"}
      /\ queue' = Append(queue, x) /\ pump' = [pump EXCEPT !.pc = pc]
  BY DEF PumpSend, PumpError
<1>2. UNCHANGED <<dial, server, down, sentDown, read, pending, readEOF, got, up, sentUp, gotUp>>
  BY DEF PumpSend, PumpError, dialVars, readVars, upVars
<1>3. /\ x \in ItemRecords
      /\ pump.pc = "send" => x.data = pump.chunk /\ x.err = "nil"
      /\ pump.pc = "error" => x.data = <<>> /\ x.err = pump.err
  BY <1>1, EmptySeq DEF H2Inv, H2TypeOK, ItemRecords
<1>4. pc \in {"read", "error", "ended"}
  OBVIOUS
<1>5. /\ pump'.pc = pc /\ pump'.err = pump.err /\ pump'.chunk = pump.chunk
      /\ pump' \in [pc : {"none", "read", "send", "error", "ended"}, chunk : Seq(Nat),
                    err : {"nil", "EOF", "reset"}]
  BY <1>1, <1>4 DEF H2Inv, H2TypeOK
<1>6. /\ pump.pc = "error" => pc = "ended"
      /\ pump.pc = "send" => pc \in {"read", "error"}
      /\ pump.pc = "send" /\ pc = "error" => pump.err # "nil"
  OBVIOUS
<1> HIDE DEF x, pc
<1>7. /\ queue' \in Seq(ItemRecords) /\ Len(queue') = Len(queue) + 1 /\ Len(queue) \in Nat
      /\ queue'[Len(queue) + 1] = x /\ \A i \in 1 .. Len(queue) : queue'[i] = queue[i]
  BY <1>1, <1>3, AppendProperties, LenProperties DEF H2Inv, H2TypeOK
<1>8. H2TypeOK'
  BY <1>2, <1>5, <1>7 DEF H2Inv, H2TypeOK
<1>9. Len(got) + Len(pending) \in Nat /\ Len(down) \in Nat /\ Len(x.data) \in Nat
  BY <1>3, LenProperties DEF H2Inv, H2TypeOK, ItemRecords
<1>10. DownInv'
  <2>1. PICK e \in Nat : /\ InOrder(queue, Len(got) + Len(pending), e)
                         /\ pump.pc = "send" => Run(pump.chunk, e)
                         /\ Run(down, e + Hold)
                         /\ sentDown = e + Hold + Len(down)
    BY DEF H2Inv, DownInv
  <2>2. Hold = Len(x.data) /\ Run(x.data, e)
    <3>1. CASE pump.pc = "send"
      BY <1>3, <2>1, <3>1 DEF Hold
    <3>2. CASE pump.pc = "error"
      BY <1>3, <3>2 DEF Hold, Run
    <3>3. QED BY <1>1, <3>1, <3>2
  <2>3. InOrder(queue', Len(got) + Len(pending), e + Len(x.data))
    BY <1>1, <1>3, <1>9, <2>1, <2>2, AppendInOrder DEF H2Inv, H2TypeOK
  <2>4. PICK f \in Nat : f = e + Len(x.data)
    BY <1>9
  <2>5. Hold' = 0 /\ pump'.pc # "send"
    BY <1>4, <1>5 DEF Hold
  <2>6. f + 0 = f /\ sentDown = f + 0 + Len(down) /\ Run(down, f)
    BY <1>9, <2>1, <2>2, <2>4
  <2>7. Run(down', f + Hold') /\ sentDown' = f + Hold' + Len(down')
    BY <1>2, <2>5, <2>6
  <2>8. InOrder(queue', Len(got') + Len(pending'), f) /\ Run(got', 0) /\ Run(pending', Len(got'))
    BY <1>2, <2>3, <2>4 DEF H2Inv, DownInv
  <2>9. QED BY <2>5, <2>7, <2>8 DEF DownInv
<1>11. EndInv'
  <2>1. ~readEOF /\ dial = "conn" /\ \A i \in 1 .. Len(queue) : queue[i].err = "nil"
    BY <1>1 DEF H2Inv, EndInv
  <2>2. ASSUME NEW i \in 1 .. Len(queue'), queue'[i].err # "nil"
        PROVE  /\ i = Len(queue') /\ queue'[i].data = <<>>
               /\ pump'.pc = "ended" /\ pump'.err = queue'[i].err
    <3>1. i = Len(queue) + 1
      <4>1. i \in 1 .. Len(queue) + 1
        BY <1>7, <2>2
      <4>2. i \notin 1 .. Len(queue)
        BY <1>7, <2>1, <2>2
      <4>3. QED BY <1>7, <4>1, <4>2
    <3>2. pump.pc = "error"
      BY <1>1, <1>3, <1>7, <2>2, <3>1
    <3>3. QED BY <1>3, <1>5, <1>6, <1>7, <3>1, <3>2
  <2>3. /\ pump'.pc \in {"send", "error", "ended"} /\ pump'.err = "EOF" =>
              server' = "ended" /\ down' = <<>>
        /\ pump'.pc = "error" => pump'.err # "nil"
    BY <1>1, <1>2, <1>5, <1>6 DEF H2Inv, EndInv
  <2>4. QED BY <1>2, <2>1, <2>2, <2>3 DEF H2Inv, EndInv
<1>12. QED BY <1>8, <1>10, <1>11

\* Read goes on with what it has kept, or begins to wait.
LEMMA ReadCallStep ==
    ASSUME H2Inv, ReadCall
    PROVE  H2TypeOK' /\ DownInv' /\ EndInv'
<1>1. UNCHANGED <<dial, server, down, sentDown, pump, queue, readEOF, up, sentUp, gotUp>> /\ ~readEOF
  BY DEF ReadCall, dialVars, pumpVars, upVars
<1>2. CASE pending # <<>>
  <2>1. Copy(pending) /\ read' = "idle"
    BY <1>2 DEF ReadCall
  <2>2. /\ got' \in Seq(Nat) /\ pending' \in Seq(Nat)
        /\ Run(got', 0) /\ Run(pending', Len(got'))
        /\ Len(got') + Len(pending') = Len(got) + Len(pending)
    BY <2>1, CopyFacts DEF H2Inv, H2TypeOK, DownInv
  <2>3. H2TypeOK'
    BY <1>1, <2>2 DEF H2Inv, H2TypeOK
  <2>4. DownInv'
    BY <1>1, <2>2 DEF H2Inv, DownInv, Hold
  <2>5. EndInv'
    BY <1>1, <2>1 DEF H2Inv, EndInv
  <2>6. QED BY <2>3, <2>4, <2>5
<1>3. CASE pending = <<>>
  <2>1. UNCHANGED <<pending, got>>
    BY <1>3 DEF ReadCall
  <2>2. QED
    BY <1>1, <1>3, <2>1, DownSame DEF H2Inv, H2TypeOK, EndInv
<1>4. QED BY <1>2, <1>3

\* Read takes an item: bytes, or the error that ends the stream.
LEMMA ReadTakesStep ==
    ASSUME H2Inv, ReadTakes
    PROVE  H2TypeOK' /\ DownInv' /\ EndInv'
<1>1. /\ queue # <<>> /\ queue' = Tail(queue) /\ read' = "idle" /\ pending = <<>>
      /\ UNCHANGED <<dial, server, down, sentDown, pump, up, sentUp, gotUp>>
  BY DEF ReadTakes, dialVars, upVars, H2Inv, EndInv
<1> DEFINE x == queue[1]
           bytes == x.data
<1>2. /\ Head(queue) = x /\ x \in ItemRecords /\ queue' \in Seq(ItemRecords)
      /\ Len(queue) \in Nat /\ Len(queue) > 0 /\ Len(queue') = Len(queue) - 1
      /\ \A i \in 1 .. Len(queue) - 1 : queue'[i] = queue[i + 1]
  BY <1>1, HeadTailProperties, EmptySeq, LenProperties DEF H2Inv, H2TypeOK
<1>3. bytes \in Seq(Nat) /\ Len(bytes) \in Nat /\ Len(got) \in Nat /\ Len(pending) = 0
  BY <1>1, <1>2, LenProperties DEF H2Inv, H2TypeOK, ItemRecords
<1>4. PICK e \in Nat : /\ InOrder(queue, Len(got) + Len(pending), e)
                       /\ pump.pc = "send" => Run(pump.chunk, e)
                       /\ Run(down, e + Hold)
                       /\ sentDown = e + Hold + Len(down)
  BY DEF H2Inv, DownInv
<1>5. Run(bytes, Len(got)) /\ InOrder(queue', Len(got) + Len(bytes), e)
  <2>1. Len(got) + Len(pending) = Len(got)
    BY <1>3
  <2>2. QED BY <1>1, <1>3, <1>4, <2>1, TailInOrder DEF H2Inv, H2TypeOK
<1>6. Hold' = Hold
  BY <1>1 DEF Hold
<1>7. \A i \in 1 .. Len(queue') : queue'[i].err # "nil" =>
          /\ i = Len(queue') /\ queue'[i].data = <<>>
          /\ pump.pc = "ended" /\ pump.err = queue'[i].err
  <2> SUFFICES ASSUME NEW i \in 1 .. Len(queue'), queue'[i].err # "nil"
               PROVE  /\ i = Len(queue') /\ queue'[i].data = <<>>
                      /\ pump.pc = "ended" /\ pump.err = queue'[i].err
    OBVIOUS
  <2>1. i + 1 \in 1 .. Len(queue) /\ queue'[i] = queue[i + 1]
    BY <1>2
  <2>2. /\ i + 1 = Len(queue) /\ queue[i + 1].data = <<>>
        /\ pump.pc = "ended" /\ pump.err = queue[i + 1].err
    BY <2>1 DEF H2Inv, EndInv
  <2>3. QED BY <1>2, <2>1, <2>2
<1>8. CASE x.err = "nil"
  <2>1. Copy(bytes) /\ UNCHANGED readEOF
    BY <1>2, <1>8 DEF ReadTakes
  <2>2. ~readEOF
    BY <1>1 DEF H2Inv, EndInv
  <2> HIDE DEF bytes
  <2>3. /\ got' \in Seq(Nat) /\ pending' \in Seq(Nat)
        /\ Run(got', 0) /\ Run(pending', Len(got'))
        /\ Len(got') + Len(pending') = Len(got) + Len(bytes)
    BY <1>3, <1>5, <2>1, CopyFacts DEF H2Inv, DownInv
  <2>4. H2TypeOK'
    BY <1>1, <1>2, <2>3 DEF H2Inv, H2TypeOK
  <2>5. DownInv'
    BY <1>1, <1>4, <1>5, <1>6, <2>3 DEF DownInv
  <2>6. EndInv'
    BY <1>1, <1>7, <2>1, <2>2 DEF H2Inv, EndInv
  <2>7. QED BY <2>4, <2>5, <2>6
<1>9. CASE x.err # "nil"
  <2>1. UNCHANGED <<pending, got>> /\ readEOF' = (x.err = "EOF")
    BY <1>2, <1>9 DEF ReadTakes
  <2>2. 1 \in 1 .. Len(queue)
    BY <1>2
  <2>3. 1 = Len(queue) /\ bytes = <<>> /\ pump.pc = "ended" /\ pump.err = x.err
    BY <1>9, <2>2 DEF H2Inv, EndInv
  <2>4. queue' = <<>> /\ Len(bytes) = 0
    <3>1. Len(queue) = 1
      BY <2>3
    <3>2. Len(queue') = 1 - 1
      BY <1>2, <3>1
    <3>3. queue' = <<>>
      BY <1>2, <3>2, EmptySeq
    <3>4. QED BY <2>3, <3>3
  <2>5. H2TypeOK'
    BY <1>1, <1>2, <2>1 DEF H2Inv, H2TypeOK
  <2>6. Len(got') + Len(pending') = Len(got) + Len(bytes)
    BY <1>3, <2>1, <2>4
  <2> HIDE DEF bytes
  <2>7. Run(got', 0) /\ Run(pending', Len(got'))
    BY <2>1 DEF H2Inv, DownInv
  <2>8. DownInv'
    BY <1>1, <1>4, <1>5, <1>6, <2>6, <2>7 DEF DownInv
  <2>9. EndInv'
    BY <1>1, <1>7, <2>1, <2>3, <2>4 DEF H2Inv, EndInv
  <2>10. QED BY <2>5, <2>8, <2>9
<1>10. QED BY <1>8, <1>9

\* The server writes: the byte goes behind the others.
LEMMA ServerWritesStep ==
    ASSUME H2Inv, ServerWrites
    PROVE  H2TypeOK' /\ DownInv' /\ EndInv'
<1>1. /\ server = "open" /\ sentDown' = sentDown + 1 /\ down' = Append(down, sentDown + 1)
      /\ UNCHANGED <<dial, server, pump, queue, read, pending, readEOF, got, up, sentUp, gotUp>>
  BY DEF ServerWrites, dialVars, pumpVars, readVars, upVars
<1>2. /\ down' \in Seq(Nat) /\ Len(down') = Len(down) + 1 /\ Len(down) \in Nat
      /\ down'[Len(down) + 1] = sentDown + 1
      /\ \A k \in 1 .. Len(down) : down'[k] = down[k]
  BY <1>1, AppendProperties, LenProperties DEF H2Inv, H2TypeOK
<1>3. H2TypeOK'
  BY <1>1, <1>2 DEF H2Inv, H2TypeOK
<1>4. PICK e \in Nat : /\ InOrder(queue, Len(got) + Len(pending), e)
                       /\ pump.pc = "send" => Run(pump.chunk, e)
                       /\ Run(down, e + Hold)
                       /\ sentDown = e + Hold + Len(down)
  BY DEF H2Inv, DownInv
<1>5. Hold' = Hold /\ Hold \in Nat
  BY <1>1, LenProperties DEF Hold, H2Inv, H2TypeOK
<1>6. PICK h \in Nat : h = Hold
  BY <1>5
<1>7. Run(down', e + h)
  <2>1. ASSUME NEW k \in 1 .. Len(down) + 1 PROVE down'[k] = (e + h) + k
    <3>1. CASE k = Len(down) + 1
      BY <1>2, <1>4, <1>6, <3>1
    <3>2. CASE k # Len(down) + 1
      <4>1. k \in 1 .. Len(down)
        BY <1>2, <3>2
      <4>2. QED BY <1>2, <1>4, <1>6, <4>1 DEF Run
    <3>3. QED BY <3>1, <3>2
  <2>2. QED BY <1>2, <2>1 DEF Run
<1>8. sentDown' = e + h + Len(down')
  BY <1>1, <1>2, <1>4, <1>6
<1>9. DownInv'
  <2>1. Run(got', 0) /\ Run(pending', Len(got'))
    BY <1>1 DEF H2Inv, DownInv
  <2>2. InOrder(queue', Len(got') + Len(pending'), e) /\ (pump'.pc = "send" => Run(pump'.chunk, e))
    BY <1>1, <1>4
  <2>3. Run(down', e + Hold') /\ sentDown' = e + Hold' + Len(down')
    BY <1>5, <1>6, <1>7, <1>8
  <2>4. QED BY <2>1, <2>2, <2>3 DEF DownInv
<1>10. EndInv'
  BY <1>1 DEF H2Inv, EndInv
<1>11. QED BY <1>3, <1>9, <1>10

\* The uplink: what the server has read and what is on its way is what was
\* written, and after the end nothing is.
LEMMA UpStep ==
    ASSUME H2Inv, H2Write \/ ServerReads
    PROVE  H2Inv'
<1>1. UNCHANGED <<dial, server, down, sentDown, pump, queue, read, pending, readEOF, got, pw>>
  BY DEF H2Write, ServerReads, dialVars, pumpVars, readVars
<1>2. DownInv' /\ EndInv'
  BY <1>1, DownSame DEF H2Inv, EndInv
<1>3. Len(up) \in Nat /\ up \in Seq(Nat)
  BY LenProperties DEF H2Inv, H2TypeOK
<1>4. CASE H2Write
  <2>1. pw /\ sentUp' = sentUp + 1 /\ up' = Append(up, sentUp + 1) /\ UNCHANGED <<gotUp, serverEOF>>
    BY <1>4 DEF H2Write
  <2>2. up' \in Seq(Nat) /\ Len(up') = Len(up) + 1
    BY <2>1, <1>3, AppendProperties DEF H2Inv, H2TypeOK
  <2>3. H2TypeOK'
    BY <1>1, <2>1, <2>2 DEF H2Inv, H2TypeOK
  <2>4. UpInv'
    <3>1. sentUp' = gotUp' + Len(up')
      BY <1>3, <2>1, <2>2 DEF H2Inv, H2TypeOK, UpInv
    <3>2. ~serverEOF'
      BY <2>1 DEF H2Inv, UpInv
    <3>3. QED BY <3>1, <3>2 DEF UpInv
  <2>5. QED BY <1>2, <2>3, <2>4 DEF H2Inv
<1>5. CASE ServerReads
  <2>1. ~serverEOF /\ sentUp' = sentUp
    BY <1>5 DEF ServerReads
  <2>2. CASE up # <<>>
    <3>1. up' = Tail(up) /\ gotUp' = gotUp + 1 /\ serverEOF' = serverEOF
      BY <1>5, <2>2 DEF ServerReads
    <3>2. up' \in Seq(Nat) /\ Len(up') = Len(up) - 1
      BY <1>3, <2>2, <3>1, HeadTailProperties
    <3>3. H2TypeOK'
      BY <1>1, <2>1, <3>1, <3>2 DEF H2Inv, H2TypeOK
    <3>4. UpInv'
      <4>1. sentUp' = gotUp' + Len(up')
        BY <1>3, <2>1, <3>1, <3>2 DEF H2Inv, H2TypeOK, UpInv
      <4>2. QED BY <2>1, <3>1, <4>1 DEF UpInv
    <3>5. QED BY <1>2, <3>3, <3>4 DEF H2Inv
  <2>3. CASE up = <<>>
    <3>1. ~pw /\ UNCHANGED <<up, gotUp>>
      BY <1>5, <2>3 DEF ServerReads
    <3>2. QED BY <1>1, <1>2, <2>1, <2>3, <3>1 DEF H2Inv, H2TypeOK, UpInv
  <2>4. QED BY <2>2, <2>3
<1>6. QED BY <1>4, <1>5

\* The remaining steps: Dial, the deadlines, Close and the fate of the server.
LEMMA H2OtherStep ==
    ASSUME H2Inv,
           \/ StartDial \/ CtxEnds \/ WatchWakes \/ WatchCancels \/ ServerOpens
           \/ DoReturns \/ DialEnds \/ ReadTimeout \/ CloseWrite \/ H2Close
           \/ ServerCloses \/ ConnectionLost
           \/ \E t \in {"zero", "future", "past"} : SetReadDeadline(t)
    PROVE  H2Inv'
<1>1. /\ UNCHANGED <<down, sentDown, queue, pending, readEOF, got, up, sentUp, gotUp, serverEOF>>
      /\ ~pw => ~pw'
      /\ server = "ended" => server' = "ended"
      /\ read' \in {read, "idle"}
  BY DEF StartDial, CtxEnds, WatchWakes, WatchCancels, ServerOpens, DoReturns, DialEnds,
         ReadTimeout, CloseWrite, H2Close, ServerCloses, ConnectionLost, SetReadDeadline,
         dialVars, pumpVars, readVars, upVars
<1>2. \/ pump' = pump /\ (dial' # "conn" \/ dial = "conn") /\ (dial = "conn" => dial' = "conn")
      \/ DialEnds
  BY DEF StartDial, CtxEnds, WatchWakes, WatchCancels, ServerOpens, DoReturns,
         ReadTimeout, CloseWrite, H2Close, ServerCloses, ConnectionLost, SetReadDeadline,
         dialVars, pumpVars, readVars, upVars
<1>3. UpInv'
  BY <1>1 DEF H2Inv, UpInv
<1>4. CASE pump' = pump /\ (dial' # "conn" \/ dial = "conn") /\ (dial = "conn" => dial' = "conn")
  BY <1>1, <1>3, <1>4, DownSame DEF H2Inv, H2TypeOK, EndInv
<1>5. CASE DialEnds
  <2>1. pump.pc = "none" /\ dial \in {"ok", "status", "error"}
    BY <1>5 DEF DialEnds, H2Inv, EndInv
  <2>2. CASE dial = "ok"
    <3>1. pump' = [pump EXCEPT !.pc = "read"] /\ dial' = "conn"
      BY <1>5, <2>2 DEF DialEnds
    <3>2. /\ pump'.pc = "read"
          /\ pump' \in [pc : {"none", "read", "send", "error", "ended"}, chunk : Seq(Nat),
                        err : {"nil", "EOF", "reset"}]
      BY <3>1 DEF H2Inv, H2TypeOK
    <3>3. Hold = 0 /\ Hold' = 0
      BY <2>1, <3>2 DEF Hold
    <3>4. DownInv'
      BY <1>1, <3>2, <3>3 DEF H2Inv, DownInv
    <3>5. EndInv'
      BY <1>1, <2>1, <3>1, <3>2 DEF H2Inv, EndInv
    <3>6. QED BY <1>1, <1>3, <3>2, <3>4, <3>5 DEF H2Inv, H2TypeOK
  <2>3. CASE dial # "ok"
    <3>1. pump' = pump
      BY <1>5, <2>3 DEF DialEnds
    <3>2. QED BY <1>1, <1>3, <2>1, <3>1, DownSame DEF H2Inv, H2TypeOK, EndInv
  <2>4. QED BY <2>2, <2>3
<1>6. QED BY <1>2, <1>4, <1>5

\* What Read returns through the pump's queue, cut anywhere and timed out at any
\* moment, is what the server wrote, in order; EOF is reported only after all of
\* it, in both directions: clientStreamConn.Read and serverStreamConn of h2.
THEOREM EndOfStreamIsTrue == OutSpec => []EofIsTrue
<1>1. OutInit => H2Inv
  <2> SUFFICES ASSUME OutInit PROVE H2Inv
    OBVIOUS
  <2> USE DEF OutInit, H2Init
  <2>1. <<>> \in Seq(Nat) /\ <<>> \in Seq(ItemRecords) /\ Len(<<>>) = 0
    BY EmptySeq
  <2>2. H2TypeOK
    BY <2>1 DEF H2TypeOK
  <2>3. Hold = 0
    BY DEF Hold
  <2>4. InOrder(<<>>, 0, 0)
    BY EmptyInOrder
  <2>5. DownInv
    <3>1. Run(<<>>, 0)
      BY DEF Run
    <3>2. 0 + 0 = 0 /\ 0 + 0 + 0 = 0 /\ 0 \in Nat
      OBVIOUS
    <3>3. QED BY <2>1, <2>3, <2>4, <3>1, <3>2 DEF DownInv
  <2>6. EndInv /\ UpInv
    BY <2>1 DEF EndInv, UpInv
  <2>7. QED BY <2>2, <2>5, <2>6 DEF H2Inv
<1>2. H2Inv /\ [OutNext]_outVars => H2Inv'
  <2>1. ASSUME H2Inv, UNCHANGED h2Vars PROVE H2Inv'
    BY <2>1, DownSame DEF h2Vars, H2Inv, H2TypeOK, EndInv, UpInv
  <2>2. ASSUME H2Inv, PumpSteps \/ ReadCall \/ ReadTakes \/ ServerWrites PROVE H2Inv'
    <3>1. H2TypeOK' /\ DownInv' /\ EndInv'
      BY <2>2, PumpReadStep, PumpQueueStep, ReadCallStep, ReadTakesStep, ServerWritesStep
         DEF PumpSteps
    <3>2. UNCHANGED <<up, sentUp, gotUp, serverEOF, pw>>
      BY <2>2 DEF PumpSteps, PumpRead, PumpSend, PumpError, ReadCall, ReadTakes, ServerWrites, upVars
    <3>3. QED BY <2>2, <3>1, <3>2 DEF H2Inv, UpInv
  <2>3. ASSUME H2Inv, H2Next PROVE H2Inv'
    BY <2>2, <2>3, UpStep, H2OtherStep DEF H2Next
  <2>4. QED
    BY <2>1, <2>3 DEF OutNext, outVars
<1>3. H2Inv => EofIsTrue
  <2> SUFFICES ASSUME H2Inv PROVE EofIsTrue
    OBVIOUS
  <2>1. \A i \in DOMAIN got : got[i] = i
    <3>1. DOMAIN got = 1 .. Len(got) /\ \A i \in 1 .. Len(got) : 0 + i = i
      BY LenProperties DEF H2Inv, H2TypeOK
    <3>2. QED BY <3>1 DEF H2Inv, DownInv, Run
  <2>2. ASSUME readEOF PROVE server = "ended" /\ Len(got) = sentDown
    <3>1. /\ pump.pc = "ended" /\ queue = <<>> /\ pending = <<>>
          /\ server = "ended" /\ down = <<>>
      BY <2>2 DEF H2Inv, EndInv
    <3>2. Len(down) = 0 /\ Len(pending) = 0 /\ Len(got) \in Nat /\ Hold = 0
      BY <3>1, LenProperties DEF Hold, H2Inv, H2TypeOK
    <3>3. PICK e \in Nat : InOrder(<<>>, Len(got) + Len(pending), e) /\ sentDown = e + Hold + Len(down)
      BY <3>1 DEF H2Inv, DownInv
    <3>4. Len(got) + Len(pending) = Len(got)
      BY <3>2
    <3>5. Len(got) = e
      BY <3>2, <3>3, <3>4, EmptyInOrder
    <3>6. QED BY <3>1, <3>2, <3>3, <3>5
  <2>3. serverEOF => ~pw /\ gotUp = sentUp
    <3>1. up = <<>> => Len(up) = 0
      OBVIOUS
    <3>2. QED BY <3>1 DEF H2Inv, H2TypeOK, UpInv
  <2>4. QED BY <2>1, <2>2, <2>3 DEF EofIsTrue
<1>4. QED
  BY <1>1, <1>2, <1>3, PTL DEF OutSpec
=============================================================================
