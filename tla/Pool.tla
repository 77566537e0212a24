-------------------------------- MODULE Pool --------------------------------
(***************************************************************************)
(* The dial side of the multiplexing transports.  A transport keeps one    *)
(* session per address and every Dial opens a stream on it; the pool is    *)
(* looked up under a mutex, the session is judged and dialled outside it,  *)
(* and a dead session is taken out again.                                  *)
(*                                                                         *)
(*   src/internal/transport/kcp/kcp.go     (Dial, getPooled, drop)         *)
(*   src/internal/transport/quic/quic.go   (Dial, getPooled, drop)         *)
(*                                                                         *)
(* smux and quic-go are external: a session is open until it dies or is    *)
(* closed, and opening a stream fails on a dead session, at the caller's   *)
(* deadline or at a limit of the library.  A Go mutex has no owner:        *)
(* Unlock releases it for whoever holds it and ends the process if nobody  *)
(* does.                                                                   *)
(***************************************************************************)
EXTENDS Naturals, FiniteSets

CONSTANTS Dialers,    \* goroutines that call Dial
          Addrs,
          Sessions,   \* bound: the sessions that are ever dialled
          Kinds       \* the transports of this instance

None == "none"

ASSUME PoolAssumption ==
    /\ Kinds \subseteq {"kcp", "quic"}
    /\ None \notin Addrs \cup Sessions

VARIABLES kind,    \* the transport
          mu,      \* the mutex is held
          pool,    \* t.sessions, t.conns
          sess,    \* per session: what became of it
          done,    \* the quic entries whose done is closed
          d,       \* per goroutine: where it is in Dial
          dropped, \* sessions that drop took out of the pool
          stray,   \* somebody unlocked a mutex it did not hold
          fatal    \* the process has ended: unlock of unlocked mutex

vars == <<kind, mu, pool, sess, done, d, dropped, stray, fatal>>

Idle == [pc |-> "idle", addr |-> None, cur |-> None, mine |-> None]

Init ==
    /\ kind \in Kinds
    /\ mu = FALSE
    /\ pool = [a \in Addrs |-> None]
    /\ sess = [s \in Sessions |-> "unused"]
    /\ done = {} /\ dropped = {}
    /\ d = [p \in Dialers |-> Idle]
    /\ stray = FALSE /\ fatal = FALSE

At(p, pc) == d[p].pc = pc /\ ~fatal
Goto(p, pc) == d' = [d EXCEPT ![p].pc = pc]
Pooled(p) == pool[d[p].addr]

\* After Lock a goroutine goes on here.
Critical == [lock |-> "look", dropDead |-> "dead", dropFailed |-> "failing",
             publish |-> "insert", relock |-> "overwrite"]

Lock(p) ==
    /\ d[p].pc \in DOMAIN Critical /\ ~fatal
    /\ ~mu /\ mu' = TRUE
    /\ Goto(p, Critical[d[p].pc])
    /\ UNCHANGED <<kind, pool, sess, done, dropped, stray, fatal>>

\* The Unlock that ends a critical section.
Unlock ==
    /\ mu' = FALSE
    /\ fatal' = ~mu
    /\ UNCHANGED <<kind, stray>>

-----------------------------------------------------------------------------
Dial(p, a) ==
    /\ At(p, "idle")
    /\ d' = [d EXCEPT ![p] = [pc |-> "lock", addr |-> a, cur |-> None, mine |-> None]]
    /\ UNCHANGED <<kind, mu, pool, sess, done, dropped, stray, fatal>>

LookUp(p) ==
    /\ At(p, "look")
    /\ d' = [d EXCEPT ![p].cur = Pooled(p),
                      ![p].pc = IF Pooled(p) = None THEN "dial" ELSE "check"]
    /\ Unlock
    /\ UNCHANGED <<pool, sess, done, dropped>>

\* Judged outside the lock: kcp asks the session, quic the entry.
Check(p) ==
    /\ At(p, "check")
    /\ Goto(p, CASE kind = "kcp" /\ sess[d[p].cur] = "dead" -> "dropDead"
                 [] kind = "quic" /\ d[p].cur \in done -> "unlock"
                 [] OTHER -> "open")
    /\ UNCHANGED <<kind, mu, pool, sess, done, dropped, stray, fatal>>

\* The Unlock in front of the dial, reached with a dead session: it is the
\* second one for the one Lock.
SecondUnlock(p) ==
    /\ At(p, "unlock")
    /\ Goto(p, "dial")
    /\ mu' = FALSE
    /\ stray' = TRUE /\ fatal' = ~mu
    /\ UNCHANGED <<kind, pool, sess, done, dropped>>

DialSession(p, s) ==
    /\ At(p, "dial") /\ sess[s] = "unused"
    /\ sess' = [sess EXCEPT ![s] = "open"]
    /\ d' = [d EXCEPT ![p].mine = s, ![p].pc = "publish"]
    /\ UNCHANGED <<kind, mu, pool, done, dropped, stray, fatal>>

DialFails(p) ==
    /\ At(p, "dial")
    /\ Goto(p, "failed")
    /\ UNCHANGED <<kind, mu, pool, sess, done, dropped, stray, fatal>>

\* dialKCP returns at its deadline; kcp.Dial, in its goroutine, still comes back
\* with a connection that nobody reads from the channel.
DialLate(p, s) ==
    /\ At(p, "dial") /\ kind = "kcp" /\ sess[s] = "unused"
    /\ sess' = [sess EXCEPT ![s] = "orphan"]
    /\ Goto(p, "failed")
    /\ UNCHANGED <<kind, mu, pool, done, dropped, stray, fatal>>

\* Another Dial was faster: keep its session (quic goes on outside the lock).
\* Mutant: the new session always replaces the pooled one.
Keeps_Never(p) == FALSE

Keeps(p) ==
    /\ Pooled(p) # None
    /\ kind = "quic" \/ sess[Pooled(p)] = "open"

\* Mutant: the branch that keeps the pooled session forgets to unlock.
Insert_KeepsLock(p) ==
    /\ At(p, "insert")
    /\ IF Keeps(p)
       THEN /\ d' = [d EXCEPT ![p].cur = Pooled(p),
                              ![p].pc = IF kind = "kcp" THEN "discard" ELSE "recheck"]
            /\ UNCHANGED <<pool, kind, mu, stray, fatal>>
       ELSE /\ pool' = [pool EXCEPT ![d[p].addr] = d[p].mine]
            /\ d' = [d EXCEPT ![p].cur = d[p].mine, ![p].pc = "open"]
            /\ Unlock
    /\ UNCHANGED <<sess, done, dropped>>

Insert(p) ==
    /\ At(p, "insert") \/ At(p, "overwrite")
    /\ IF At(p, "insert") /\ Keeps(p)
       THEN /\ d' = [d EXCEPT ![p].cur = Pooled(p),
                              ![p].pc = IF kind = "kcp" THEN "discard" ELSE "recheck"]
            /\ UNCHANGED pool
       ELSE /\ pool' = [pool EXCEPT ![d[p].addr] = d[p].mine]
            /\ d' = [d EXCEPT ![p].cur = d[p].mine, ![p].pc = "open"]
    /\ Unlock
    /\ UNCHANGED <<sess, done, dropped>>

\* quic's second look at the entry it keeps.
Recheck(p) ==
    /\ At(p, "recheck")
    /\ Goto(p, IF d[p].cur \in done THEN "relock" ELSE "discard")
    /\ UNCHANGED <<kind, mu, pool, sess, done, dropped, stray, fatal>>

\* Mutant: the session dialled in vain stays open.
Discard_Leaks(p) ==
    /\ At(p, "discard")
    /\ Goto(p, "open")
    /\ UNCHANGED <<kind, mu, pool, sess, done, dropped, stray, fatal>>

Discard(p) ==
    /\ At(p, "discard")
    /\ sess' = [sess EXCEPT ![d[p].mine] = "dead"]
    /\ done' = IF kind = "quic" THEN done \cup {d[p].mine} ELSE done
    /\ Goto(p, "open")
    /\ UNCHANGED <<kind, mu, pool, dropped, stray, fatal>>

OpenStream(p) ==
    /\ At(p, "open") /\ sess[d[p].cur] = "open"
    /\ Goto(p, "ok")
    /\ UNCHANGED <<kind, mu, pool, sess, done, dropped, stray, fatal>>

\* On a dead session, or at a deadline or limit on one that is alive.
OpenFails(p) ==
    /\ At(p, "open")
    /\ Goto(p, "dropFailed")
    /\ UNCHANGED <<kind, mu, pool, sess, done, dropped, stray, fatal>>

\* kcp closes the session, for all who use it; quic only forgets it.
Drop(p) ==
    /\ At(p, "dead") \/ At(p, "failing")
    /\ pool' = IF Pooled(p) = d[p].cur THEN [pool EXCEPT ![d[p].addr] = None] ELSE pool
    /\ dropped' = dropped \cup {d[p].cur}
    /\ sess' = IF kind = "kcp" THEN [sess EXCEPT ![d[p].cur] = "dead"] ELSE sess
    /\ Goto(p, IF At(p, "dead") THEN "unlock" ELSE "failed")
    /\ Unlock
    /\ UNCHANGED done

-----------------------------------------------------------------------------
\* The peer goes away, or the keepalive gives up.
SessionDies(s) ==
    /\ ~fatal /\ sess[s] = "open"
    /\ sess' = [sess EXCEPT ![s] = "dead"]
    /\ UNCHANGED <<kind, mu, pool, done, d, dropped, stray, fatal>>

\* The caller has had its stream, or its error, and may dial again.
Again(p) ==
    /\ At(p, "ok") \/ At(p, "failed")
    /\ d' = [d EXCEPT ![p] = Idle]
    /\ UNCHANGED <<kind, mu, pool, sess, done, dropped, stray, fatal>>

Progress(p) ==
    \/ LookUp(p) \/ Check(p) \/ SecondUnlock(p)
    \/ (\E s \in Sessions : DialSession(p, s) \/ DialLate(p, s)) \/ DialFails(p)
    \/ Insert(p) \/ Recheck(p) \/ Discard(p)
    \/ OpenStream(p) \/ OpenFails(p) \/ Drop(p)

Next ==
    \/ \E p \in Dialers : Lock(p) \/ Progress(p) \/ Again(p)
                          \/ \E a \in Addrs : Dial(p, a)
    \/ \E s \in Sessions : SessionDies(s)

Spec == Init /\ [][Next]_vars

\* Every goroutine runs, and a Go mutex is handed to its longest waiter.
FairSpec == Spec /\ \A p \in Dialers : WF_vars(Progress(p)) /\ SF_vars(Lock(p))

-----------------------------------------------------------------------------
Places == {"idle", "look", "dead", "failing", "insert", "overwrite", "check",
           "unlock", "dial", "recheck", "discard", "open", "ok", "failed"}
          \cup DOMAIN Critical

TypeOK ==
    /\ kind \in Kinds
    /\ mu \in BOOLEAN /\ stray \in BOOLEAN /\ fatal \in BOOLEAN
    /\ pool \in [Addrs -> Sessions \cup {None}]
    /\ sess \in [Sessions -> {"unused", "open", "orphan", "dead"}]
    /\ done \subseteq Sessions /\ dropped \subseteq Sessions
    /\ d \in [Dialers -> [pc : Places, addr : Addrs \cup {None},
                          cur : Sessions \cup {None}, mine : Sessions \cup {None}]]

\* The second Unlock of getPooled is reached only in kcp and only after a
\* session has died or was dropped: quic closes an entry's done only when the
\* entry was never pooled, so that nobody finds it closed.
UnlockSound ==
    stray \/ fatal => kind = "kcp" /\ \E s \in Sessions : sess[s] = "dead"

\* Concurrent Dials of one address share one session: a session that getPooled
\* has returned and that still lives is the pooled one, unless drop has taken it
\* out (or a stray Unlock has let two goroutines into the pool).
Shared ==
    stray \/ \A p \in Dialers :
        /\ d[p].pc \in {"open", "ok"}
        /\ sess[d[p].cur] = "open"
        /\ d[p].cur \notin dropped
        => Pooled(p) = d[p].cur

\* No session is left open that nobody can reach: an open one is pooled, or in
\* the hands of the Dial that made it, or was forgotten by quic's drop (or was
\* overwritten after a stray Unlock).
NoLostSession ==
    stray \/ \A s \in Sessions : sess[s] = "open" =>
        \/ \E a \in Addrs : pool[a] = s
        \/ \E p \in Dialers : d[p].mine = s
                              /\ d[p].pc \in {"publish", "insert", "recheck", "relock",
                                              "overwrite", "discard"}
        \/ kind = "quic" /\ s \in dropped

\* Every Dial returns, or the process has ended: no path through getPooled and
\* drop keeps the mutex.
DialReturns ==
    \A p \in Dialers : d[p].pc # "idle" ~> d[p].pc \in {"ok", "failed"} \/ fatal

\* "Dead sessions are rebuilt automatically": meeting one does no harm.
DeadIsRebuilt == ~fatal
=============================================================================
