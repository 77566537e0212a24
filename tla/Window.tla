------------------------------- MODULE Window -------------------------------
(***************************************************************************)
(* The per-connection send window of the star protocol                     *)
(* (src/protocol/star/window.go).  A sender calls Acquire(n) before it     *)
(* sends n bytes; the peer's WindowUpdate frames call Release; tearing the *)
(* connection down calls Close.  Every critical section of w.mu is one     *)
(* action.  The wake-up tokens are sent after w.mu is released, one        *)
(* channel at a time, so each send is an action of its own.                *)
(*                                                                         *)
(* Each park makes a fresh channel: channel <<c, k>> is the k-th one caller*)
(* c made.  A cancelled caller leaves its channel behind in notify.        *)
(***************************************************************************)
EXTENDS Integers, FiniteSets

CONSTANTS Callers,      \* goroutines that call Acquire on this window
          Limit,        \* w.limit (DefaultStreamWindow in the program)
          Sizes,        \* the n of Acquire calls
          MaxCalls,     \* bound: Acquire calls per caller
          MaxSurplus,   \* bound: credit the peer returns ahead of what it got
          MayCancel,    \* whether the callers' contexts may be cancelled
          MayClose      \* whether the connection may be torn down

ASSUME WindowAssumption ==
    /\ Limit \in Nat \ {0}
    /\ Sizes \subseteq Nat
    /\ MaxCalls \in Nat
    /\ MaxSurplus \in Nat
    /\ MayCancel \in BOOLEAN
    /\ MayClose \in BOOLEAN

VARIABLES outstanding,  \* w.outstanding; negative when credit came ahead
          closed,       \* w.closed
          notify,       \* channels listed in w.notify
          waking,       \* channels a Release or Close took off w.notify and
                        \* has not signalled yet
          token,        \* channels that hold a token
          pc,           \* "idle", "loop" (before w.mu.Lock) or "parked"
          need,         \* the n still to be taken by the current call
          taken,        \* what the current call has taken so far
          ch,           \* number of channels each caller has made
          calls,        \* number of Acquire calls each caller has made
          inflight,     \* bytes of completed calls: sent, credit not returned
          surplus       \* credit returned ahead of consumption

windowVars == <<outstanding, closed, notify, waking, token, pc, need, taken, ch,
          calls, inflight, surplus>>

Channels == Callers \X Nat

min64(a, b) == IF a < b THEN a ELSE b

\* The channel caller c waits on while it is parked.
Chan(c) == <<c, ch[c]>>

-----------------------------------------------------------------------------
WindowInit ==
    /\ outstanding = 0
    /\ closed = FALSE
    /\ notify = {}
    /\ waking = {}
    /\ token = {}
    /\ pc = [c \in Callers |-> "idle"]
    /\ need = [c \in Callers |-> 0]
    /\ taken = [c \in Callers |-> 0]
    /\ ch = [c \in Callers |-> 0]
    /\ calls = [c \in Callers |-> 0]
    /\ inflight = 0
    /\ surplus = 0

Acquire(c, n) ==
    /\ pc[c] = "idle"
    /\ calls[c] < MaxCalls
    /\ calls' = [calls EXCEPT ![c] = @ + 1]
    /\ pc' = [pc EXCEPT ![c] = "loop"]
    /\ need' = [need EXCEPT ![c] = n]
    /\ taken' = [taken EXCEPT ![c] = 0]
    /\ UNCHANGED <<outstanding, closed, notify, waking, token, ch, inflight,
                   surplus>>

\* Acquire returns ErrWindowClosed.  What it took before stays accounted.
FailClosed(c) ==
    /\ pc[c] = "loop"
    /\ closed
    /\ pc' = [pc EXCEPT ![c] = "idle"]
    /\ UNCHANGED <<outstanding, closed, notify, waking, token, need, taken,
                   ch, calls, inflight, surplus>>

\* Mutant: any free byte counts as enough.
HasCredit_Any(c) == outstanding < Limit

\* The test of Acquire, with n capped at the window.
HasCredit(c) == outstanding + min64(need[c], Limit) <= Limit

\* Take up to Limit bytes; the call returns once nothing remains to be taken,
\* and its caller then sends the bytes.
Take(c) ==
    /\ pc[c] = "loop"
    /\ ~closed
    /\ HasCredit(c)
    /\ LET take == min64(need[c], Limit) IN
          /\ outstanding' = outstanding + take
          /\ need' = [need EXCEPT ![c] = @ - take]
          /\ taken' = [taken EXCEPT ![c] = @ + take]
          /\ IF need[c] - take <= 0
             THEN /\ pc' = [pc EXCEPT ![c] = "idle"]
                  /\ inflight' = inflight + taken[c] + take
             ELSE UNCHANGED <<pc, inflight>>
    /\ UNCHANGED <<closed, notify, waking, token, ch, calls, surplus>>

Park(c) ==
    /\ pc[c] = "loop"
    /\ ~closed
    /\ ~HasCredit(c)
    /\ ch' = [ch EXCEPT ![c] = @ + 1]
    /\ notify' = notify \union {<<c, ch[c] + 1>>}
    /\ pc' = [pc EXCEPT ![c] = "parked"]
    /\ UNCHANGED <<outstanding, closed, waking, token, need, taken, calls,
                   inflight, surplus>>

\* case <-ch
Wake(c) ==
    /\ pc[c] = "parked"
    /\ Chan(c) \in token
    /\ token' = token \ {Chan(c)}
    /\ pc' = [pc EXCEPT ![c] = "loop"]
    /\ UNCHANGED <<outstanding, closed, notify, waking, need, taken, ch,
                   calls, inflight, surplus>>

\* case <-ctx.Done(): the channel stays listed and nothing is given back.
Cancel(c) ==
    /\ MayCancel
    /\ pc[c] = "parked"
    /\ pc' = [pc EXCEPT ![c] = "idle"]
    /\ UNCHANGED <<outstanding, closed, notify, waking, token, need, taken,
                   ch, calls, inflight, surplus>>

\* Mutants: only one waiter is taken; the list is dropped.
TakeWaiters_One ==
    \/ notify = {} /\ UNCHANGED <<notify, waking>>
    \/ \E x \in notify : waking' = waking \union {x} /\ notify' = notify \ {x}
TakeWaiters_Drop == notify' = {} /\ UNCHANGED waking

\* What Release and Close do with the waiters: take the whole list.
TakeWaiters ==
    /\ waking' = waking \union notify
    /\ notify' = {}

\* The peer returns n bytes of credit.  It returns what it consumed, and may
\* run ahead of that by MaxSurplus bytes in all.
Release(n) ==
    LET ahead == IF n > inflight THEN n - inflight ELSE 0 IN
    /\ n > 0
    /\ surplus + ahead <= MaxSurplus
    /\ outstanding' = outstanding - n
    /\ inflight' = inflight - (n - ahead)
    /\ surplus' = surplus + ahead
    /\ TakeWaiters
    /\ UNCHANGED <<closed, token, pc, need, taken, ch, calls>>

Close ==
    /\ MayClose
    /\ ~closed
    /\ closed' = TRUE
    /\ TakeWaiters
    /\ UNCHANGED <<outstanding, token, pc, need, taken, ch, calls, inflight,
                   surplus>>

\* ch <- struct{}{} after w.mu.Unlock(): the channel has room for one token
\* and is signalled once, so the send never blocks.
Signal(x) ==
    /\ x \in waking
    /\ waking' = waking \ {x}
    /\ token' = token \union {x}
    /\ UNCHANGED <<outstanding, closed, notify, pc, need, taken, ch, calls,
                   inflight, surplus>>

CallerStep(c) == FailClosed(c) \/ Take(c) \/ Park(c) \/ Wake(c)

WindowNext ==
    \/ \E c \in Callers : \/ \E n \in Sizes : Acquire(c, n)
                          \/ CallerStep(c)
                          \/ Cancel(c)
    \/ \E n \in 1..(inflight + MaxSurplus) : Release(n)
    \/ Close
    \/ \E x \in waking : Signal(x)

WindowSpec == WindowInit /\ [][WindowNext]_windowVars

\* The scheduler runs every runnable goroutine, and a peer that got bytes
\* consumes them and returns their credit.  Nobody has to call Acquire,
\* cancel or close.
WindowFairness ==
    /\ \A c \in Callers : WF_windowVars(CallerStep(c))
    /\ WF_windowVars(\E x \in waking : Signal(x))
    /\ WF_windowVars(\E n \in 1..inflight : Release(n))

-----------------------------------------------------------------------------
(* Properties *)

\* Type invariant: the window's fields, and channels only of parks that happened.
WindowTypeOK ==
    /\ outstanding \in Int
    /\ closed \in BOOLEAN
    /\ notify \subseteq Channels
    /\ waking \subseteq Channels
    /\ token \subseteq Channels
    /\ \A x \in notify \union waking \union token : x[2] <= ch[x[1]]
    /\ pc \in [Callers -> {"idle", "loop", "parked"}]
    /\ need \in [Callers -> Nat]
    /\ taken \in [Callers -> Nat]
    /\ ch \in [Callers -> Nat]
    /\ calls \in [Callers -> Nat]
    /\ inflight \in Nat
    /\ surplus \in Nat

\* However calls, credit, cancellation and closing interleave, the account
\* never exceeds the window (Acquire's test and its addition).
WindowBound == outstanding <= Limit

\* The bytes sent and not yet consumed by the peer exceed the window at most
\* by the credit the peer gave ahead, oversized requests that are taken in
\* several rounds included.
InFlightBound == inflight <= Limit + surplus

\* No lost wake-up: a parked caller can always still be woken, and as long as
\* nobody is on the way to wake it, parking was and still is justified: the
\* window is open and lacks the credit (Park, Release and Close hold w.mu).
NoLostWakeup ==
    \A c \in Callers : pc[c] = "parked" =>
        /\ Chan(c) \in notify \union waking \union token
        /\ Chan(c) \in notify => ~closed /\ ~HasCredit(c)

\* A channel that is about to be signalled is empty and not listed again, so
\* the send into its one-place buffer never blocks Release or Close (both run
\* on the session's read loop).
SignalNeverBlocks ==
    /\ waking \intersect token = {}
    /\ notify \intersect (waking \union token) = {}

\* Close ends every Acquire, blocked or not (comment of Close).
CloseUnblocks ==
    \A c \in Callers : (closed /\ pc[c] # "idle") ~> (pc[c] = "idle")

\* With a peer that returns the credit of what it got, every Acquire returns, as
\* long as nobody asks for more than the window holds.  A larger request takes
\* the window and waits for credit for bytes it has not sent, and everybody
\* else waits with it.
AcquireReturns ==
    [](\A c \in Callers : need[c] <= Limit) =>
        \A c \in Callers : (pc[c] # "idle") ~> (pc[c] = "idle")
=============================================================================
