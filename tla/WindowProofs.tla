---------------------------- MODULE WindowProofs ----------------------------
(* What TLAPS proves about Window, for every window size, every set of     *)
(* callers and every set of request sizes.                                 *)
EXTENDS Window, FiniteSetTheorems, TLAPS

\* Every parked caller can be woken by someone.
Wakeable ==
    \A c \in Callers : pc[c] = "parked" => Chan(c) \in notify \union waking \union token

\* A parked caller that nobody is about to wake has to wait.
Justified ==
    \A c \in Callers :
        pc[c] = "parked" /\ Chan(c) \in notify => ~closed /\ ~HasCredit(c)

\* The inductive invariant.
IInv == WindowTypeOK /\ WindowBound /\ SignalNeverBlocks /\ Wakeable /\ Justified

\* min64 is the minimum of two integers.
LEMMA Min64Facts ==
    ASSUME NEW a \in Int, NEW b \in Int
    PROVE  /\ min64(a, b) \in Int
           /\ min64(a, b) <= a
           /\ min64(a, b) <= b
           /\ min64(a, b) = a \/ min64(a, b) = b
  BY DEF min64

\* What one Take adds to the account, and what remains to be taken.
LEMMA TakeFacts ==
    ASSUME WindowAssumption, NEW n \in Nat
    PROVE  /\ min64(n, Limit) \in Nat
           /\ n - min64(n, Limit) \in Nat
  BY DEF min64, WindowAssumption

\* The type invariant is preserved by every step.
LEMMA TypeStep ==
    ASSUME WindowAssumption, WindowTypeOK, [WindowNext]_windowVars
    PROVE  WindowTypeOK'
<1> USE DEF WindowTypeOK, Channels
<1>1. ASSUME NEW c \in Callers, NEW n \in Sizes, Acquire(c, n) PROVE WindowTypeOK'
  BY <1>1, WindowAssumption DEF Acquire, WindowAssumption
<1>2. ASSUME NEW c \in Callers, FailClosed(c) PROVE WindowTypeOK'
  BY <1>2 DEF FailClosed
<1>3. ASSUME NEW c \in Callers, Take(c) PROVE WindowTypeOK'
  <2>1. min64(need[c], Limit) \in Nat /\ need[c] - min64(need[c], Limit) \in Nat
    BY WindowAssumption, TakeFacts
  <2>2. QED BY <1>3, <2>1 DEF Take
<1>4. ASSUME NEW c \in Callers, Park(c) PROVE WindowTypeOK'
  BY <1>4 DEF Park
<1>5. ASSUME NEW c \in Callers, Wake(c) PROVE WindowTypeOK'
  BY <1>5 DEF Wake
<1>6. ASSUME NEW c \in Callers, Cancel(c) PROVE WindowTypeOK'
  BY <1>6 DEF Cancel
<1>7. ASSUME NEW n \in 1..(inflight + MaxSurplus), Release(n) PROVE WindowTypeOK'
  <2>1. n \in Nat BY WindowAssumption DEF WindowAssumption
  <2>2. QED BY <1>7, <2>1 DEF Release, TakeWaiters
<1>8. CASE Close
  BY <1>8 DEF Close, TakeWaiters
<1>9. ASSUME NEW x \in waking, Signal(x) PROVE WindowTypeOK'
  BY <1>9 DEF Signal
<1>10. CASE UNCHANGED windowVars
  BY <1>10 DEF windowVars
<1>11. QED
  BY <1>1, <1>2, <1>3, <1>4, <1>5, <1>6, <1>7, <1>8, <1>9, <1>10
  DEF WindowNext, CallerStep

\* The rest of the inductive invariant is preserved by every step.
LEMMA SafetyStep ==
    ASSUME WindowAssumption, IInv, [WindowNext]_windowVars
    PROVE  (WindowBound /\ SignalNeverBlocks /\ Wakeable /\ Justified)'
<1> USE DEF IInv, WindowTypeOK, Channels, WindowBound, SignalNeverBlocks, Wakeable,
            Justified, Chan, HasCredit
<1> DEFINE Goal == (WindowBound /\ SignalNeverBlocks /\ Wakeable /\ Justified)'
<1>1. ASSUME NEW c \in Callers, NEW n \in Sizes, Acquire(c, n) PROVE Goal
  BY <1>1 DEF Acquire
<1>2. ASSUME NEW c \in Callers, FailClosed(c) PROVE Goal
  BY <1>2 DEF FailClosed
<1>3. ASSUME NEW c \in Callers, Take(c) PROVE Goal
  <2>1. min64(need[c], Limit) \in Nat /\ need[c] - min64(need[c], Limit) \in Nat
    BY WindowAssumption, TakeFacts
  <2>2. WindowBound'
    BY <1>3, <2>1, WindowAssumption DEF Take, WindowAssumption
  <2>3. SignalNeverBlocks' /\ Wakeable'
    BY <1>3, <2>1 DEF Take
  <2>4. Justified'
    <3> SUFFICES ASSUME NEW d \in Callers, pc'[d] = "parked", Chan(d)' \in notify'
                 PROVE  ~closed' /\ ~HasCredit(d)'
      OBVIOUS
    <3>1. d # c /\ pc[d] = "parked" /\ Chan(d) \in notify /\ need'[d] = need[d]
      BY <1>3, <2>1 DEF Take
    <3>2. outstanding' \in Int /\ outstanding' >= outstanding /\ closed' = closed
      BY <1>3, <2>1 DEF Take
    <3>3. min64(need[d], Limit) \in Nat
      BY WindowAssumption, TakeFacts
    <3>4. QED
      BY <3>1, <3>2, <3>3, WindowAssumption DEF WindowAssumption
  <2>5. QED BY <2>2, <2>3, <2>4
<1>4. ASSUME NEW c \in Callers, Park(c) PROVE Goal
  <2>1. <<c, ch[c] + 1>> \notin waking \union token
    OBVIOUS
  <2>2. WindowBound' /\ SignalNeverBlocks'
    BY <1>4, <2>1 DEF Park
  <2>3. Wakeable'
    BY <1>4 DEF Park
  <2>4. Justified'
    BY <1>4 DEF Park
  <2>5. QED BY <2>2, <2>3, <2>4
<1>5. ASSUME NEW c \in Callers, Wake(c) PROVE Goal
  BY <1>5 DEF Wake
<1>6. ASSUME NEW c \in Callers, Cancel(c) PROVE Goal
  BY <1>6 DEF Cancel
<1>7. ASSUME NEW n \in 1..(inflight + MaxSurplus), Release(n) PROVE Goal
  <2>1. n \in Nat BY WindowAssumption DEF WindowAssumption
  <2>2. QED BY <1>7, <2>1, WindowAssumption DEF Release, TakeWaiters, WindowAssumption
<1>8. CASE Close
  BY <1>8 DEF Close, TakeWaiters
<1>9. ASSUME NEW x \in waking, Signal(x) PROVE Goal
  BY <1>9 DEF Signal
<1>10. CASE UNCHANGED windowVars
  BY <1>10 DEF windowVars
<1>11. QED
  BY <1>1, <1>2, <1>3, <1>4, <1>5, <1>6, <1>7, <1>8, <1>9, <1>10
  DEF WindowNext, CallerStep

\* IInv is an inductive invariant of the window.
THEOREM InductiveInvariant == WindowSpec => []IInv
<1>1. WindowInit => IInv
  <2> SUFFICES ASSUME WindowInit PROVE IInv
    OBVIOUS
  <2>1. WindowTypeOK
    <3>1. notify \union waking \union token = {}
      BY DEF WindowInit
    <3>2. closed \in BOOLEAN
      BY DEF WindowInit
    <3>3. notify \subseteq Channels /\ waking \subseteq Channels /\ token \subseteq Channels
      BY DEF WindowInit
    <3>4. outstanding \in Int /\ inflight \in Nat /\ surplus \in Nat
      BY DEF WindowInit
    <3>5. /\ pc \in [Callers -> {"idle", "loop", "parked"}]
          /\ need \in [Callers -> Nat]
          /\ taken \in [Callers -> Nat]
          /\ ch \in [Callers -> Nat]
          /\ calls \in [Callers -> Nat]
      BY DEF WindowInit
    <3>6. QED
      BY <3>1, <3>2, <3>3, <3>4, <3>5 DEF WindowTypeOK
  <2>2. WindowBound /\ SignalNeverBlocks
    BY WindowAssumption DEF WindowInit, WindowBound, SignalNeverBlocks, WindowAssumption
  <2>3. Wakeable /\ Justified
    BY DEF WindowInit, Wakeable, Justified
  <2>4. QED
    BY <2>1, <2>2, <2>3 DEF IInv
<1>2. IInv /\ [WindowNext]_windowVars => IInv'
  BY WindowAssumption, TypeStep, SafetyStep DEF IInv
<1>3. QED
  BY <1>1, <1>2, PTL DEF WindowSpec

\* Type correctness of the window's fields and of the channels of its waiters.
THEOREM TypeCorrect == WindowSpec => []WindowTypeOK
<1>1. IInv => WindowTypeOK
  BY DEF IInv
<1>2. QED
  BY <1>1, InductiveInvariant, PTL

\* Window.outstanding never exceeds Window.limit, whatever the interleaving of
\* Acquire, Release, Close and cancelled contexts.
THEOREM BoundHolds == WindowSpec => []WindowBound
<1>1. IInv => WindowBound
  BY DEF IInv
<1>2. QED
  BY <1>1, InductiveInvariant, PTL

\* Window.Acquire never misses a wake-up: Release and Close between its test
\* and its wait are always seen.
THEOREM WakeupsAreNotLost == WindowSpec => []NoLostWakeup
<1>1. IInv => NoLostWakeup
  BY DEF IInv, NoLostWakeup, Wakeable, Justified
<1>2. QED
  BY <1>1, InductiveInvariant, PTL

\* Signalling a waiter never blocks Window.Release or Window.Close.
THEOREM SignalsNeverBlock == WindowSpec => []SignalNeverBlocks
<1>1. IInv => SignalNeverBlocks
  BY DEF IInv
<1>2. QED
  BY <1>1, InductiveInvariant, PTL
-----------------------------------------------------------------------------
(* The bound on the bytes in flight.  outstanding also holds what callers  *)
(* took and never sent (a cancelled or a closed Acquire), and what those   *)
(* in the middle of an oversized Acquire have taken so far.  The account   *)
(* is therefore told byte by byte: every byte of outstanding + surplus is  *)
(* a number, the bytes in flight are some of them, and each caller that is *)
(* in the middle of a call holds others.                                   *)

\* W are the bytes of the account, U those in flight, F[c] those that the
\* current call of c has taken; hi has been given out last.
Account(W, U, F, hi) ==
    /\ hi \in Nat
    /\ W \in SUBSET (1 .. hi)
    /\ Cardinality(W) = outstanding + surplus
    /\ U \in SUBSET W
    /\ Cardinality(U) = inflight
    /\ \A c \in Callers : pc[c] # "idle" =>
          /\ F[c] \in SUBSET (W \ U)
          /\ Cardinality(F[c]) = taken[c]
    /\ \A c, d \in Callers : c # d /\ pc[c] # "idle" /\ pc[d] # "idle" => F[c] \cap F[d] = {}

\* Some such account exists.
Accounted == \E W, U, F, hi : Account(W, U, F, hi)

\* A set of numbers up to some bound is finite, and so are its subsets.
LEMMA AccountFinite ==
    ASSUME NEW hi \in Nat, NEW W \in SUBSET (1 .. hi), NEW T \in SUBSET W
    PROVE  IsFiniteSet(T) /\ Cardinality(T) \in Nat /\ Cardinality(T) <= Cardinality(W)
           /\ Cardinality(W) \in Nat /\ IsFiniteSet(W)
<1>1. IsFiniteSet(1 .. hi)
  BY FS_Interval
<1>2. IsFiniteSet(W)
  BY <1>1, FS_Subset
<1>3. IsFiniteSet(T) /\ Cardinality(T) <= Cardinality(W)
  BY <1>2, FS_Subset
<1>4. QED
  BY <1>2, <1>3, FS_CardinalityType

\* A finite set has a subset of every smaller size.
LEMMA SubsetOfSize ==
    ASSUME NEW U, IsFiniteSet(U), NEW k \in Nat, k <= Cardinality(U)
    PROVE  \E R \in SUBSET U : IsFiniteSet(R) /\ Cardinality(R) = k
<1>1. PICK f : f \in Bijection(1 .. Cardinality(U), U)
  BY FS_CardinalityType DEF ExistsBijection
<1>2. Cardinality(U) \in Nat
  BY FS_CardinalityType
<1> DEFINE R == {f[i] : i \in 1 .. k}
           g == [i \in 1 .. k |-> f[i]]
<1>3. f \in [1 .. Cardinality(U) -> U]
      /\ \A i, j \in 1 .. Cardinality(U) : f[i] = f[j] => i = j
  BY <1>1 DEF Bijection, Injection, Surjection, IsInjective
<1>4. \A i \in 1 .. k : i \in 1 .. Cardinality(U)
  BY <1>2
<1>5. R \in SUBSET U
  BY <1>3, <1>4
<1>6. g \in [1 .. k -> R]
  OBVIOUS
<1>7. \A i, j \in 1 .. k : g[i] = g[j] => i = j
  BY <1>3, <1>4
<1>8. \A t \in R : \E i \in 1 .. k : g[i] = t
  OBVIOUS
<1> HIDE DEF g, R
<1>9. g \in Bijection(1 .. k, R)
  BY <1>6, <1>7, <1>8 DEF Bijection, Injection, Surjection, IsInjective
<1>10. ExistsBijection(1 .. k, R)
  BY <1>9 DEF ExistsBijection
<1>11. Cardinality(R) = k
  BY <1>10, FS_CountingElements
<1>12. IsFiniteSet(R)
  BY <1>5, FS_Subset
<1>13. QED
  BY <1>5, <1>11, <1>12

\* Two disjoint sets of an account: the sizes add up.
LEMMA DisjointUnion ==
    ASSUME NEW S, NEW T, IsFiniteSet(S), IsFiniteSet(T), S \cap T = {}
    PROVE  /\ IsFiniteSet(S \cup T)
           /\ Cardinality(S \cup T) = Cardinality(S) + Cardinality(T)
<1>1. Cardinality(S) \in Nat /\ Cardinality(T) \in Nat
  BY FS_CardinalityType
<1>2. Cardinality(S \cap T) = 0
  BY FS_EmptySet
<1>3. IsFiniteSet(S \cup T)
  BY FS_Union
<1>4. Cardinality(S \cup T) = Cardinality(S) + Cardinality(T) - Cardinality(S \cap T)
  BY FS_Union
<1>5. QED
  BY <1>1, <1>2, <1>3, <1>4

\* Taking credit enters the bytes as new ones; a call that is complete moves all
\* of its bytes into flight.
LEMMA TakeAccounted ==
    ASSUME WindowAssumption, WindowTypeOK, Accounted, NEW c \in Callers, Take(c)
    PROVE  Accounted'
<1>1. PICK take \in Nat : take = min64(need[c], Limit)
  BY WindowAssumption, TakeFacts DEF WindowTypeOK
<1>a. PICK done \in BOOLEAN : done <=> (need[c] - take <= 0)
  OBVIOUS
<1>2. PICK W, U, F, hi : Account(W, U, F, hi)
  BY DEF Accounted
<1> DEFINE New == (hi + 1) .. (hi + take)
           W1 == W \cup New
           Fc == F[c] \cup New
           F1 == [d \in Callers |-> IF d = c THEN Fc ELSE F[d]]
           hi1 == hi + take
           U1 == IF done THEN U \cup Fc ELSE U
<1>3. pc[c] = "loop" /\ outstanding \in Int /\ surplus \in Nat /\ inflight \in Nat
      /\ taken \in [Callers -> Nat] /\ need \in [Callers -> Nat]
      /\ pc \in [Callers -> {"idle", "loop", "parked"}]
  BY DEF Take, WindowTypeOK
<1>4. hi \in Nat /\ W \in SUBSET (1 .. hi) /\ U \in SUBSET W /\ F[c] \in SUBSET (W \ U)
      /\ Cardinality(F[c]) = taken[c] /\ Cardinality(U) = inflight
      /\ Cardinality(W) = outstanding + surplus
  BY <1>2, <1>3 DEF Account
<1>5. IsFiniteSet(W) /\ IsFiniteSet(U) /\ IsFiniteSet(F[c])
  <2>1. F[c] \in SUBSET W
    BY <1>4
  <2>2. QED
    BY <1>4, <2>1, AccountFinite
<1>6. IsFiniteSet(New) /\ Cardinality(New) = take
  <2>1. hi + 1 \in Int /\ hi + take \in Int
    BY <1>1, <1>4
  <2>2. IsFiniteSet(New) /\ Cardinality(New) =
           IF hi + 1 > hi + take THEN 0 ELSE (hi + take) - (hi + 1) + 1
    BY <2>1, FS_Interval
  <2>3. QED
    BY <1>1, <1>4, <2>2
<1>7. W \cap New = {}
  BY <1>1, <1>4
<1>8. Cardinality(W1) = Cardinality(W) + take /\ W1 \in SUBSET (1 .. hi1) /\ hi1 \in Nat
  <2>1. Cardinality(W1) = Cardinality(W) + take
    BY <1>5, <1>6, <1>7, DisjointUnion
  <2>2. New \in SUBSET (1 .. hi1) /\ W \in SUBSET (1 .. hi1) /\ hi1 \in Nat
    BY <1>1, <1>4
  <2>3. QED
    BY <2>1, <2>2
<1>9. IsFiniteSet(Fc) /\ Cardinality(Fc) = taken[c] + take
  <2>1. F[c] \cap New = {}
    BY <1>4, <1>7
  <2>2. QED
    BY <1>4, <1>5, <1>6, <2>1, DisjointUnion, ZenonT(60)
<1>10. Cardinality(U \cup Fc) = inflight + taken[c] + take
  <2>1. U \cap Fc = {}
    BY <1>4, <1>7
  <2>2. Cardinality(U \cup Fc) = Cardinality(U) + Cardinality(Fc)
    BY <1>5, <1>9, <2>1, DisjointUnion
  <2>3. QED
    BY <2>2, <1>9, <1>4, <1>3, <1>1
<1>11. /\ outstanding' = outstanding + take /\ surplus' = surplus
       /\ taken' = [taken EXCEPT ![c] = @ + take]
       /\ done => pc' = [pc EXCEPT ![c] = "idle"] /\ inflight' = inflight + taken[c] + take
       /\ ~done => pc' = pc /\ inflight' = inflight
  BY <1>1, <1>a DEF Take
<1>12. Cardinality(W1) = outstanding' + surplus'
  BY <1>1, <1>3, <1>4, <1>8, <1>11
<1>13. U1 \in SUBSET W1 /\ Cardinality(U1) = inflight'
  BY <1>3, <1>4, <1>10, <1>11
<1>14. ASSUME NEW d \in Callers, pc'[d] # "idle"
       PROVE  F1[d] \in SUBSET (W1 \ U1) /\ Cardinality(F1[d]) = taken'[d]
  <2>1. CASE d = c
    <3>1. ~done
      BY <1>3, <1>11, <1>14, <2>1
    <3>2. U1 = U /\ F1[d] = Fc
      BY <3>1, <2>1
    <3>3. Fc \in SUBSET (W1 \ U)
      BY <1>4, <1>7
    <3>4. taken'[d] = taken[c] + take
      BY <1>3, <1>11, <2>1
    <3>5. QED
      BY <3>2, <3>3, <3>4, <1>9
  <2>2. CASE d # c
    <3>1. pc[d] # "idle" /\ taken'[d] = taken[d]
      BY <1>3, <1>11, <1>14, <2>2
    <3>2. F[d] \in SUBSET (W \ U) /\ Cardinality(F[d]) = taken[d] /\ F[d] \cap F[c] = {}
      BY <1>2, <1>3, <2>2, <3>1 DEF Account
    <3>3. F[d] \cap New = {}
      BY <3>2, <1>7
    <3>4. F1[d] = F[d]
      BY <2>2
    <3>5. F[d] \in SUBSET (W1 \ U1)
      BY <3>2, <3>3
    <3>6. QED
      BY <3>1, <3>2, <3>4, <3>5
  <2>3. QED BY <2>1, <2>2
<1>15. ASSUME NEW d \in Callers, NEW e \in Callers, d # e, pc'[d] # "idle", pc'[e] # "idle"
       PROVE  F1[d] \cap F1[e] = {}
  <2>1. pc[d] # "idle" /\ pc[e] # "idle"
    BY <1>3, <1>11, <1>15
  <2>2. F[d] \cap F[e] = {} /\ F[d] \in SUBSET W /\ F[e] \in SUBSET W
    BY <1>2, <2>1, <1>15 DEF Account
  <2>3. QED
    BY <2>2, <1>7, <1>15
<1> HIDE DEF W1, U1, F1, hi1
<1>16. Account(W1, U1, F1, hi1)'
  BY <1>8, <1>12, <1>13, <1>14, <1>15 DEF Account
<1>17. QED
  BY <1>16 DEF Accounted

\* Credit that comes back takes bytes out of flight and out of the account; what
\* comes ahead moves from one summand of the account to the other.
LEMMA ReleaseAccounted ==
    ASSUME WindowTypeOK, Accounted, NEW n \in Nat, Release(n)
    PROVE  Accounted'
<1>1. PICK W, U, F, hi : Account(W, U, F, hi)
  BY DEF Accounted
<1> DEFINE ahead == IF n > inflight THEN n - inflight ELSE 0
           k == n - ahead
<1>2. inflight \in Nat /\ surplus \in Nat /\ outstanding \in Int
  BY DEF WindowTypeOK
<1>3. k \in Nat /\ k <= inflight /\ ahead \in Nat /\ n = k + ahead
  BY <1>2
<1>4. hi \in Nat /\ W \in SUBSET (1 .. hi) /\ U \in SUBSET W
      /\ Cardinality(U) = inflight /\ Cardinality(W) = outstanding + surplus
  BY <1>1 DEF Account
<1>5. /\ outstanding' = outstanding - n /\ inflight' = inflight - k
      /\ surplus' = surplus + ahead /\ UNCHANGED <<pc, taken>>
  BY DEF Release
<1>6. IsFiniteSet(U) /\ IsFiniteSet(W)
  BY <1>4, AccountFinite
<1> HIDE DEF k, ahead
<1>7. PICK R \in SUBSET U : IsFiniteSet(R) /\ Cardinality(R) = k
  BY <1>3, <1>4, <1>6, SubsetOfSize
<1>8. IsFiniteSet(U \ R) /\ IsFiniteSet(W \ R)
  BY <1>6, FS_Subset
<1>9. Cardinality(U) = Cardinality(U \ R) + k /\ Cardinality(W) = Cardinality(W \ R) + k
  <2>1. U = (U \ R) \cup R /\ (U \ R) \cap R = {}
    BY <1>7
  <2>2. W = (W \ R) \cup R /\ (W \ R) \cap R = {}
    BY <1>4, <1>7
  <2>3. QED
    BY <2>1, <2>2, <1>7, <1>8, DisjointUnion
<1>10. Cardinality(U \ R) \in Nat /\ Cardinality(W \ R) \in Nat
  BY <1>8, FS_CardinalityType
<1>11. Cardinality(U \ R) = inflight' /\ Cardinality(W \ R) = outstanding' + surplus'
  BY <1>2, <1>3, <1>4, <1>5, <1>9, <1>10
<1>12. W \ R \in SUBSET (1 .. hi) /\ U \ R \in SUBSET (W \ R)
  BY <1>4
<1>13. (W \ R) \ (U \ R) = W \ U
  BY <1>7, <1>4
<1>14. /\ \A c \in Callers : pc'[c] # "idle" =>
             F[c] \in SUBSET ((W \ R) \ (U \ R)) /\ Cardinality(F[c]) = taken'[c]
       /\ \A c, d \in Callers : c # d /\ pc'[c] # "idle" /\ pc'[d] # "idle" => F[c] \cap F[d] = {}
  BY <1>1, <1>5, <1>13 DEF Account
<1>15. Account(W \ R, U \ R, F, hi)'
  BY <1>4, <1>11, <1>12, <1>14 DEF Account
<1>16. QED
  BY <1>15 DEF Accounted

\* A new call has taken nothing yet.
LEMMA AcquireAccounted ==
    ASSUME WindowTypeOK, Accounted, NEW c \in Callers, NEW n, Acquire(c, n)
    PROVE  Accounted'
<1>1. PICK W, U, F, hi : Account(W, U, F, hi)
  BY DEF Accounted
<1> DEFINE F1 == [d \in Callers |-> IF d = c THEN {} ELSE F[d]]
<1>2. /\ UNCHANGED <<outstanding, inflight, surplus>>
      /\ taken'[c] = 0 /\ \A d \in Callers : d # c => taken'[d] = taken[d] /\ pc'[d] = pc[d]
  BY DEF Acquire, WindowTypeOK
<1>3. Cardinality({}) = 0
  BY FS_EmptySet
<1>4. \A d \in Callers : pc'[d] # "idle" =>
         F1[d] \in SUBSET (W \ U) /\ Cardinality(F1[d]) = taken'[d]
  BY <1>1, <1>2, <1>3 DEF Account
<1>5. \A d, e \in Callers : d # e /\ pc'[d] # "idle" /\ pc'[e] # "idle" => F1[d] \cap F1[e] = {}
  BY <1>1, <1>2 DEF Account
<1> HIDE DEF F1
<1>6. Account(W, U, F1, hi)'
  BY <1>1, <1>2, <1>4, <1>5 DEF Account
<1>7. QED
  BY <1>6 DEF Accounted

\* A step that leaves the account alone, and begins no call, keeps it.
LEMMA SameAccount ==
    ASSUME Accounted, UNCHANGED <<outstanding, inflight, surplus, taken>>,
           \A c \in Callers : pc'[c] # "idle" => pc[c] # "idle"
    PROVE  Accounted'
<1>1. PICK W, U, F, hi : Account(W, U, F, hi)
  BY DEF Accounted
<1>2. Account(W, U, F, hi)'
  BY <1>1 DEF Account
<1>3. QED
  BY <1>2 DEF Accounted

\* Every step keeps the account.
LEMMA AccountStep ==
    ASSUME WindowAssumption, WindowTypeOK, Accounted, [WindowNext]_windowVars
    PROVE  Accounted'
<1>1. ASSUME NEW c \in Callers, NEW n \in Sizes, Acquire(c, n) PROVE Accounted'
  BY <1>1, AcquireAccounted
<1>2. ASSUME NEW c \in Callers, FailClosed(c) PROVE Accounted'
  BY <1>2, SameAccount DEF FailClosed, WindowTypeOK
<1>3. ASSUME NEW c \in Callers, Take(c) PROVE Accounted'
  BY <1>3, WindowAssumption, TakeAccounted
<1>4. ASSUME NEW c \in Callers, Park(c) PROVE Accounted'
  BY <1>4, SameAccount DEF Park, WindowTypeOK
<1>5. ASSUME NEW c \in Callers, Wake(c) PROVE Accounted'
  BY <1>5, SameAccount DEF Wake, WindowTypeOK
<1>6. ASSUME NEW c \in Callers, Cancel(c) PROVE Accounted'
  BY <1>6, SameAccount DEF Cancel, WindowTypeOK
<1>7. ASSUME NEW n \in 1..(inflight + MaxSurplus), Release(n) PROVE Accounted'
  <2>1. n \in Nat BY WindowAssumption DEF WindowAssumption, WindowTypeOK
  <2>2. QED BY <1>7, <2>1, ReleaseAccounted
<1>8. CASE Close
  BY <1>8, SameAccount DEF Close
<1>9. ASSUME NEW x \in waking, Signal(x) PROVE Accounted'
  BY <1>9, SameAccount DEF Signal
<1>10. CASE UNCHANGED windowVars
  BY <1>10, SameAccount DEF windowVars
<1>11. QED
  BY <1>1, <1>2, <1>3, <1>4, <1>5, <1>6, <1>7, <1>8, <1>9, <1>10
  DEF WindowNext, CallerStep

\* The bytes that are sent and not yet consumed by the peer never exceed the
\* window by more than the credit the peer gave ahead: Window.Acquire also
\* holds this for oversized requests, which it takes in several rounds.
THEOREM FlightIsBounded == WindowSpec => []InFlightBound
<1>1. WindowInit => Accounted
  <2> SUFFICES ASSUME WindowInit PROVE Accounted
    OBVIOUS
  <2>1. Cardinality({}) = 0
    BY FS_EmptySet
  <2>2. Account({}, {}, [c \in Callers |-> {}], 0)
    BY <2>1 DEF WindowInit, Account
  <2>3. QED
    BY <2>2 DEF Accounted
<1>2. IInv /\ Accounted /\ [WindowNext]_windowVars => Accounted'
  BY WindowAssumption, AccountStep DEF IInv
<1>3. IInv /\ Accounted => InFlightBound
  <2> SUFFICES ASSUME IInv, Accounted PROVE InFlightBound
    OBVIOUS
  <2>1. PICK W, U, F, hi : Account(W, U, F, hi)
    BY DEF Accounted
  <2>2. Cardinality(U) <= Cardinality(W)
    BY <2>1, AccountFinite DEF Account
  <2>3. inflight <= outstanding + surplus
    BY <2>1, <2>2 DEF Account
  <2>4. QED
    BY <2>3, WindowAssumption
    DEF IInv, WindowTypeOK, WindowBound, InFlightBound, WindowAssumption
<1>4. QED
  BY <1>1, <1>2, <1>3, InductiveInvariant, PTL DEF WindowSpec
=============================================================================
