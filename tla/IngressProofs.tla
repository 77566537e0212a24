---------------------------- MODULE IngressProofs ---------------------------
(* What TLAPS proves about the listeners, for any number of connections    *)
(* and targets, any configuration of the sniffer and any bytes.            *)
EXTENDS Ingress, WellFoundedInduction, SequenceTheorems, FiniteSetTheorems, TLAPS

-----------------------------------------------------------------------------
(* The sniffer's decision.                                                 *)

\* A non-empty set of numbers has a least one, by the well-foundedness of < on Nat.
LEMMA LeastMember ==
    ASSUME NEW T, T \subseteq Nat, T # {}
    PROVE  Min(T) \in T /\ \A y \in T : Min(T) <= y
<1> DEFINE R == OpToRel(<, Nat)
<1>1. IsWellFoundedOn(R, Nat)
  BY NatLessThanWellFounded
<1>2. R = {p \in Nat \X Nat : p[1] < p[2]}
  BY Zenon DEF OpToRel
<1> HIDE DEF R
<1>3. PICK x \in T : \A y \in T : ~ (<<y, x>> \in R)
  BY <1>1, WFMin
<1>4. ASSUME NEW y \in T PROVE x <= y
  <2>1. x \in Nat /\ y \in Nat /\ <<y, x>> \in Nat \X Nat
    OBVIOUS
  <2>2. <<y, x>>[1] = y /\ <<y, x>>[2] = x
    OBVIOUS
  <2>3. ~ (y < x)
    BY <1>2, <1>3, <2>1, <2>2
  <2>4. QED BY <2>1, <2>3
<1>5. QED BY <1>4 DEF Min

\* What it means that bytes begin with a prefix.
LEMMA StartsMeans ==
    ASSUME NEW s \in Seq(Nat), NEW t \in Seq(Nat)
    PROVE  Starts(t, s) <=> Len(s) <= Len(t) /\ \A i \in 1 .. Len(s) : s[i] = t[i]
<1>1. Len(s) \in Nat /\ Len(t) \in Nat
  BY LenProperties
<1>2. CASE Len(s) <= Len(t)
  <2> DEFINE a == SubSeq(s, 1, Len(s))
             b == SubSeq(t, 1, Len(s))
  <2>1. a \in Seq(Nat) /\ Len(a) = Len(s) /\ \A i \in 1 .. Len(s) : a[i] = s[i]
    BY <1>1, SubSeqProperties
  <2>2. b \in Seq(Nat) /\ Len(b) = Len(s) /\ \A i \in 1 .. Len(s) : b[i] = t[i]
    BY <1>1, <1>2, SubSeqProperties
  <2>3. Starts(t, s) <=> a = b
    BY <1>2 DEF Starts, IsPrefix
  <2> HIDE DEF a, b
  <2>4. a = b <=> \A i \in 1 .. Len(s) : a[i] = b[i]
    BY <2>1, <2>2, SeqEqual
  <2>5. QED BY <1>2, <2>1, <2>2, <2>3, <2>4
<1>3. CASE ~ (Len(s) <= Len(t))
  BY <1>3 DEF Starts, IsPrefix
<1>4. QED BY <1>2, <1>3

\* The bytes that a rule compares, if no rule has read on before it or it does
\* not read on itself, are those at the beginning of the connection.
LEMMA ReadsBeginning ==
    ASSUME NEW b \in Seq(Nat), NEW p \in Seq(Nat), NEW r \in Nat, NEW e \in Nat,
           Len(p) > 3 => e = Len(p) - 3, ~ (Len(p) > 3) => e = 0,
           3 + r + e <= Len(b), r = 0 \/ e = 0,
           NEW w, w = SubSeq(b, 1, 3) \o SubSeq(b, 4 + r, 3 + r + e)
    PROVE  Starts(w, p) <=> Starts(b, p)
<1>0. /\ Len(b) \in Nat /\ Len(p) \in Nat
      /\ \A i \in 1 .. Len(b) : b[i] \in Nat
  BY LenProperties, ElementOfSeq
<1>1. Len(p) <= 3 + e /\ Len(p) <= Len(b) /\ 3 <= Len(b)
  BY <1>0
<1> DEFINE u == SubSeq(b, 1, 3)
           v == SubSeq(b, 4 + r, 3 + r + e)
<1>2. u \in Seq(Nat) /\ Len(u) = 3 /\ \A i \in 1 .. 3 : u[i] = b[i]
  <2>1. \A i \in 1 .. 3 : b[i] \in Nat
    BY <1>0, <1>1
  <2>2. /\ u \in Seq(Nat) /\ Len(u) = 3
        /\ \A i \in 1 .. 3 - 1 + 1 : u[i] = b[1 + i - 1]
    BY <2>1, SubSeqProperties
  <2>3. QED BY <2>2
<1>3. v \in Seq(Nat) /\ Len(v) = e /\ \A i \in 1 .. e : v[i] = b[3 + r + i]
  <2>1. \A i \in 4 + r .. 3 + r + e : b[i] \in Nat
    BY <1>0
  <2>2. 4 + r \in Int /\ 3 + r + e \in Int
    OBVIOUS
  <2>3. /\ v \in Seq(Nat) /\ Len(v) = IF 4 + r <= 3 + r + e THEN 3 + r + e - (4 + r) + 1 ELSE 0
        /\ \A i \in 1 .. 3 + r + e - (4 + r) + 1 : v[i] = b[4 + r + i - 1]
    BY <2>1, <2>2, SubSeqProperties
  <2>4. Len(v) = e
    BY <2>3
  <2>5. ASSUME NEW i \in 1 .. e PROVE v[i] = b[3 + r + i]
    <3>1. i \in 1 .. 3 + r + e - (4 + r) + 1 /\ 4 + r + i - 1 = 3 + r + i
      OBVIOUS
    <3>2. v[i] = b[4 + r + i - 1]
      BY <2>3, <3>1
    <3>3. QED BY <3>1, <3>2
  <2>6. QED BY <2>3, <2>4, <2>5
<1>4. w = u \o v
  OBVIOUS
<1> HIDE DEF u, v
<1>5. /\ w \in Seq(Nat) /\ Len(w) = 3 + e
      /\ \A i \in 1 .. 3 + e : w[i] = IF i <= 3 THEN u[i] ELSE v[i - 3]
  <2>0. u \in Seq(Nat) /\ v \in Seq(Nat)
    BY <1>2, <1>3
  <2>1. /\ u \o v \in Seq(Nat) /\ Len(u \o v) = Len(u) + Len(v)
        /\ \A i \in 1 .. Len(u) + Len(v) :
              (u \o v)[i] = IF i <= Len(u) THEN u[i] ELSE v[i - Len(u)]
    BY <2>0, ConcatProperties, Zenon
  <2>2. Len(u) = 3 /\ Len(v) = e
    BY <1>2, <1>3
  <2>3. QED BY <1>4, <2>1, <2>2
<1>6. \A i \in 1 .. 3 + e : w[i] = b[i]
  <2> SUFFICES ASSUME NEW i \in 1 .. 3 + e PROVE w[i] = b[i]
    OBVIOUS
  <2>1. CASE i <= 3
    <3>1. i \in 1 .. 3
      BY <2>1
    <3>2. w[i] = u[i]
      BY <1>5, <2>1
    <3>3. QED BY <1>2, <3>1, <3>2
  <2>2. CASE ~ (i <= 3)
    <3>1. r = 0 /\ i - 3 \in 1 .. e /\ 3 + (i - 3) = i
      BY <2>2
    <3>2. QED BY <1>3, <1>5, <2>2, <3>1
  <2>3. QED BY <2>1, <2>2
<1>7. \A i \in 1 .. Len(p) : w[i] = b[i]
  <2>1. \A i \in 1 .. Len(p) : i \in 1 .. 3 + e
    BY <1>0, <1>1
  <2>2. QED BY <1>6, <2>1, Zenon
<1>8. Starts(w, p) <=> Len(p) <= Len(w) /\ \A i \in 1 .. Len(p) : p[i] = w[i]
  BY <1>5, StartsMeans
<1>9. Starts(b, p) <=> Len(p) <= Len(b) /\ \A i \in 1 .. Len(p) : p[i] = b[i]
  BY StartsMeans
<1>10. QED BY <1>1, <1>5, <1>7, <1>8, <1>9

\* With at most one long rule, nothing was read on before that rule, and as many
\* bytes as it reads before the later ones and before matchHTTP.
LEMMA ReadOnce ==
    ASSUME NEW c \in Configs, NEW i \in 1 .. Len(c.prefixes) + 1,
           Cardinality({k \in DOMAIN c.prefixes : Extra(c, k) > 0}) <= 1
    PROVE  /\ ReadBefore(c, i) \in Nat
           /\ i \in DOMAIN c.prefixes => /\ Extra(c, i) \in Nat
                                         /\ Extra(c, i) > 0 => ReadBefore(c, i) = 0
           /\ ReadBefore(c, i) # 0 =>
                 \E k \in DOMAIN c.prefixes :
                     k < i /\ ReadBefore(c, k) = 0 /\ Extra(c, k) = ReadBefore(c, i)
<1> DEFINE L == {k \in DOMAIN c.prefixes : Extra(c, k) > 0}
           B(j) == UNION {{k} \X (1 .. Extra(c, k)) : k \in 1 .. j - 1}
<1>1. /\ c.prefixes \in Seq([prefix : Seq(Nat), target : STRING])
      /\ Len(c.prefixes) \in Nat /\ DOMAIN c.prefixes = 1 .. Len(c.prefixes)
  BY ConfigsAssumption, LenProperties
<1>2. \A k \in DOMAIN c.prefixes : Extra(c, k) \in Nat
  <2> SUFFICES ASSUME NEW k \in DOMAIN c.prefixes PROVE Extra(c, k) \in Nat
    OBVIOUS
  <2>0. c.prefixes[k] \in [prefix : Seq(Nat), target : STRING]
    BY <1>1, ElementOfSeq
  <2>1. c.prefixes[k].prefix \in Seq(Nat)
    BY <2>0
  <2>2. Len(c.prefixes[k].prefix) \in Nat
    BY <2>1, LenProperties
  <2>3. QED BY <2>2 DEF Extra
<1>3. \A j, k \in L : j = k
  <2>1. IsFiniteSet(1 .. Len(c.prefixes))
    <3>1. \A n \in Nat : IsFiniteSet(1 .. n)
      BY FS_Interval
    <3>2. QED BY <1>1, <3>1
  <2>2. L \subseteq 1 .. Len(c.prefixes)
    BY <1>1
  <2>3. IsFiniteSet(L) /\ Cardinality(L) <= 1
    BY <2>1, <2>2, FS_Subset
  <2> HIDE DEF L
  <2> SUFFICES ASSUME NEW j \in L, NEW k \in L, j # k PROVE FALSE
    OBVIOUS
  <2>4. IsFiniteSet({j}) /\ Cardinality({j}) = 1
    BY FS_Singleton
  <2>5. IsFiniteSet({j} \cup {k}) /\ Cardinality({j} \cup {k}) = 2
    <3>1. k \notin {j}
      OBVIOUS
    <3>2. IsFiniteSet({j} \cup {k}) /\ Cardinality({j} \cup {k}) = Cardinality({j}) + 1
      BY <2>4, <3>1, FS_AddElement, Zenon
    <3>3. 1 + 1 = 2
      OBVIOUS
    <3>4. QED BY <2>4, <3>2, <3>3, Zenon
  <2>6. {j} \cup {k} \subseteq L
    OBVIOUS
  <2>7. Cardinality({j} \cup {k}) <= Cardinality(L)
    BY <2>3, <2>6, FS_Subset
  <2>8. Cardinality(L) \in Nat
    BY <2>3, FS_CardinalityType
  <2>9. 2 <= Cardinality(L)
    BY <2>5, <2>7, Zenon
  <2>10. Cardinality(L) <= 1
    BY <2>3
  <2>11. QED BY <2>8, <2>9, <2>10
<1>4. \A j : ReadBefore(c, j) = Cardinality(B(j))
  BY DEF ReadBefore
<1>5. ASSUME NEW j \in 1 .. Len(c.prefixes) + 1, \A k \in L : ~ (k < j)
      PROVE  ReadBefore(c, j) = 0
  <2>1. \A k \in 1 .. j - 1 : Extra(c, k) = 0
    <3> SUFFICES ASSUME NEW k \in 1 .. j - 1 PROVE Extra(c, k) = 0
      OBVIOUS
    <3>0. j \in Nat /\ j <= Len(c.prefixes) + 1
      BY <1>1
    <3>1. k \in DOMAIN c.prefixes /\ k < j
      BY <1>1, <3>0
    <3>2. k \notin L /\ Extra(c, k) \in Nat
      BY <1>2, <1>5, <3>1
    <3>3. QED BY <3>1, <3>2
  <2>2. B(j) = {}
    BY <2>1
  <2>3. QED BY <1>4, <2>2, FS_EmptySet
<1>6. ASSUME NEW j \in 1 .. Len(c.prefixes) + 1, NEW l \in L, l < j
      PROVE  ReadBefore(c, j) = Extra(c, l)
  <2>1. \A k \in 1 .. j - 1 : k # l => Extra(c, k) = 0
    <3> SUFFICES ASSUME NEW k \in 1 .. j - 1, k # l PROVE Extra(c, k) = 0
      OBVIOUS
    <3>0. j \in Nat /\ j <= Len(c.prefixes) + 1
      BY <1>1
    <3>1. k \in DOMAIN c.prefixes
      BY <1>1, <3>0
    <3>2. k \notin L /\ Extra(c, k) \in Nat
      BY <1>2, <1>3, <1>6, <3>1
    <3>3. QED BY <3>1, <3>2
  <2>2. l \in 1 .. j - 1 /\ Extra(c, l) \in Nat
    BY <1>1, <1>2, <1>6
  <2>3. B(j) = {l} \X (1 .. Extra(c, l))
    BY <2>1, <2>2
  <2>4. IsFiniteSet({l}) /\ Cardinality({l}) = 1
    BY FS_Singleton
  <2>5. IsFiniteSet(1 .. Extra(c, l)) /\ Cardinality(1 .. Extra(c, l)) = Extra(c, l)
    BY <2>2, FS_Interval
  <2>6. Cardinality({l} \X (1 .. Extra(c, l))) =
            Cardinality({l}) * Cardinality(1 .. Extra(c, l))
    BY <2>4, <2>5, FS_Product, Zenon
  <2>7. 1 * Extra(c, l) = Extra(c, l)
    BY <2>2
  <2>8. QED BY <1>4, <2>3, <2>4, <2>5, <2>6, <2>7, Zenon
<1>7. CASE \A k \in L : ~ (k < i)
  BY <1>2, <1>5, <1>7
<1>8. CASE \E k \in L : k < i
  <2>1. PICK l \in L : l < i
    BY <1>8
  <2>2. l \in DOMAIN c.prefixes /\ Extra(c, l) \in Nat /\ l \in Nat /\ i \in Nat
    BY <1>1, <1>2
  <2>3. ReadBefore(c, i) = Extra(c, l)
    BY <1>6, <2>1
  <2>4. \A k \in L : ~ (k < l)
    BY <1>3, <2>2
  <2>5. ReadBefore(c, l) = 0
    <3>1. l \in 1 .. Len(c.prefixes) + 1
      BY <1>1, <2>2
    <3>2. QED BY <1>5, <2>4, <3>1
  <2>6. i \in DOMAIN c.prefixes => ~ (Extra(c, i) > 0)
    BY <1>3, <2>1, <2>2
  <2>7. QED BY <1>2, <2>1, <2>2, <2>3, <2>5, <2>6
<1>9. QED BY <1>7, <1>8

\* A rule that has its bytes takes the connection as documented.
LEMMA RuleAgrees ==
    ASSUME NEW c \in Configs, NEW x \in Contents, NEW i \in DOMAIN c.prefixes,
           Cardinality({k \in DOMAIN c.prefixes : Extra(c, k) > 0}) <= 1,
           ~ Short(c, x, i)
    PROVE  Decides(c, x, i) <=> /\ c.prefixes[i].prefix # <<>>
                                /\ Starts(x.bytes, c.prefixes[i].prefix)
<1> DEFINE p == c.prefixes[i].prefix
           b == x.bytes
           e == Extra(c, i)
           r == ReadBefore(c, i)
<1>1. b \in Seq(Nat)
  BY ContentsAssumption
<1>2. p \in Seq(Nat)
  <2>1. c.prefixes[i] \in [prefix : Seq(Nat), target : STRING]
    <3>1. c.prefixes \in Seq([prefix : Seq(Nat), target : STRING])
      BY ConfigsAssumption
    <3>2. i \in 1 .. Len(c.prefixes)
      BY <3>1, LenProperties
    <3>3. QED BY <3>1, <3>2, ElementOfSeq
  <2>2. QED BY <2>1
<1>3. e \in Nat /\ r \in Nat /\ (r = 0 \/ e = 0)
  <2>0. c.prefixes \in Seq([prefix : Seq(Nat), target : STRING])
    BY ConfigsAssumption
  <2>1. i \in 1 .. Len(c.prefixes) + 1
    BY <2>0, LenProperties
  <2>2. QED BY <2>1, ReadOnce
<1>4. (Len(p) > 3 => e = Len(p) - 3) /\ (~ (Len(p) > 3) => e = 0)
  BY DEF Extra
<1>5. Len(b) \in Nat
  BY <1>1, LenProperties
<1>6. 3 + r + e <= Len(b)
  BY <1>3, <1>5 DEF Short
<1>7. ReadFor(c, x, i) = SubSeq(b, 1, 3) \o SubSeq(b, 4 + r, 3 + r + e)
  BY DEF ReadFor, Head3
<1>8. Decides(c, x, i) <=> p # <<>> /\ Starts(ReadFor(c, x, i), p)
  BY DEF Decides
<1> HIDE DEF p, b, e, r
<1>9. Starts(ReadFor(c, x, i), p) <=> Starts(b, p)
  BY <1>1, <1>2, <1>3, <1>4, <1>6, <1>7, ReadsBeginning
<1>10. QED BY <1>8, <1>9 DEF p, b

\* handoff gives a connection to the default where no target is named.
LEMMA NamedOrDefault ==
    ASSUME NEW c \in Configs
    PROVE  /\ \A i \in DOMAIN c.prefixes :
                 Known(c, c.prefixes[i].target) =
                    IF c.prefixes[i].target = "" THEN c.default ELSE c.prefixes[i].target
           /\ \A x, n : Known(c, HttpTarget(c, x, n)) =
                 IF HttpTarget(c, x, n) = "" THEN c.default ELSE HttpTarget(c, x, n)
           /\ \A t : Known(c, t) \in Registered(c)
           /\ c.default \in Registered(c)
<1>1. c.default \in Registered(c) /\ "" \notin Registered(c)
  BY ConfigsAssumption DEF Registered
<1>2. ASSUME NEW i \in DOMAIN c.prefixes, c.prefixes[i].target # ""
      PROVE  c.prefixes[i].target \in Registered(c)
  BY <1>2 DEF Registered
<1>3. ASSUME NEW x, NEW n, HttpTarget(c, x, n) # ""
      PROVE  HttpTarget(c, x, n) \in Registered(c)
  <2>1. HttpTarget(c, x, n) \in {c.httpDefault} \cup Range(c.hosts)
    BY DEF HttpTarget, Range
  <2>2. QED BY <1>3, <2>1 DEF Registered
<1>4. QED BY <1>1, <1>2, <1>3 DEF Known

\* If the rules fit, matchHTTP finds the Host line that was sent.
LEMMA HostIsFound ==
    ASSUME NEW c \in Configs, NEW x \in Contents, RulesFit(c, x)
    PROVE  HttpTarget(c, x, ReadByRules(c)) =
               IF x.host \in DOMAIN c.hosts THEN c.hosts[x.host] ELSE c.httpDefault
<1>1. CASE x.host = ""
  BY <1>1 DEF HttpTarget
<1>2. CASE x.host # ""
  <2> DEFINE m == Len(c.prefixes) + 1
             r == ReadBefore(c, m)
  <2>1. c.prefixes \in Seq([prefix : Seq(Nat), target : STRING])
    BY ConfigsAssumption
  <2>2. m \in 1 .. Len(c.prefixes) + 1
    BY <2>1, LenProperties
  <2>3. Cardinality({k \in DOMAIN c.prefixes : Extra(c, k) > 0}) <= 1
    BY DEF RulesFit
  <2>4. \A i \in 1 .. Len(c.prefixes) + 1 :
            /\ ReadBefore(c, i) \in Nat
            /\ ReadBefore(c, i) # 0 =>
                  \E k \in DOMAIN c.prefixes : Extra(c, k) = ReadBefore(c, i)
    BY <2>3, ReadOnce
  <2>5. r \in Nat /\ (r # 0 => \E k \in DOMAIN c.prefixes : Extra(c, k) = r)
    BY <2>2, <2>4
  <2>6. x.mark \in Nat /\ 3 < x.mark
    BY <1>2, ContentsAssumption
  <2>7. ReadByRules(c) = 3 + r
    BY DEF ReadByRules
  <2> HIDE DEF m, r
  <2>8. CASE r = 0
    BY <2>6, <2>7, <2>8 DEF HttpTarget, HostSeen
  <2>9. CASE r # 0
    <3>1. PICK k \in DOMAIN c.prefixes : Extra(c, k) = r
      BY <2>5, <2>9
    <3>2. 3 + r < x.mark
      BY <1>2, <3>1 DEF RulesFit
    <3>3. QED BY <2>7, <3>2 DEF HttpTarget, HostSeen
  <2>10. QED BY <2>8, <2>9
<1>3. QED BY <1>1, <1>2

\* Unless it closes the connection, dispatch does what the documentation says: the
\* bytes that a long rule reads are never missed by the rules around it, nor by
\* matchHTTP.
LEMMA DispatchAgrees ==
    ASSUME NEW c \in Configs, NEW x \in Contents, RulesFit(c, x),
           Dispatch(c, x) # "closed"
    PROVE  Dispatch(c, x) = Documented(c, x)
<1> DEFINE hits == {i \in DOMAIN c.prefixes : Decides(c, x, i)}
           docs == {i \in DOMAIN c.prefixes : /\ c.prefixes[i].prefix # <<>>
                                              /\ Starts(x.bytes, c.prefixes[i].prefix)}
           http == HttpTarget(c, x, ReadByRules(c))
<1>0. /\ Cardinality({k \in DOMAIN c.prefixes : Extra(c, k) > 0}) <= 1
      /\ hits = Hits(c, x)
  BY DEF RulesFit, Hits
<1>1. DOMAIN c.prefixes \subseteq Nat /\ Len(x.bytes) \in Nat
  <2>1. c.prefixes \in Seq([prefix : Seq(Nat), target : STRING]) /\ x.bytes \in Seq(Nat)
    BY ConfigsAssumption, ContentsAssumption
  <2>2. DOMAIN c.prefixes = 1 .. Len(c.prefixes)
    BY <2>1, LenProperties
  <2>3. QED BY <2>1, <2>2, LenProperties
<1>2. hits \subseteq Nat /\ docs \subseteq Nat
  BY <1>1
<1>3. ~ (Len(x.bytes) < 3)
  BY DEF Dispatch, Unread
<1>4. \A i \in DOMAIN c.prefixes :
          /\ Extra(c, i) \in Nat /\ ReadBefore(c, i) \in Nat
          /\ Extra(c, i) > 0 => ReadBefore(c, i) = 0
          /\ ReadBefore(c, i) # 0 =>
                 \E k \in DOMAIN c.prefixes :
                     k < i /\ ReadBefore(c, k) = 0 /\ Extra(c, k) = ReadBefore(c, i)
  <2>0. c.prefixes \in Seq([prefix : Seq(Nat), target : STRING])
    BY ConfigsAssumption
  <2>1. \A i \in DOMAIN c.prefixes : i \in 1 .. Len(c.prefixes) + 1
    BY <2>0, LenProperties
  <2>2. QED BY <1>0, <2>1, ReadOnce
<1>5. ASSUME NEW i \in DOMAIN c.prefixes, Short(c, x, i)
      PROVE  \E k \in hits : k <= i /\ Short(c, x, k)
  <2>1. CASE ReadBefore(c, i) = 0
    <3>1. Extra(c, i) # 0
      BY <1>1, <1>3, <1>4, <1>5, <2>1 DEF Short
    <3>2. c.prefixes[i].prefix # <<>>
      BY <3>1 DEF Extra
    <3>3. i \in hits
      BY <1>5, <3>2 DEF Decides
    <3>4. i <= i
      BY <1>1
    <3>5. QED BY <1>5, <3>3, <3>4
  <2>2. CASE ReadBefore(c, i) # 0
    <3>1. PICK k \in DOMAIN c.prefixes :
              k < i /\ ReadBefore(c, k) = 0 /\ Extra(c, k) = ReadBefore(c, i)
      BY <1>4, <2>2
    <3>2. Extra(c, i) = 0 /\ Extra(c, k) # 0
      BY <1>4, <2>2, <3>1
    <3>3. Short(c, x, k)
      BY <1>1, <1>4, <1>5, <3>1, <3>2 DEF Short
    <3>4. c.prefixes[k].prefix # <<>>
      BY <3>2 DEF Extra
    <3>5. k \in hits
      BY <3>3, <3>4 DEF Decides
    <3>6. k <= i
      BY <1>1, <3>1
    <3>7. QED BY <3>3, <3>5, <3>6
  <2>3. QED BY <2>1, <2>2
<1>6. \A i \in DOMAIN c.prefixes : ~ Short(c, x, i) => (i \in hits <=> i \in docs)
  BY <1>0, RuleAgrees
<1>7. Dispatch(c, x) =
        IF Len(x.bytes) < 3 \/ (hits # {} /\ Short(c, x, Min(hits))) THEN "closed"
        ELSE IF hits # {} THEN Known(c, c.prefixes[Min(hits)].target)
        ELSE IF Head3(x) \in c.http THEN Known(c, http)
        ELSE c.default
  BY <1>0 DEF Dispatch, Unread
<1> DEFINE named == CASE docs # {} -> c.prefixes[Min(docs)].target
                      [] docs = {} /\ Head3(x) \in c.http -> http
                      [] OTHER -> ""
<1>8. Documented(c, x) = IF named = "" THEN c.default ELSE named
  BY HostIsFound DEF Documented
<1>12. Known(c, http) = IF http = "" THEN c.default ELSE http
  BY NamedOrDefault
<1> HIDE DEF hits, docs, http
<1>9. CASE hits # {}
  <2>1. Min(hits) \in hits /\ \A k \in hits : Min(hits) <= k
    BY <1>2, <1>9, LeastMember
  <2> DEFINE m == Min(hits)
  <2>2. m \in DOMAIN c.prefixes
    BY <2>1 DEF hits
  <2>3. ~ Short(c, x, m)
    BY <1>7, <1>9
  <2>4. Dispatch(c, x) = Known(c, c.prefixes[m].target)
    BY <1>3, <1>7, <1>9, <2>3
  <2> HIDE DEF m
  <2>5. m \in docs
    BY <1>6, <2>1, <2>2, <2>3 DEF m
  <2>6. ASSUME NEW k \in docs PROVE m <= k
    <3>1. k \in DOMAIN c.prefixes /\ k \in Nat /\ m \in Nat
      BY <1>1, <2>2 DEF docs
    <3>2. CASE Short(c, x, k)
      <4>1. PICK j \in hits : j <= k
        BY <1>5, <3>1, <3>2
      <4>2. m <= j /\ j \in Nat
        BY <1>2, <2>1 DEF m
      <4>3. QED BY <3>1, <4>1, <4>2
    <3>3. CASE ~ Short(c, x, k)
      BY <1>6, <2>1, <3>1, <3>3 DEF m
    <3>4. QED BY <3>2, <3>3
  <2>7. Min(docs) = m
    <3>1. Min(docs) \in docs /\ \A k \in docs : Min(docs) <= k
      BY <1>2, <2>5, LeastMember
    <3>2. m \in Nat /\ Min(docs) \in Nat
      BY <1>2, <2>5, <3>1
    <3>3. m <= Min(docs) /\ Min(docs) <= m
      BY <2>5, <2>6, <3>1
    <3>4. QED BY <3>2, <3>3
  <2>8. named = c.prefixes[m].target
    BY <2>5, <2>7
  <2>9. QED BY <1>8, <2>2, <2>4, <2>8, NamedOrDefault
<1>10. CASE hits = {}
  <2>1. \A i \in DOMAIN c.prefixes : ~ Short(c, x, i)
    BY <1>5, <1>10
  <2>2. docs = {}
    BY <1>6, <1>10, <2>1 DEF docs
  <2>3. CASE Head3(x) \in c.http
    BY <1>3, <1>7, <1>8, <1>10, <1>12, <2>2, <2>3
  <2>4. CASE Head3(x) \notin c.http
    BY <1>3, <1>7, <1>8, <1>10, <2>2, <2>4
  <2>5. QED BY <2>3, <2>4
<1>11. QED BY <1>9, <1>10
-----------------------------------------------------------------------------
(* From arrival to Accept.  A connection that is on its way has the target *)
(* dispatch gave it, and a channel holds only connections that were put    *)
(* into it.                                                                *)

Passed == {"offered", "queued", "accepted"}

\* The channels that the listener was made with.
ChannelsOK ==
    /\ DOMAIN acceptor = DOMAIN queue
    /\ kind = "sniff" => cfg \in Configs /\ DOMAIN queue = Registered(cfg)
    /\ kind # "sniff" => DOMAIN queue = {Self}

\* What waits in a channel.
QueuesOK ==
    \A t \in DOMAIN queue :
        /\ queue[t] \in Seq(Conns)
        /\ \A i \in 1 .. Len(queue[t]) : st[queue[t][i]] \in {"queued", "accepted"}

\* Where dispatch has sent a connection; its session was established for it.
Sorted(c) ==
    /\ st[c] # "none" => Session[c] \in up
    /\ kind = "sniff" /\ st[c] # "none" => content[c] \in Contents
    /\ st[c] \in Passed => /\ target[c] # "closed"
                           /\ kind = "sniff" => target[c] = Dispatch(cfg, content[c])

IInv == TypeOK /\ ChannelsOK /\ QueuesOK /\ DOMAIN target = Conns /\ \A c \in Conns : Sorted(c)

\* dispatch closes the connection or names a registered target.
LEMMA DispatchTargets ==
    ASSUME NEW c \in Configs, NEW x
    PROVE  Dispatch(c, x) \in Registered(c) \cup {"closed"}
BY NamedOrDefault, Zenon DEF Dispatch

LEMMA InitIInv == Init => IInv
<1> SUFFICES ASSUME Init PROVE IInv
  OBVIOUS
<1>1. TypeOK
  <2>1. /\ kind \in Kinds /\ cfg \in Configs \cup {NoConfig}
        /\ content \in [Conns -> Contents \cup {NoContent}]
        /\ {raw, done, panicked} \subseteq BOOLEAN
        /\ gone \subseteq up /\ up \subseteq Range(Session)
        /\ st \in [Conns -> {"none", "waiting", "offered", "queued", "accepted", "closed"}]
    BY DEF Init
  <2>2. \A t \in Targets : queue[t] = <<>> /\ acceptor[t] \in {"accept", "returned"}
    BY DEF Init, Targets
  <2>3. Size \in Nat /\ Len(<<>>) = 0
    BY IngressAssumption DEF Size
  <2>4. \A c \in Conns : st[c] = "none"
    BY DEF Init
  <2>5. QED BY <2>1, <2>2, <2>3, <2>4 DEF TypeOK
<1>2. ChannelsOK
  BY DEF Init, ChannelsOK
<1>3. QueuesOK
  BY DEF Init, QueuesOK
<1>4. DOMAIN target = Conns /\ \A c \in Conns : Sorted(c)
  BY DEF Init, Sorted, Passed
<1>5. QED BY <1>1, <1>2, <1>3, <1>4 DEF IInv

\* A step that moves connection c on, and touches no channel.
LEMMA MoveKeeps ==
    ASSUME IInv, NEW c \in Conns, NEW s \in {"waiting", "offered", "closed", "accepted"},
           st[c] \notin {"queued", "accepted"}, Now(c, s),
           kind' = kind, cfg' = cfg, queue' = queue, acceptor' = acceptor,
           \A d \in Conns : d # c => content'[d] = content[d] /\ target'[d] = target[d],
           content' \in [Conns -> Contents \cup {NoContent}], DOMAIN target' = Conns,
           up \subseteq up', up' \subseteq Range(Session), gone' \subseteq up',
           Session[c] \in up', {raw', done', panicked'} \subseteq BOOLEAN,
           kind = "sniff" => content'[c] \in Contents,
           s \in Passed => /\ target'[c] # "closed" /\ target'[c] \in Targets
                           /\ kind = "sniff" => target'[c] = Dispatch(cfg, content'[c])
    PROVE  IInv'
<1>1. /\ st' = [st EXCEPT ![c] = s] /\ st'[c] = s
      /\ \A d \in Conns : d # c => st'[d] = st[d]
      /\ st' \in [Conns -> {"none", "waiting", "offered", "queued", "accepted", "closed"}]
  BY DEF Now, IInv, TypeOK
<1>2. Targets' = Targets /\ Size' = Size
  BY DEF Targets, Size, Buffered
<1>3. TypeOK'
  <2>1. \A d \in Conns : st'[d] \in {"offered", "queued", "accepted"} => target'[d] \in Targets'
    BY <1>1, <1>2 DEF IInv, TypeOK, Passed
  <2>2. \A t \in Targets' : Len(queue'[t]) <= Size' /\ acceptor'[t] \in {"accept", "returned"}
    BY <1>2 DEF IInv, TypeOK
  <2>3. QED BY <1>1, <2>1, <2>2 DEF IInv, TypeOK
<1>4. ChannelsOK'
  BY DEF IInv, ChannelsOK
<1>5. QueuesOK'
  <2>1. \A t \in DOMAIN queue : /\ queue[t] \in Seq(Conns)
                                /\ \A i \in 1 .. Len(queue[t]) : queue[t][i] \in Conns
    BY ElementOfSeq DEF IInv, QueuesOK
  <2>2. \A t \in DOMAIN queue : \A i \in 1 .. Len(queue[t]) :
            st'[queue[t][i]] \in {"queued", "accepted"}
    BY <1>1, <2>1 DEF IInv, QueuesOK
  <2>3. QED BY <2>1, <2>2 DEF QueuesOK
<1>6. \A d \in Conns : Sorted(d)'
  <2> SUFFICES ASSUME NEW d \in Conns PROVE Sorted(d)'
    OBVIOUS
  <2>1. CASE d = c
    BY <1>1, <2>1 DEF Sorted
  <2>2. CASE d # c
    BY <1>1, <2>2 DEF IInv, Sorted
  <2>3. QED BY <2>1, <2>2
<1>7. QED BY <1>3, <1>4, <1>5, <1>6 DEF IInv

\* Steps of the closing goroutines and of Accept's done case.
LEMMA CloseKeeps ==
    ASSUME IInv, fixed' = fixed, up' = up, gone' = gone, st' = st, target' = target,
           queue' = queue, {raw', done', panicked'} \subseteq BOOLEAN,
           DOMAIN acceptor' = DOMAIN acceptor,
           \A t \in DOMAIN acceptor' : acceptor'[t] \in {acceptor[t], "returned"}
    PROVE  IInv'
<1>1. kind' = kind /\ cfg' = cfg /\ content' = content
  BY DEF fixed
<1>2. Targets' = Targets /\ Size' = Size
  BY <1>1 DEF Targets, Size, Buffered
<1>3. TypeOK'
  <2>1. \A t \in Targets' : Len(queue'[t]) <= Size' /\ acceptor'[t] \in {"accept", "returned"}
    BY <1>2 DEF IInv, TypeOK, ChannelsOK, Targets
  <2>2. QED BY <1>1, <1>2, <2>1 DEF IInv, TypeOK
<1>4. ChannelsOK' /\ QueuesOK' /\ \A c \in Conns : Sorted(c)'
  BY <1>1 DEF IInv, ChannelsOK, QueuesOK, Sorted
<1>5. QED BY <1>3, <1>4 DEF IInv

LEMMA ArriveKeeps == ASSUME IInv, NEW c \in Conns, Arrive(c) PROVE IInv'
<1>1. st[c] = "none" /\ Now(c, "waiting")
  BY DEF Arrive
<1>2. PICK x \in (IF kind = "sniff" THEN Contents ELSE {NoContent}) :
          content' = [content EXCEPT ![c] = x]
  BY DEF Arrive
<1>3. /\ content' \in [Conns -> Contents \cup {NoContent}] /\ content'[c] = x
      /\ \A d \in Conns : d # c => content'[d] = content[d]
  BY <1>2 DEF IInv, TypeOK
<1>4. /\ kind' = kind /\ cfg' = cfg /\ queue' = queue /\ acceptor' = acceptor
      /\ target' = target /\ gone' = gone /\ up' = up \cup {Session[c]}
      /\ {raw', done', panicked'} = {raw, done, panicked}
  BY DEF Arrive, closing
<1>5. Session[c] \in Range(Session)
  BY IngressAssumption DEF Range
<1>6. /\ up \subseteq up' /\ up' \subseteq Range(Session) /\ gone' \subseteq up'
      /\ Session[c] \in up'
  BY <1>4, <1>5 DEF IInv, TypeOK
<1>7. {raw', done', panicked'} \subseteq BOOLEAN /\ DOMAIN target' = Conns
  BY <1>4 DEF IInv, TypeOK
<1>8. kind = "sniff" => content'[c] \in Contents
  BY <1>2, <1>3
<1>9. QED
  BY <1>1, <1>3, <1>4, <1>6, <1>7, <1>8, MoveKeeps DEF Passed

LEMMA TakeKeeps == ASSUME IInv, NEW c \in Conns, Take(c) \/ Leave(c) PROVE IInv'
<1> DEFINE t == IF kind = "sniff" THEN DispatchTable[cfg][content[c]] ELSE Self
           s == IF t = "closed" THEN "closed" ELSE "offered"
<1>0. st[c] = "waiting" /\ SendTo(c, t)
  BY DEF Take, Leave, Silent
<1>1. /\ st[c] = "waiting" /\ Now(c, s) /\ target' = [target EXCEPT ![c] = t]
      /\ kind' = kind /\ cfg' = cfg /\ content' = content /\ queue' = queue
      /\ acceptor' = acceptor /\ gone' = gone /\ up' = up
      /\ {raw', done', panicked'} = {raw, done, panicked}
  BY <1>0 DEF SendTo, fixed, closing
<1>2. /\ DOMAIN target' = Conns /\ target'[c] = t
      /\ \A d \in Conns : d # c => target'[d] = target[d]
  BY <1>1 DEF IInv
<1>3. kind = "sniff" => content[c] \in Contents /\ cfg \in Configs
  BY <1>1 DEF IInv, Sorted, ChannelsOK
<1>4. kind = "sniff" => t = Dispatch(cfg, content[c])
  BY <1>3 DEF DispatchTable
<1>5. kind = "sniff" => t \in Registered(cfg) \cup {"closed"}
  BY <1>3, <1>4, DispatchTargets
<1>6. kind # "sniff" => t = Self
  OBVIOUS
<1>7. t # "closed" => t \in Targets
  BY <1>5, <1>6 DEF IInv, ChannelsOK, Targets
<1>8. s \in Passed => /\ target'[c] # "closed" /\ target'[c] \in Targets
                      /\ kind = "sniff" => target'[c] = Dispatch(cfg, content'[c])
  BY <1>1, <1>2, <1>4, <1>7 DEF Passed
<1>9. s \in {"waiting", "offered", "closed", "accepted"}
  OBVIOUS
<1> HIDE DEF s, t
<1>10. /\ {raw', done', panicked'} \subseteq BOOLEAN
       /\ up \subseteq up' /\ up' \subseteq Range(Session) /\ gone' \subseteq up'
       /\ content' \in [Conns -> Contents \cup {NoContent}] /\ Session[c] \in up'
  BY <1>1 DEF IInv, TypeOK, Sorted
<1>11. QED
  BY <1>1, <1>2, <1>3, <1>8, <1>9, <1>10, MoveKeeps

\* Reject, Refuse and Expire close a connection that is on its way.
LEMMA DropKeeps ==
    ASSUME IInv, NEW c \in Conns, Reject(c) \/ Refuse(c) \/ Expire(c)
    PROVE  IInv'
<1>1. /\ st[c] \in {"waiting", "offered"} /\ Now(c, "closed")
      /\ kind' = kind /\ cfg' = cfg /\ content' = content /\ queue' = queue
      /\ acceptor' = acceptor /\ target' = target /\ up' = up
      /\ gone' \in {gone, gone \cup {Session[c]}}
      /\ {raw', done', panicked'} = {raw, done, panicked}
  BY DEF Reject, Refuse, Expire, fixed, closing, Serial
<1>2. Session[c] \in up /\ (kind = "sniff" => content[c] \in Contents)
  BY <1>1 DEF IInv, Sorted
<1>3. /\ {raw', done', panicked'} \subseteq BOOLEAN /\ Session[c] \in up'
      /\ up \subseteq up' /\ up' \subseteq Range(Session) /\ gone' \subseteq up'
      /\ content' \in [Conns -> Contents \cup {NoContent}] /\ DOMAIN target' = Conns
  BY <1>1, <1>2 DEF IInv, TypeOK
<1>4. QED
  BY <1>1, <1>2, <1>3, MoveKeeps DEF Passed

\* A send to an Accept that waits.
LEMMA HandKeeps ==
    ASSUME IInv, NEW c \in Conns, Offer(c), queue' = queue, Now(c, "accepted")
    PROVE  IInv'
<1>1. /\ st[c] = "offered" /\ kind' = kind /\ cfg' = cfg /\ content' = content
      /\ acceptor' = acceptor /\ target' = target /\ up' = up /\ gone' = gone
      /\ {raw', done', panicked'} = {raw, done, panicked}
  BY DEF Offer, fixed, closing
<1>2. /\ Session[c] \in up /\ (kind = "sniff" => content[c] \in Contents)
      /\ target[c] # "closed" /\ target[c] \in Targets
      /\ kind = "sniff" => target[c] = Dispatch(cfg, content[c])
  BY <1>1 DEF IInv, Sorted, TypeOK, Passed
<1>3. /\ {raw', done', panicked'} \subseteq BOOLEAN /\ Session[c] \in up'
      /\ up \subseteq up' /\ up' \subseteq Range(Session) /\ gone' \subseteq up'
      /\ content' \in [Conns -> Contents \cup {NoContent}] /\ DOMAIN target' = Conns
  BY <1>1, <1>2 DEF IInv, TypeOK
<1>4. QED
  BY <1>1, <1>2, <1>3, MoveKeeps

\* A connection that leaves its goroutine for a channel, or a channel for Accept.
LEMMA ChannelKeeps ==
    ASSUME IInv, NEW c \in Conns, st[c] \in Passed, NEW s \in {"queued", "accepted"}, Now(c, s),
           fixed' = fixed, up' = up, gone' = gone, target' = target, acceptor' = acceptor,
           closing' = closing, DOMAIN queue' = DOMAIN queue,
           \A t \in DOMAIN queue' :
               /\ queue'[t] \in Seq(Conns) /\ Len(queue'[t]) <= Size
               /\ \A i \in 1 .. Len(queue'[t]) : st'[queue'[t][i]] \in {"queued", "accepted"}
    PROVE  IInv'
<1>1. /\ st'[c] = s /\ \A d \in Conns : d # c => st'[d] = st[d]
      /\ st' \in [Conns -> {"none", "waiting", "offered", "queued", "accepted", "closed"}]
  BY DEF Now, IInv, TypeOK
<1>2. /\ kind' = kind /\ cfg' = cfg /\ content' = content
      /\ {raw', done', panicked'} = {raw, done, panicked}
  BY DEF fixed, closing
<1>3. Targets' = Targets /\ Size' = Size
  BY <1>2 DEF Targets, Size, Buffered
<1>4. TypeOK'
  <2>1. \A d \in Conns : st'[d] \in {"offered", "queued", "accepted"} => target'[d] \in Targets'
    BY <1>1, <1>3 DEF IInv, TypeOK, Passed
  <2>2. \A t \in Targets' : Len(queue'[t]) <= Size' /\ acceptor'[t] \in {"accept", "returned"}
    BY <1>3 DEF IInv, TypeOK, Targets
  <2>3. QED BY <1>1, <1>2, <2>1, <2>2 DEF IInv, TypeOK
<1>5. ChannelsOK' /\ QueuesOK'
  BY <1>2 DEF IInv, ChannelsOK, QueuesOK
<1>6. \A d \in Conns : Sorted(d)'
  BY <1>1, <1>2 DEF IInv, Sorted, Passed
<1>7. QED BY <1>4, <1>5, <1>6 DEF IInv

LEMMA OfferKeeps == ASSUME IInv, NEW c \in Conns, Offer(c) PROVE IInv'
<1>1. CASE queue' = queue /\ Now(c, "accepted")
  BY <1>1, HandKeeps
<1>2. CASE /\ Buffered /\ Len(queue[target[c]]) < Size /\ Now(c, "queued")
           /\ queue' = [queue EXCEPT ![target[c]] = Append(@, c)]
  <2>1. /\ st[c] = "offered" /\ fixed' = fixed /\ up' = up /\ gone' = gone
        /\ target' = target /\ acceptor' = acceptor /\ closing' = closing
    BY DEF Offer
  <2>2. target[c] \in DOMAIN queue
    BY <2>1 DEF IInv, TypeOK, Targets
  <2>3. /\ DOMAIN queue' = DOMAIN queue /\ queue'[target[c]] = Append(queue[target[c]], c)
        /\ \A t \in DOMAIN queue : t # target[c] => queue'[t] = queue[t]
    BY <1>2, <2>2
  <2>4. st'[c] = "queued" /\ \A d \in Conns : d # c => st'[d] = st[d]
    BY <1>2 DEF Now, IInv, TypeOK
  <2>5. ASSUME NEW t \in DOMAIN queue, NEW i \in 1 .. Len(queue[t])
        PROVE  queue[t][i] \in Conns /\ st'[queue[t][i]] \in {"queued", "accepted"}
    <3>1. queue[t][i] \in Conns /\ st[queue[t][i]] \in {"queued", "accepted"}
      BY ElementOfSeq DEF IInv, QueuesOK
    <3>2. QED BY <2>4, <3>1
  <2>6. ASSUME NEW t \in DOMAIN queue
        PROVE  /\ queue'[t] \in Seq(Conns) /\ Len(queue'[t]) <= Size
               /\ \A i \in 1 .. Len(queue'[t]) : st'[queue'[t][i]] \in {"queued", "accepted"}
    <3>1. queue[t] \in Seq(Conns) /\ Len(queue[t]) <= Size /\ Len(queue[t]) \in Nat
      BY LenProperties DEF IInv, QueuesOK, TypeOK, Targets
    <3>2. CASE t # target[c]
      BY <2>3, <2>5, <3>1, <3>2
    <3>3. CASE t = target[c]
      <4>1. /\ queue'[t] \in Seq(Conns) /\ Len(queue'[t]) = Len(queue[t]) + 1
            /\ queue'[t][Len(queue[t]) + 1] = c
            /\ \A i \in 1 .. Len(queue[t]) : queue'[t][i] = queue[t][i]
        <5>1. queue'[t] = Append(queue[t], c) /\ queue[t] \in Seq(Conns)
          BY <2>3, <3>1, <3>3
        <5>2. QED BY <5>1, AppendProperties
      <4>2. Size \in Nat /\ Len(queue[t]) < Size
        BY <1>2, <3>3, IngressAssumption DEF Size
      <4>3. Len(queue'[t]) <= Size
        BY <3>1, <4>1, <4>2
      <4>4. ASSUME NEW i \in 1 .. Len(queue'[t])
            PROVE  st'[queue'[t][i]] \in {"queued", "accepted"}
        <5>1. CASE i = Len(queue[t]) + 1
          BY <2>4, <4>1, <5>1
        <5>2. CASE i # Len(queue[t]) + 1
          <6>1. i \in 1 .. Len(queue[t])
            BY <3>1, <4>1, <5>2
          <6>2. QED BY <2>5, <4>1, <6>1
        <5>3. QED BY <5>1, <5>2
      <4>5. QED BY <4>1, <4>3, <4>4
    <3>4. QED BY <3>2, <3>3
  <2>7. QED
    BY <1>2, <2>1, <2>3, <2>6, ChannelKeeps DEF Passed
<1>3. QED BY <1>1, <1>2 DEF Offer

LEMMA AcceptKeeps == ASSUME IInv, NEW t \in Targets, Accept(t) PROVE IInv'
<1> DEFINE c == Head(queue[t])
<1>1. /\ queue[t] # <<>> /\ queue' = [queue EXCEPT ![t] = Tail(@)] /\ Now(c, "accepted")
      /\ fixed' = fixed /\ up' = up /\ gone' = gone
      /\ target' = target /\ acceptor' = acceptor /\ closing' = closing
  BY DEF Accept
<1>2. \A u \in DOMAIN queue : /\ queue[u] \in Seq(Conns) /\ Len(queue[u]) <= Size
                              /\ Len(queue[u]) \in Nat
  BY LenProperties DEF IInv, QueuesOK, TypeOK, Targets
<1>3. t \in DOMAIN queue /\ Len(queue[t]) > 0
  BY <1>1, <1>2, EmptySeq DEF Targets
<1>4. /\ c \in Conns /\ c = queue[t][1]
      /\ Tail(queue[t]) \in Seq(Conns) /\ Len(Tail(queue[t])) = Len(queue[t]) - 1
      /\ \A i \in 1 .. Len(Tail(queue[t])) : Tail(queue[t])[i] = queue[t][i + 1]
  BY <1>1, <1>2, <1>3, HeadTailProperties
<1>5. st[c] \in {"queued", "accepted"}
  BY <1>2, <1>3, <1>4 DEF IInv, QueuesOK
<1> HIDE DEF c
<1>6. /\ DOMAIN queue' = DOMAIN queue /\ queue'[t] = Tail(queue[t])
      /\ \A u \in DOMAIN queue : u # t => queue'[u] = queue[u]
  BY <1>1, <1>3
<1>7. st'[c] = "accepted" /\ \A d \in Conns : d # c => st'[d] = st[d]
  BY <1>1, <1>4 DEF Now, IInv, TypeOK
<1>8. ASSUME NEW u \in DOMAIN queue, NEW i \in 1 .. Len(queue[u])
      PROVE  st'[queue[u][i]] \in {"queued", "accepted"}
  <2>1. queue[u][i] \in Conns /\ st[queue[u][i]] \in {"queued", "accepted"}
    BY ElementOfSeq DEF IInv, QueuesOK
  <2>2. QED BY <1>7, <2>1
<1>9. ASSUME NEW u \in DOMAIN queue
      PROVE  /\ queue'[u] \in Seq(Conns) /\ Len(queue'[u]) <= Size
             /\ \A i \in 1 .. Len(queue'[u]) : st'[queue'[u][i]] \in {"queued", "accepted"}
  <2>1. CASE u # t
    BY <1>2, <1>6, <1>8, <2>1
  <2>2. CASE u = t
    <3>1. Size \in Nat
      BY IngressAssumption DEF Size
    <3>2. queue'[u] = Tail(queue[t]) /\ Len(queue'[u]) = Len(queue[t]) - 1
      BY <1>4, <1>6, <2>2
    <3>3. Len(queue[t]) \in Nat /\ Len(queue[t]) <= Size
      BY <1>2, <1>3
    <3>4. Len(queue'[u]) <= Size
      BY <3>1, <3>2, <3>3
    <3>5. ASSUME NEW i \in 1 .. Len(queue'[u])
          PROVE  st'[queue'[u][i]] \in {"queued", "accepted"}
      <4>1. i + 1 \in 1 .. Len(queue[t]) /\ i \in 1 .. Len(Tail(queue[t]))
        BY <3>2, <3>3
      <4>2. queue'[u][i] = queue[t][i + 1]
        BY <1>4, <3>2, <4>1
      <4>3. QED BY <1>3, <1>8, <4>1, <4>2
    <3>6. QED BY <1>4, <3>2, <3>4, <3>5
  <2>3. QED BY <2>1, <2>2
<1>10. QED
  BY <1>1, <1>4, <1>5, <1>6, <1>9, ChannelKeeps DEF Passed

\* Closing: the end of an Accept loop, and the steps of Close.
LEMMA ClosingKeeps ==
    ASSUME IInv, \/ \E t \in Targets : AcceptClosed(t)
                 \/ \E w \in Closers : StartClose(w) \/ CloseStep(w)
    PROVE  IInv'
<1>1. raw \in BOOLEAN /\ done \in BOOLEAN /\ panicked \in BOOLEAN
  BY DEF IInv, TypeOK
<1>2. CASE \E t \in Targets : AcceptClosed(t)
  <2>1. PICK t \in Targets : AcceptClosed(t)
    BY <1>2
  <2>2. /\ fixed' = fixed /\ up' = up /\ gone' = gone /\ st' = st /\ target' = target
        /\ queue' = queue /\ raw' = raw /\ done' = done /\ panicked' = panicked
        /\ acceptor' = [acceptor EXCEPT ![t] = "returned"]
    BY <2>1 DEF AcceptClosed, closing
  <2>3. /\ DOMAIN acceptor' = DOMAIN acceptor
        /\ \A u \in DOMAIN acceptor' : acceptor'[u] \in {acceptor[u], "returned"}
    BY <2>2
  <2>4. QED BY <1>1, <2>2, <2>3, CloseKeeps
<1>4. CASE \E w \in Closers : StartClose(w)
  BY <1>1, <1>4, CloseKeeps DEF StartClose
<1>5. CASE \E w \in Closers : CloseStep(w)
  <2>1. PICK w \in Closers : CloseStep(w)
    BY <1>5
  <2>2. /\ fixed' = fixed /\ up' = up /\ gone' = gone /\ st' = st /\ target' = target
        /\ queue' = queue /\ acceptor' = acceptor
    BY <2>1 DEF CloseStep
  <2>3. raw' \in BOOLEAN /\ done' \in BOOLEAN /\ panicked' \in BOOLEAN
    BY <2>1, Zenon DEF CloseStep
  <2>4. QED BY <1>1, <2>2, <2>3, CloseKeeps
<1>6. QED BY <1>2, <1>4, <1>5

LEMMA StutterKeeps == ASSUME IInv, UNCHANGED vars PROVE IInv'
<1>1. /\ fixed' = fixed /\ up' = up /\ gone' = gone /\ st' = st /\ target' = target
      /\ queue' = queue /\ acceptor' = acceptor
      /\ {raw', done', panicked'} = {raw, done, panicked}
  BY DEF vars, fixed
<1>2. {raw', done', panicked'} \subseteq BOOLEAN
  BY <1>1 DEF IInv, TypeOK
<1>3. QED BY <1>1, <1>2, CloseKeeps

\* What is on its way is where dispatch sent it, at any moment.
THEOREM IngressInvariant == Spec => []IInv
<1>1. IInv /\ [Next]_vars => IInv'
  <2> SUFFICES ASSUME IInv, [Next]_vars PROVE IInv'
    OBVIOUS
  <2>1. ASSUME NEW c \in Conns, Arrive(c) \/ Take(c) \/ Leave(c) \/ Reject(c)
                                \/ Offer(c) \/ Refuse(c) \/ Expire(c)
        PROVE  IInv'
    BY <2>1, ArriveKeeps, TakeKeeps, DropKeeps, OfferKeeps
  <2>2. ASSUME NEW t \in Targets, Accept(t) PROVE IInv'
    BY <2>2, AcceptKeeps
  <2>3. CASE \/ \E t \in Targets : AcceptClosed(t)
             \/ \E w \in Closers : StartClose(w) \/ CloseStep(w)
    BY <2>3, ClosingKeeps
  <2>4. CASE UNCHANGED vars
    BY <2>4, StutterKeeps
  <2>5. QED BY <2>1, <2>2, <2>3, <2>4 DEF Next
<1>2. QED
  BY <1>1, InitIInv, PTL DEF Spec

\* Types; in particular a channel never holds more than its capacity, and a
\* connection is only ever meant for a channel that New has made.
THEOREM IngressTypes == Spec => []TypeOK
<1>1. IInv => TypeOK
  BY DEF IInv
<1>2. QED BY <1>1, IngressInvariant, PTL

\* Dispatcher hands every connection to the target that the documented rules
\* name, for any rules of which at most one is longer than the first three bytes and
\* none reaches a Host line, any bytes and any number of connections, however
\* listeners are closed meanwhile and whenever clients leave.
THEOREM ConnectionsAreRouted == Spec => []Routed
<1>1. IInv => Routed
  <2> SUFFICES ASSUME IInv, NEW c \in Conns,
                      kind = "sniff", st[c] \in {"queued", "accepted"},
                      RulesFit(cfg, content[c])
               PROVE  target[c] = DocumentedTable[cfg][content[c]]
    BY DEF Routed
  <2>1. cfg \in Configs /\ content[c] \in Contents
    BY DEF IInv, ChannelsOK, Sorted
  <2>2. target[c] = Dispatch(cfg, content[c]) /\ target[c] # "closed"
    BY DEF IInv, Sorted, Passed
  <2>3. target[c] = Documented(cfg, content[c])
    BY <2>1, <2>2, DispatchAgrees
  <2>4. QED BY <2>1, <2>3 DEF DocumentedTable
<1>2. QED BY <1>1, IngressInvariant, PTL
=============================================================================
