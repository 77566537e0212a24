----------------------------- MODULE TunnelProofs ----------------------------
(* What TLAPS proves about the data plane, for any number of connections,  *)
(* chunks and frames, any window and any capacities.                       *)
EXTENDS Tunnel, FiniteSetTheorems, SequenceTheorems, TLAPS

-----------------------------------------------------------------------------
(* Counting frames on a link and chunks in a queue.                        *)

LEMMA OneFacts == \A b \in BOOLEAN : One(b) \in {0, 1}
  BY DEF One

\* Any set of indices is finite.
LEMMA FiniteIndices ==
    ASSUME NEW n \in Nat, NEW A \in SUBSET (1 .. n)
    PROVE  IsFiniteSet(A) /\ Cardinality(A) \in Nat
<1>1. IsFiniteSet(1 .. n)
  BY FS_Interval
<1>2. IsFiniteSet(A)
  BY <1>1, FS_Subset
<1>3. QED BY <1>2, FS_CardinalityType

\* The indices of a sequence's tail, and those of the sequence itself.
LEMMA ShiftedCount ==
    ASSUME NEW n \in Nat, NEW A \in SUBSET (2 .. n)
    PROVE  Cardinality({i \in 1 .. n - 1 : i + 1 \in A}) = Cardinality(A)
<1> DEFINE B == {i \in 1 .. n - 1 : i + 1 \in A}
           g == [i \in B |-> i + 1]
<1>1. IsFiniteSet(B)
  <2>1. n \in Nat /\ B \in SUBSET (1 .. n)
    OBVIOUS
  <2> HIDE DEF B
  <2>2. QED BY <2>1, FiniteIndices
<1>2. g \in [B -> A] /\ \A i \in B : g[i] = i + 1
  OBVIOUS
<1>3. \A i, j \in B : g[i] = g[j] => i = j
  BY <1>2
<1>4. \A y \in A : \E i \in B : g[i] = y
  <2> SUFFICES ASSUME NEW y \in A PROVE \E i \in B : g[i] = y
    OBVIOUS
  <2>1. y - 1 \in B /\ (y - 1) + 1 = y
    OBVIOUS
  <2>2. QED BY <1>2, <2>1
<1>5. g \in Bijection(B, A)
  BY <1>2, <1>3, <1>4 DEF Bijection, Injection, Surjection, IsInjective
<1>6. QED
  BY <1>1, <1>5, FS_Bijection DEF ExistsBijection

\* One more frame at the end of a link.
LEMMA CountAppend ==
    ASSUME NEW F, NEW l \in Seq(F), NEW f \in F, NEW t, NEW c
    PROVE  /\ Count(l, t, c) \in Nat
           /\ Count(Append(l, f), t, c) = Count(l, t, c) + One(f.t = t /\ f.c = c)
<1> DEFINE m == Append(l, f)
           A == {i \in 1 .. Len(l) : l[i].t = t /\ l[i].c = c}
           B == {i \in 1 .. Len(l) + 1 : m[i].t = t /\ m[i].c = c}
<1>1. /\ Len(l) \in Nat /\ DOMAIN l = 1 .. Len(l) /\ DOMAIN m = 1 .. Len(l) + 1
      /\ m[Len(l) + 1] = f /\ \A i \in 1 .. Len(l) : m[i] = l[i]
  BY AppendProperties, LenProperties
<1>2. Count(l, t, c) = Cardinality(A) /\ Count(m, t, c) = Cardinality(B)
  BY <1>1 DEF Count
<1> HIDE DEF m
<1>3. IsFiniteSet(A) /\ Cardinality(A) \in Nat
  <2>1. A \in SUBSET (1 .. Len(l))
    OBVIOUS
  <2> HIDE DEF A
  <2>2. QED BY <1>1, <2>1, FiniteIndices
<1>4. CASE f.t = t /\ f.c = c
  <2>1. B = A \cup {Len(l) + 1} /\ Len(l) + 1 \notin A
    BY <1>1, <1>4
  <2> HIDE DEF A, B
  <2>2. Cardinality(B) = Cardinality(A) + 1
    BY <1>3, <2>1, FS_AddElement
  <2>3. One(f.t = t /\ f.c = c) = 1
    BY <1>4 DEF One
  <2>4. QED BY <1>2, <1>3, <2>2, <2>3 DEF m
<1>5. CASE ~(f.t = t /\ f.c = c)
  <2>1. B = A
    BY <1>1, <1>5
  <2> HIDE DEF A, B
  <2>2. QED
    BY <1>2, <1>3, <1>5, <2>1 DEF One, m
<1>6. QED BY <1>4, <1>5

\* One frame less at its beginning.
LEMMA CountTail ==
    ASSUME NEW F, NEW l \in Seq(F), l # <<>>, NEW t, NEW c
    PROVE  /\ Count(l, t, c) \in Nat /\ Count(Tail(l), t, c) \in Nat
           /\ Count(l, t, c) = Count(Tail(l), t, c) + One(Head(l).t = t /\ Head(l).c = c)
<1> DEFINE m == Tail(l)
           A == {i \in 1 .. Len(l) : l[i].t = t /\ l[i].c = c}
           D == A \ {1}
           B == {i \in 1 .. Len(l) - 1 : m[i].t = t /\ m[i].c = c}
<1>1. /\ Len(l) \in Nat /\ Len(l) > 0 /\ DOMAIN l = 1 .. Len(l) /\ DOMAIN m = 1 .. Len(l) - 1
      /\ Head(l) = l[1] /\ \A i \in 1 .. Len(l) - 1 : m[i] = l[i + 1]
  BY HeadTailProperties, LenProperties, EmptySeq
<1>2. Count(l, t, c) = Cardinality(A) /\ Count(m, t, c) = Cardinality(B)
  BY <1>1 DEF Count
<1> HIDE DEF m
<1>3. IsFiniteSet(A) /\ Cardinality(A) \in Nat
  <2>1. A \in SUBSET (1 .. Len(l))
    OBVIOUS
  <2> HIDE DEF A
  <2>2. QED BY <1>1, <2>1, FiniteIndices
<1>4. B = {i \in 1 .. Len(l) - 1 : i + 1 \in D} /\ D \in SUBSET (2 .. Len(l))
  BY <1>1
<1>5. 1 \in A <=> Head(l).t = t /\ Head(l).c = c
  BY <1>1
<1> HIDE DEF A, B
<1>6. Cardinality(B) = Cardinality(D)
  <2> HIDE DEF D
  <2>1. QED BY <1>1, <1>4, ShiftedCount
<1>7. Cardinality(D) = IF 1 \in A THEN Cardinality(A) - 1 ELSE Cardinality(A)
  BY <1>3, FS_RemoveElement
<1>8. IsFiniteSet(D) /\ Cardinality(D) \in Nat
  BY <1>3, FS_RemoveElement, FS_CardinalityType
<1>9. QED
  BY <1>2, <1>3, <1>5, <1>6, <1>7, <1>8 DEF One, m

\* Chunks in a queue; the sentinel of a half close is not one.
Chunks(q) == Cardinality({i \in DOMAIN q : q[i] # NilItem})

LEMMA ChunksAppend ==
    ASSUME NEW q \in Seq(Nat), NEW x \in Nat
    PROVE  Chunks(q) \in Nat /\ Chunks(Append(q, x)) = Chunks(q) + One(x # NilItem)
<1> DEFINE m == Append(q, x)
           A == {i \in 1 .. Len(q) : q[i] # NilItem}
           B == {i \in 1 .. Len(q) + 1 : m[i] # NilItem}
<1>1. /\ Len(q) \in Nat /\ DOMAIN q = 1 .. Len(q) /\ DOMAIN m = 1 .. Len(q) + 1
      /\ m[Len(q) + 1] = x /\ \A i \in 1 .. Len(q) : m[i] = q[i]
  BY AppendProperties, LenProperties
<1>2. Chunks(q) = Cardinality(A) /\ Chunks(m) = Cardinality(B)
  BY <1>1 DEF Chunks
<1> HIDE DEF m
<1>3. IsFiniteSet(A) /\ Cardinality(A) \in Nat
  <2>1. A \in SUBSET (1 .. Len(q))
    OBVIOUS
  <2> HIDE DEF A
  <2>2. QED BY <1>1, <2>1, FiniteIndices
<1>4. CASE x # NilItem
  <2>1. B = A \cup {Len(q) + 1} /\ Len(q) + 1 \notin A
    BY <1>1, <1>4
  <2> HIDE DEF A, B
  <2>2. QED
    BY <1>2, <1>3, <1>4, <2>1, FS_AddElement DEF One, m
<1>5. CASE x = NilItem
  <2>1. B = A
    BY <1>1, <1>5
  <2> HIDE DEF A, B
  <2>2. QED
    BY <1>2, <1>3, <1>5, <2>1 DEF One, m
<1>6. QED BY <1>4, <1>5

LEMMA ChunksTail ==
    ASSUME NEW q \in Seq(Nat), q # <<>>
    PROVE  /\ Chunks(q) \in Nat /\ Chunks(Tail(q)) \in Nat
           /\ Chunks(q) = Chunks(Tail(q)) + One(Head(q) # NilItem)
<1> DEFINE m == Tail(q)
           A == {i \in 1 .. Len(q) : q[i] # NilItem}
           D == A \ {1}
           B == {i \in 1 .. Len(q) - 1 : m[i] # NilItem}
<1>1. /\ Len(q) \in Nat /\ Len(q) > 0 /\ DOMAIN q = 1 .. Len(q) /\ DOMAIN m = 1 .. Len(q) - 1
      /\ Head(q) = q[1] /\ \A i \in 1 .. Len(q) - 1 : m[i] = q[i + 1]
  BY HeadTailProperties, LenProperties, EmptySeq
<1>2. Chunks(q) = Cardinality(A) /\ Chunks(m) = Cardinality(B)
  BY <1>1 DEF Chunks
<1> HIDE DEF m
<1>3. IsFiniteSet(A) /\ Cardinality(A) \in Nat
  <2>1. A \in SUBSET (1 .. Len(q))
    OBVIOUS
  <2> HIDE DEF A
  <2>2. QED BY <1>1, <2>1, FiniteIndices
<1>4. B = {i \in 1 .. Len(q) - 1 : i + 1 \in D} /\ D \in SUBSET (2 .. Len(q))
  BY <1>1
<1>5. 1 \in A <=> Head(q) # NilItem
  BY <1>1
<1> HIDE DEF A, B
<1>6. Cardinality(B) = Cardinality(D)
  <2> HIDE DEF D
  <2>1. QED BY <1>1, <1>4, ShiftedCount
<1>7. Cardinality(D) = IF 1 \in A THEN Cardinality(A) - 1 ELSE Cardinality(A)
  BY <1>3, FS_RemoveElement
<1>8. IsFiniteSet(D) /\ Cardinality(D) \in Nat
  BY <1>3, FS_RemoveElement, FS_CardinalityType
<1>9. QED
  BY <1>2, <1>3, <1>5, <1>6, <1>7, <1>8 DEF One, m

-----------------------------------------------------------------------------
(* The invariant.  Types with every capacity; then, for each connection,   *)
(* how far the two ends can be apart.                                      *)

\* Frames of the server and of the client about the connections cs.
ServerFrames(cs) ==
    {f \in [t : {"open", "data", "half", "full", "wu"}, c : cs, v : Nat] :
        (f.t = "data" => f.v # 0) /\ (f.t = "wu" => f.v = Undecodable)}

ClientFrames(cs) ==
    {f \in [t : {"ack", "data", "half", "full", "wu"}, c : cs, v : Nat] :
        (f.t = "ack" => f.v \in {0, 1}) /\ (f.t = "wu" => f.v = 1)}

\* What each goroutine may have in its outbox.
UplinkFrames(c) == {None} \cup {f \in ServerFrames({c}) : f.t # "wu"}
DownlinkFrames(c) == {None} \cup {f \in ServerFrames({c}) : f.t \in {"full", "wu"}}
WriterFrames(c) == {None} \cup {f \in ClientFrames({c}) : f.t \in {"full", "wu"}}
PumpFrames(c) == {None} \cup {f \in ClientFrames({c}) : f.t \in {"data", "half", "full"}}
AckFrames == {None} \cup {f \in ClientFrames(Conns) : f.t = "ack"}

UpTo(n) == {q \in Seq(Nat) : Len(q) <= n}

ServerRecords(c) ==
    [up : {"off", "picked", "opening", "read", "acquire", "send", "eof", "wait", "ended"},
     stream : StreamIDs \cup {0}, waiting : BOOLEAN, ack : {"none", "ok", "nack"},
     hub : BOOLEAN, sink : UpTo(SinkCap), done : BOOLEAN, remoteClosed : BOOLEAN,
     out : 0 .. Win, winClosed : BOOLEAN, upDone : BOOLEAN, downDone : BOOLEAN,
     down : {"off", "run", "drain", "quiet", "ended"}, torn : BOOLEAN, mcClosed : BOOLEAN,
     pending : 0 .. Batch - 1, outU : UplinkFrames(c), outD : DownlinkFrames(c),
     sent : Nat, got : Seq(Nat)]

ClientRecords(c) ==
    [reg : BOOLEAN, inQ : BOOLEAN, q : UpTo(QCap), qClosed : BOOLEAN,
     out : 0 .. Win, winClosed : BOOLEAN, wp : {"off", "run", "ended"},
     up : {"off", "read", "acquire", "send", "finished", "ended"},
     conn : {"none", "open", "closed"}, eof : BOOLEAN,
     outW : WriterFrames(c), outP : PumpFrames(c), sent : Nat, got : Seq(Nat)]

Types ==
    /\ DOMAIN S = Conns /\ DOMAIN C = Conns
    /\ \A c \in Conns : S[c] \in ServerRecords(c) /\ C[c] \in ClientRecords(c)
    /\ streams \subseteq StreamIDs
    /\ s2c \in Seq(ServerFrames(Conns)) /\ Len(s2c) <= LinkCap
    /\ c2s \in Seq(ClientFrames(Conns)) /\ Len(c2s) <= LinkCap
    /\ sess \in {"up", "down"}
    /\ srl \in (Conns \X Nat) \cup {NoItem}
    /\ crl \in (Conns \X Nat) \cup {NoItem}
    /\ crl # NoItem => C[crl[1]].conn # "none"
    /\ crlOut \in AckFrames
    /\ \A i \in 1 .. Len(c2s) : c2s[i].t = "ack" /\ c2s[i].v = 1 => C[c2s[i].c].conn # "none"

\* The requests for connection c that are under way: in the outbox, among the o
\* on the link, or answered by the client's read loop (a).
Opening(s, o, a) == One(s.outU.t = "open") + o + a

\* The chunks of c that are under way, and the credit for them: n chunks and w
\* window updates are on the links, x are in the hands of the client's read loop.
Flight(s, k, n, x, w) ==
    One(s.outU.t = "data") + n + x + Chunks(k.q) + One(k.outW.t = "wu") + w

\* What relates the server's state s and the client's state k of one connection,
\* with o requests, n chunks and f full closes on the way to the client, w window
\* updates and z full closes on the way to the server, a answer and x chunk in the
\* hands of the client's read loop.
ConnInv(s, k, o, n, f, a, x, w, z, live) ==
    /\ s.up \in {"off", "picked", "read", "acquire"} => s.outU = None
    /\ s.up \in {"off", "picked"} =>
          ~s.hub /\ s.down = "off" /\ s.outD = None /\ f = 0 /\ k.conn = "none"
          /\ Opening(s, o, a) = 0
    /\ s.up \in {"off", "picked", "opening"} => s.out = 0
    /\ s.up = "acquire" => s.sent # 0
    /\ Opening(s, o, a) <= 1
    /\ Opening(s, o, a) # 0 => k.conn = "none"
    /\ k.conn = "none" =>
          /\ ~k.reg /\ ~k.inQ /\ k.q = <<>> /\ k.up \in {"off", "ended"} /\ k.wp # "run"
          /\ k.outW = None /\ k.outP = None
          /\ n = 0 /\ x = 0 /\ w = 0 /\ z = 0
          /\ s.up \in {"off", "picked", "opening", "ended"} /\ s.ack # "ok"
          /\ s.outU.t \notin {"data", "half"}
          /\ s.hub => s.up = "opening"
    /\ s.outU.t = "full" \/ s.outD.t = "full" \/ f # 0 => ~s.hub
    /\ k.reg => k.inQ
    /\ k.up \in {"read", "acquire"} => k.outP = None
    /\ s.hub => Flight(s, k, n, x, w) <= s.out
    /\ live /\ s.hub /\ k.reg => Flight(s, k, n, x, w) = s.out
    /\ live /\ s.hub /\ k.conn # "none" =>
          k.reg \/ z # 0 \/ k.outW.t = "full" \/ k.outP.t = "full"

\* The chunk or the answer that the client's read loop has in hand.
Item(c) == One(crl[1] = c /\ crl[2] # NilItem)
Answer(c) == One(crlOut.t = "ack" /\ crlOut.c = c)

Together(c) ==
    ConnInv(S[c], C[c], Count(s2c, "open", c), Count(s2c, "data", c), Count(s2c, "full", c),
            Answer(c), Item(c), Count(c2s, "wu", c), Count(c2s, "full", c), sess = "up")

TInv == Types /\ \A c \in Conns : Together(c)

-----------------------------------------------------------------------------
(* Steps of one end, as far as the invariant sees them.                    *)

\* A step of the server that neither takes nor returns credit nor sends: it may
\* give up the mapping, and announce a half or a full close.
ServerMoves(s, r, k) ==
    /\ r.out = s.out /\ (r.hub => s.hub)
    /\ r.outU = s.outU \/ (s.outU = None /\ r.outU.t \in {"half", "full"})
    /\ r.up \in {"off", "picked"} =>
          s.up \in {"off", "picked"} /\ r.down = s.down /\ r.outD = s.outD /\ r.outU = s.outU
    /\ r.up = "opening" => s.up = "opening"
    /\ r.up \in {"read", "acquire"} => r.outU = None
    /\ r.up = "acquire" => r.sent # 0
    /\ r.outU.t = "full" => s.outU.t = "full" \/ ~r.hub
    /\ r.outD.t = "full" => s.outD.t = "full" \/ ~r.hub
    /\ k.conn = "none" =>
          /\ r.up \in {"off", "picked", "opening", "ended"} /\ r.ack # "ok"
          /\ r.hub => r.up = "opening"
          /\ r.outU.t # "half" \/ r.outU = s.outU

LEMMA ServerMovesFit ==
    ASSUME NEW s, NEW r, NEW k, NEW o \in Nat, NEW n \in Nat, NEW f \in Nat, NEW a \in Nat,
           NEW x \in Nat, NEW w \in Nat, NEW z \in Nat, NEW live \in BOOLEAN,
           Chunks(k.q) \in Nat, ConnInv(s, k, o, n, f, a, x, w, z, live), ServerMoves(s, r, k)
    PROVE  ConnInv(r, k, o, n, f, a, x, w, z, live)
<1>1. None.t = "none"
  BY DEF None
<1>2. One(r.outU.t = "open") = One(s.outU.t = "open") /\ One(r.outU.t = "data") = One(s.outU.t = "data")
  BY <1>1 DEF One, ServerMoves
<1>3. Opening(r, o, a) = Opening(s, o, a) /\ Flight(r, k, n, x, w) = Flight(s, k, n, x, w)
  BY <1>2 DEF Opening, Flight
<1>4. r.outU.t = "data" => s.outU.t = "data"
  BY <1>1 DEF ServerMoves
<1>5. QED
  BY <1>3, <1>4 DEF ConnInv, ServerMoves

\* A step of the client, or of a link, on a connection that the client knows or
\* knew: what leaves one place of the flight enters the next or is lost, and it is
\* lost only when one of the two ends gives the connection up or the session breaks.
ClientMoves(k, m, n, x, w, z, n2, x2, w2, z2, told) ==
    /\ k.conn # "none" /\ m.conn # "none" /\ (m.reg => k.reg /\ m.inQ)
    /\ Chunks(k.q) \in Nat /\ Chunks(m.q) \in Nat
    /\ n2 + x2 + Chunks(m.q) + One(m.outW.t = "wu") + w2
         <= n + x + Chunks(k.q) + One(k.outW.t = "wu") + w
    /\ told /\ m.reg => n2 + x2 + Chunks(m.q) + One(m.outW.t = "wu") + w2
                         = n + x + Chunks(k.q) + One(k.outW.t = "wu") + w
    /\ told /\ (k.reg \/ z # 0 \/ k.outW.t = "full" \/ k.outP.t = "full") =>
          m.reg \/ z2 # 0 \/ m.outW.t = "full" \/ m.outP.t = "full"
    /\ m.up \in {"read", "acquire"} => m.outP = None

LEMMA ClientMovesFit ==
    ASSUME NEW s, NEW k, NEW m, NEW o \in Nat, NEW n \in Nat, NEW f \in Nat, NEW a \in Nat,
           NEW x \in Nat, NEW w \in Nat, NEW z \in Nat, NEW live \in BOOLEAN,
           NEW n2 \in Nat, NEW f2 \in Nat, NEW x2 \in Nat, NEW w2 \in Nat, NEW z2 \in Nat,
           NEW live2 \in BOOLEAN, s.out \in Int,
           ConnInv(s, k, o, n, f, a, x, w, z, live),
           ClientMoves(k, m, n, x, w, z, n2, x2, w2, z2, live2 /\ s.hub),
           live2 => live, f = 0 => f2 = 0
    PROVE  ConnInv(s, m, o, n2, f2, a, x2, w2, z2, live2)
<1>1. One(s.outU.t = "data") \in Nat /\ One(k.outW.t = "wu") \in Nat /\ One(m.outW.t = "wu") \in Nat
  BY DEF One
<1>2. /\ Flight(s, m, n2, x2, w2) \in Nat /\ Flight(s, k, n, x, w) \in Nat
      /\ Flight(s, m, n2, x2, w2) <= Flight(s, k, n, x, w)
      /\ live2 /\ s.hub /\ m.reg => Flight(s, m, n2, x2, w2) = Flight(s, k, n, x, w)
  BY <1>1 DEF Flight, ClientMoves
<1>3. s.up \notin {"off", "picked"} /\ Opening(s, o, a) = 0
  BY DEF ConnInv, ClientMoves
<1>4. s.hub => Flight(s, k, n, x, w) <= s.out
  BY DEF ConnInv
<1>5. live2 /\ s.hub /\ m.reg => Flight(s, k, n, x, w) = s.out
  BY DEF ConnInv, ClientMoves
<1>6. live2 /\ s.hub => m.reg \/ z2 # 0 \/ m.outW.t = "full" \/ m.outP.t = "full"
  BY DEF ConnInv, ClientMoves
<1>7. s.hub => Flight(s, m, n2, x2, w2) <= s.out
  BY <1>2, <1>4
<1>8. live2 /\ s.hub /\ m.reg => Flight(s, m, n2, x2, w2) = s.out
  BY <1>2, <1>5
<1>9. QED
  BY <1>3, <1>6, <1>7, <1>8 DEF ConnInv, ClientMoves

\* Frames that are lost, or taken from a link, without a mapping at the server.
LEMMA UnmappedFits ==
    ASSUME NEW s, NEW k, NEW o, NEW n, NEW f, NEW a, NEW x, NEW w \in Nat, NEW z \in Nat,
           NEW live, ConnInv(s, k, o, n, f, a, x, w, z, live), ~s.hub,
           NEW w2 \in 0 .. w, NEW z2 \in 0 .. z
    PROVE  ConnInv(s, k, o, n, f, a, x, w2, z2, live)
BY DEF ConnInv

-----------------------------------------------------------------------------
(* What the invariant needs of the variables around one connection.        *)

\* The numbers the invariant is about.
LEMMA Amounts ==
    ASSUME Types, NEW c \in Conns
    PROVE  /\ Count(s2c, "open", c) \in Nat /\ Count(s2c, "data", c) \in Nat
           /\ Count(s2c, "full", c) \in Nat /\ Count(c2s, "wu", c) \in Nat
           /\ Count(c2s, "full", c) \in Nat /\ Answer(c) \in Nat /\ Item(c) \in Nat
           /\ Chunks(C[c].q) \in Nat /\ (sess = "up") \in BOOLEAN
<1>1. ASSUME NEW F, NEW l \in Seq(F), NEW t PROVE Count(l, t, c) \in Nat
  <2> DEFINE A == {i \in 1 .. Len(l) : l[i].t = t /\ l[i].c = c}
  <2>1. Len(l) \in Nat /\ A \in SUBSET (1 .. Len(l)) /\ DOMAIN l = 1 .. Len(l)
    BY <1>1, LenProperties
  <2>2. Count(l, t, c) = Cardinality(A)
    BY <2>1 DEF Count
  <2> HIDE DEF A
  <2>3. QED BY <2>1, <2>2, FiniteIndices
<1>2. Chunks(C[c].q) \in Nat
  <2>1. C[c].q \in Seq(Nat)
    BY DEF Types, ClientRecords, UpTo
  <2>2. QED BY <2>1, ChunksAppend
<1>3. s2c \in Seq(ServerFrames(Conns)) /\ c2s \in Seq(ClientFrames(Conns))
  BY DEF Types
<1>4. Answer(c) \in Nat /\ Item(c) \in Nat
  BY DEF Answer, Item, One
<1>5. QED BY <1>1, <1>2, <1>3, <1>4

\* A connection that a step does not touch.
LEMMA Untouched ==
    ASSUME NEW d \in Conns, Together(d), S'[d] = S[d], C'[d] = C[d], sess' = sess,
           \A t \in {"open", "data", "full"} : Count(s2c', t, d) = Count(s2c, t, d),
           \A t \in {"wu", "full"} : Count(c2s', t, d) = Count(c2s, t, d),
           Answer(d)' = Answer(d), Item(d)' = Item(d)
    PROVE  Together(d)'
BY DEF Together

\* A frame about c leaves the counts of other connections alone.
LEMMA OtherCounts ==
    ASSUME NEW F, NEW l \in Seq(F), NEW f \in F, NEW d, f.c # d, NEW t
    PROVE  Count(Append(l, f), t, d) = Count(l, t, d)
<1>1. One(f.t = t /\ f.c = d) = 0
  BY DEF One
<1>2. Count(l, t, d) \in Nat /\ Count(Append(l, f), t, d) = Count(l, t, d) + One(f.t = t /\ f.c = d)
  BY CountAppend
<1>3. QED BY <1>1, <1>2

LEMMA OtherTail ==
    ASSUME NEW F, NEW l \in Seq(F), l # <<>>, NEW d, Head(l).c # d, NEW t
    PROVE  Count(Tail(l), t, d) = Count(l, t, d)
<1>1. One(Head(l).t = t /\ Head(l).c = d) = 0
  BY DEF One
<1>2. /\ Count(Tail(l), t, d) \in Nat
      /\ Count(l, t, d) = Count(Tail(l), t, d) + One(Head(l).t = t /\ Head(l).c = d)
  BY CountTail
<1>3. QED BY <1>1, <1>2

\* A step of the server's goroutines on connection c that sends nothing.
LEMMA ServerOwn ==
    ASSUME TInv, NEW c \in Conns, NEW r \in ServerRecords(c), S' = [S EXCEPT ![c] = r],
           UNCHANGED <<C, s2c, c2s, sess, crl, crlOut>>,
           streams' \subseteq streams, srl' \in {srl, NoItem},
           ConnInv(r, C[c], Count(s2c, "open", c), Count(s2c, "data", c), Count(s2c, "full", c),
                   Answer(c), Item(c), Count(c2s, "wu", c), Count(c2s, "full", c), sess = "up")
    PROVE  TInv'
<1>1. DOMAIN S' = Conns /\ S'[c] = r /\ \A d \in Conns : d # c => S'[d] = S[d]
  BY DEF TInv, Types
<1>2. Types'
  BY <1>1 DEF TInv, Types
<1>3. \A d \in Conns : Answer(d)' = Answer(d) /\ Item(d)' = Item(d)
  BY DEF Answer, Item
<1>4. Together(c)'
  BY <1>1, <1>3 DEF Together
<1>5. ASSUME NEW d \in Conns, d # c PROVE Together(d)'
  BY <1>1, <1>3, <1>5, Untouched DEF TInv
<1>6. QED BY <1>2, <1>4, <1>5 DEF TInv

\* The same for one that only moves on.
LEMMA ServerMovesStep ==
    ASSUME TInv, NEW c \in Conns, NEW r \in ServerRecords(c), S' = [S EXCEPT ![c] = r],
           UNCHANGED <<C, s2c, c2s, sess, crl, crlOut>>,
           streams' \subseteq streams, srl' \in {srl, NoItem},
           ServerMoves(S[c], r, C[c])
    PROVE  TInv'
<1>1. Together(c) /\ Types
  BY DEF TInv
<1>2. ConnInv(r, C[c], Count(s2c, "open", c), Count(s2c, "data", c), Count(s2c, "full", c),
              Answer(c), Item(c), Count(c2s, "wu", c), Count(c2s, "full", c), sess = "up")
  BY <1>1, Amounts, ServerMovesFit DEF Together
<1>3. QED BY <1>2, ServerOwn

\* Teardown takes the mapping away and announces that, if it is there.
LEMMA TeardownFacts ==
    ASSUME NEW c \in Conns, NEW s \in ServerRecords(c), NEW o \in {"outU", "outD"}
    PROVE  LET r == Teardown(c, s, o)
           IN  /\ r \in ServerRecords(c)
               /\ r.up = s.up /\ r.down = s.down /\ r.out = s.out /\ r.ack = s.ack /\ r.sent = s.sent
               /\ r.sink = s.sink
               /\ \/ r.hub = s.hub /\ r.outU = s.outU /\ r.outD = s.outD
                  \/ /\ ~r.hub
                     /\ o = "outU" => r.outU.t = "full" /\ r.outD = s.outD
                     /\ o = "outD" => r.outD.t = "full" /\ r.outU = s.outU
<1> DEFINE g == Frame("full", c, 0)
<1>1. /\ g.t = "full" /\ g \in UplinkFrames(c) /\ g \in DownlinkFrames(c)
  BY DEF Frame, UplinkFrames, DownlinkFrames, ServerFrames
<1> HIDE DEF g
<1>2. CASE s.torn
  BY <1>2 DEF Teardown
<1>3. CASE ~s.torn /\ ~s.hub
  BY <1>3 DEF Teardown, ServerRecords
<1>4. CASE ~s.torn /\ s.hub
  <2>1. CASE o = "outU"
    <3>1. Teardown(c, s, o) = [s EXCEPT !.done = TRUE, !.winClosed = TRUE, !.torn = TRUE,
                                        !.hub = FALSE, !.outU = g]
      BY <1>4, <2>1 DEF Teardown, EntryClosed, ServerRecords, g
    <3>2. QED BY <1>1, <2>1, <3>1, ZenonT(60) DEF ServerRecords
  <2>2. CASE o = "outD"
    <3>1. Teardown(c, s, o) = [s EXCEPT !.done = TRUE, !.winClosed = TRUE, !.torn = TRUE,
                                        !.hub = FALSE, !.outD = g]
      BY <1>4, <2>2 DEF Teardown, EntryClosed, ServerRecords, g
    <3>2. QED BY <1>1, <2>2, <3>1, ZenonT(60) DEF ServerRecords
  <2>3. QED BY <2>1, <2>2
<1>5. QED BY <1>2, <1>3, <1>4

-----------------------------------------------------------------------------
(* The server's handler of one connection.                                 *)

\* What the handler may rely on.
LEMMA HandlerFacts ==
    ASSUME TInv, NEW c \in Conns
    PROVE  /\ S[c] \in ServerRecords(c) /\ C[c] \in ClientRecords(c)
           /\ S[c].up \in {"off", "picked", "read", "acquire"} => S[c].outU = None
           /\ S[c].up \in {"off", "picked"} => ~S[c].hub /\ S[c].down = "off"
           /\ S[c].up \in {"off", "picked", "opening"} => S[c].out = 0
           /\ S[c].up = "acquire" => S[c].sent # 0
           /\ C[c].conn = "none" => /\ S[c].up \in {"off", "picked", "opening", "ended"}
                                    /\ S[c].ack # "ok"
                                    /\ S[c].hub => S[c].up = "opening"
BY DEF TInv, Types, Together, ConnInv

\* An external connection arrives.
LEMMA PickStep ==
    ASSUME TInv, NEW c \in Conns, PickEntry(c)
    PROVE  TInv'
<1>1. PICK id \in streams : S' = [S EXCEPT ![c] = [S[c] EXCEPT !.up = "picked", !.stream = id]]
  BY DEF PickEntry, SetS
<1> DEFINE r == [S[c] EXCEPT !.up = "picked", !.stream = id]
<1>2. id \in StreamIDs /\ S[c].up = "off" /\ S[c] \in ServerRecords(c)
  BY HandlerFacts DEF TInv, Types, PickEntry
<1>3. /\ r \in ServerRecords(c) /\ r.up = "picked"
      /\ r.out = S[c].out /\ r.hub = S[c].hub /\ r.outU = S[c].outU /\ r.outD = S[c].outD
      /\ r.down = S[c].down /\ r.ack = S[c].ack
  BY <1>2 DEF ServerRecords
<1>4. S' = [S EXCEPT ![c] = r] /\ UNCHANGED <<C, streams, s2c, c2s, sess, srl, crl, crlOut>>
  BY <1>1 DEF PickEntry, links, serverLoop, clientLoop
<1> HIDE DEF r
<1>5. ServerMoves(S[c], r, C[c])
  BY <1>2, <1>3, HandlerFacts DEF ServerMoves
<1>6. QED BY <1>3, <1>4, <1>5, ServerMovesStep

\* The request is refused, or not answered in time.
LEMMA OpenFailedStep ==
    ASSUME TInv, NEW c \in Conns, S[c].up = "opening", S[c].outU = None,
           S' = [S EXCEPT ![c] = OpenFailed(S[c])],
           UNCHANGED <<C, streams, s2c, c2s, sess, srl, crl, crlOut>>
    PROVE  TInv'
<1> DEFINE r == OpenFailed(S[c])
<1>1. r = [S[c] EXCEPT !.done = TRUE, !.winClosed = TRUE, !.hub = FALSE, !.up = "ended",
                       !.mcClosed = TRUE, !.outU = None]
  BY HandlerFacts DEF OpenFailed, EntryClosed, ServerRecords
<1>2. /\ r \in ServerRecords(c) /\ r.up = "ended" /\ ~r.hub /\ r.outU = None
      /\ r.out = S[c].out /\ r.outD = S[c].outD /\ r.ack = S[c].ack
  <2>1. S[c] \in ServerRecords(c) /\ None \in UplinkFrames(c)
    BY HandlerFacts DEF UplinkFrames
  <2>2. QED BY <1>1, <2>1, ZenonT(60) DEF ServerRecords
<1>3. S' = [S EXCEPT ![c] = r]
  OBVIOUS
<1> HIDE DEF r
<1>4. ServerMoves(S[c], r, C[c])
  BY <1>2, HandlerFacts DEF ServerMoves, None
<1>5. QED BY <1>2, <1>3, <1>4, ServerMovesStep

LEMMA OpenAnsweredStep ==
    ASSUME TInv, NEW c \in Conns, OpenAnswered(c) \/ OpenTimeout(c)
    PROVE  TInv'
<1>1. /\ S[c].up = "opening" /\ S[c].outU = None
      /\ UNCHANGED <<C, streams, s2c, c2s, sess, srl, crl, crlOut>>
  BY DEF OpenAnswered, OpenTimeout, links, serverLoop, clientLoop
<1>2. CASE S' = [S EXCEPT ![c] = OpenFailed(S[c])]
  BY <1>1, <1>2, OpenFailedStep
<1>3. CASE S[c].ack = "ok" /\ S' = [S EXCEPT ![c] = [S[c] EXCEPT !.up = "read", !.down = "run"]]
  <2> DEFINE r == [S[c] EXCEPT !.up = "read", !.down = "run"]
  <2>1. /\ r \in ServerRecords(c) /\ r.up = "read"
        /\ r.out = S[c].out /\ r.hub = S[c].hub /\ r.outU = S[c].outU /\ r.outD = S[c].outD
    <3>1. S[c] \in ServerRecords(c)
      BY HandlerFacts
    <3>2. QED BY <3>1 DEF ServerRecords
  <2>2. S' = [S EXCEPT ![c] = r]
    BY <1>3
  <2> HIDE DEF r
  <2>3. ServerMoves(S[c], r, C[c])
    BY <1>1, <1>3, <2>1, HandlerFacts DEF ServerMoves, None
  <2>4. QED BY <1>1, <2>1, <2>2, <2>3, ServerMovesStep
<1>4. QED BY <1>2, <1>3 DEF OpenAnswered, OpenTimeout, SetS

\* The uplink reads from the user, or learns that both directions are over.
LEMMA UserStep ==
    ASSUME TInv, NEW c \in Conns, UserData(c) \/ UserEOF(c) \/ UplinkDone(c)
    PROVE  TInv'
<1>1. UNCHANGED <<C, streams, s2c, c2s, sess, srl, crl, crlOut>> /\ S[c] \in ServerRecords(c)
  BY HandlerFacts DEF UserData, UserEOF, UplinkDone, links, serverLoop, clientLoop
<1>2. PICK r : /\ S' = [S EXCEPT ![c] = r]
               /\ r \in ServerRecords(c) /\ r.out = S[c].out /\ r.hub = S[c].hub
               /\ r.outD = S[c].outD
               /\ \/ /\ S[c].up = "read" /\ r.up = "acquire" /\ r.sent # 0 /\ r.outU = S[c].outU
                  \/ S[c].up = "read" /\ r.up = "eof" /\ r.outU.t = "half"
                  \/ S[c].up = "wait" /\ r.up = "ended" /\ r.outU = S[c].outU
  <2>1. CASE UserData(c)
    <3> DEFINE m == S[c].sent + 1
               r == [S[c] EXCEPT !.up = "acquire", !.sent = m]
    <3>1. S' = [S EXCEPT ![c] = r] /\ S[c].up = "read"
      BY <2>1 DEF UserData, SetS
    <3>2. m \in Nat /\ m # 0
      BY <1>1 DEF ServerRecords
    <3> HIDE DEF m
    <3>3. /\ r \in ServerRecords(c) /\ r.out = S[c].out /\ r.hub = S[c].hub
          /\ r.outD = S[c].outD /\ r.up = "acquire" /\ r.sent = m /\ r.outU = S[c].outU
      BY <1>1, <3>2 DEF ServerRecords
    <3>4. QED BY <3>1, <3>2, <3>3
  <2>2. CASE UserEOF(c)
    <3> DEFINE g == Frame("half", c, 0)
               r == [S[c] EXCEPT !.up = "eof", !.upDone = TRUE, !.outU = g]
    <3>1. S' = [S EXCEPT ![c] = r] /\ S[c].up = "read"
      BY <2>2 DEF UserEOF, SetS
    <3>2. g \in UplinkFrames(c) /\ g.t = "half"
      BY DEF Frame, UplinkFrames, ServerFrames
    <3> HIDE DEF g
    <3>3. /\ r \in ServerRecords(c) /\ r.out = S[c].out /\ r.hub = S[c].hub
          /\ r.outD = S[c].outD /\ r.up = "eof" /\ r.outU = g
      BY <1>1, <3>2 DEF ServerRecords
    <3>4. QED BY <3>1, <3>2, <3>3
  <2>3. CASE UplinkDone(c)
    <3> DEFINE r == [S[c] EXCEPT !.up = "ended"]
    <3>1. S' = [S EXCEPT ![c] = r] /\ S[c].up = "wait"
      BY <2>3 DEF UplinkDone, SetS
    <3>2. /\ r \in ServerRecords(c) /\ r.out = S[c].out /\ r.hub = S[c].hub
          /\ r.outD = S[c].outD /\ r.up = "ended" /\ r.outU = S[c].outU
      BY <1>1 DEF ServerRecords
    <3>3. QED BY <3>1, <3>2
  <2>4. QED BY <2>1, <2>2, <2>3
<1>3. ServerMoves(S[c], r, C[c])
  BY <1>2, HandlerFacts DEF ServerMoves, None
<1>4. QED BY <1>1, <1>2, <1>3, ServerMovesStep

\* The uplink ends with an error, and tears the connection down.
LEMMA UplinkEndsStep ==
    ASSUME TInv, NEW c \in Conns, S[c].up \in {"read", "acquire"},
           S' = [S EXCEPT ![c] = [Teardown(c, S[c], "outU") EXCEPT !.up = "ended"]],
           UNCHANGED <<C, streams, s2c, c2s, sess, srl, crl, crlOut>>
    PROVE  TInv'
<1> DEFINE t == Teardown(c, S[c], "outU")
           r == [t EXCEPT !.up = "ended"]
<1>1. /\ t \in ServerRecords(c) /\ t.out = S[c].out
      /\ \/ t.hub = S[c].hub /\ t.outU = S[c].outU /\ t.outD = S[c].outD
         \/ ~t.hub /\ t.outU.t = "full" /\ t.outD = S[c].outD
  BY HandlerFacts, TeardownFacts
<1> HIDE DEF t
<1>2. /\ r \in ServerRecords(c) /\ r.up = "ended" /\ r.out = t.out /\ r.hub = t.hub
      /\ r.outU = t.outU /\ r.outD = t.outD
  BY <1>1 DEF ServerRecords
<1>3. S' = [S EXCEPT ![c] = r]
  BY DEF t
<1> HIDE DEF r
<1>4. ServerMoves(S[c], r, C[c])
  BY <1>1, <1>2, HandlerFacts DEF ServerMoves, None
<1>5. QED BY <1>2, <1>3, <1>4, ServerMovesStep

\* AcquireSend takes a credit for the chunk it will send.
LEMMA AcquireSendStep ==
    ASSUME TunnelAssumption, TInv, NEW c \in Conns, AcquireSend(c)
    PROVE  TInv'
<1>1. /\ S[c].up = "acquire" /\ S[c] \in ServerRecords(c) /\ S[c].sent # 0
      /\ UNCHANGED <<C, streams, s2c, c2s, sess, srl, crl, crlOut>>
  BY HandlerFacts DEF AcquireSend, links, serverLoop, clientLoop
<1>2. CASE S' = [S EXCEPT ![c] = [Teardown(c, S[c], "outU") EXCEPT !.up = "ended"]]
  BY <1>1, <1>2, UplinkEndsStep
<1>3. CASE /\ HasCredit(S[c].out)
           /\ S' = [S EXCEPT ![c] = [S[c] EXCEPT !.up = "send", !.out = @ + 1,
                                                 !.outU = Frame("data", c, S[c].sent)]]
  <2> DEFINE g == Frame("data", c, S[c].sent)
             m == S[c].out + 1
             r == [S[c] EXCEPT !.up = "send", !.out = m, !.outU = g]
  <2>1. S' = [S EXCEPT ![c] = r]
    BY <1>3
  <2>2. S[c].sent \in Nat /\ S[c].out \in 0 .. Win
    BY <1>1 DEF ServerRecords
  <2>3. g \in UplinkFrames(c) /\ g.t = "data"
    BY <1>1, <2>2 DEF Frame, UplinkFrames, ServerFrames
  <2>4. m \in 0 .. Win /\ m = S[c].out + 1
    BY <1>3, <2>2 DEF HasCredit, TunnelAssumption
  <2> HIDE DEF g, m
  <2>5. /\ r \in ServerRecords(c) /\ r.up = "send" /\ r.out = m /\ r.outU = g
        /\ r.hub = S[c].hub /\ r.outD = S[c].outD
    BY <1>1, <2>3, <2>4 DEF ServerRecords
  <2> HIDE DEF r
  <2>6. One(r.outU.t = "data") = 1 /\ One(r.outU.t = "open") = 0
    BY <2>3, <2>5 DEF One
  <2>7. One(S[c].outU.t = "data") = 0 /\ One(S[c].outU.t = "open") = 0
    BY <1>1, HandlerFacts DEF One, None
  <2>8. Together(c)
    BY DEF TInv
  <2> DEFINE o == Count(s2c, "open", c)
             n == Count(s2c, "data", c)
             w == Count(c2s, "wu", c)
  <2>9. /\ Opening(r, o, Answer(c)) = Opening(S[c], o, Answer(c))
        /\ Flight(r, C[c], n, Item(c), w) = Flight(S[c], C[c], n, Item(c), w) + 1
        /\ Flight(S[c], C[c], n, Item(c), w) \in Nat
    <3>1. o \in Nat /\ n \in Nat /\ w \in Nat /\ Item(c) \in Nat /\ Chunks(C[c].q) \in Nat
      BY Amounts DEF TInv
    <3>2. One(C[c].outW.t = "wu") \in Nat
      BY DEF One
    <3> HIDE DEF o, n, w
    <3>3. QED BY <2>6, <2>7, <3>1, <3>2 DEF Opening, Flight
  <2>10. C[c].conn # "none"
    BY <1>1, HandlerFacts
  <2>11. ConnInv(r, C[c], o, n, Count(s2c, "full", c),
                Answer(c), Item(c), w, Count(c2s, "full", c), sess = "up")
    <3> HIDE DEF o, n, w
    <3>1. ConnInv(S[c], C[c], o, n, Count(s2c, "full", c),
                  Answer(c), Item(c), w, Count(c2s, "full", c), sess = "up")
      BY <2>8 DEF Together, o, n, w
    <3>2. S[c].hub => ~(S[c].outD.t = "full") /\ Count(s2c, "full", c) = 0
      BY <3>1 DEF ConnInv
    <3>3. r.outU.t # "full"
      BY <2>3, <2>5
    <3>4. QED
      BY <1>1, <2>2, <2>3, <2>4, <2>5, <2>9, <2>10, <3>1, <3>3 DEF ConnInv
  <2>12. QED BY <1>1, <2>1, <2>5, <2>11, ServerOwn
<1>4. QED BY <1>2, <1>3 DEF AcquireSend, SetS

LEMMA UserErrorStep ==
    ASSUME TInv, NEW c \in Conns, UserError(c)
    PROVE  TInv'
BY UplinkEndsStep DEF UserError, SetS, links, serverLoop, clientLoop

LEMMA NoChunks == Chunks(<<>>) = 0
<1>1. {i \in DOMAIN <<>> : <<>>[i] # NilItem} = {}
  OBVIOUS
<1>2. QED BY <1>1, FS_EmptySet DEF Chunks

\* OpenConn registers the mapping and is about to send the request.
LEMMA OpenConnStep ==
    ASSUME TunnelAssumption, TInv, NEW c \in Conns, OpenConn(c)
    PROVE  TInv'
<1> DEFINE g == Frame("open", c, S[c].stream)
           r == [S[c] EXCEPT !.up = "opening", !.waiting = TRUE, !.hub = TRUE, !.outU = g]
<1>1. /\ S[c].up = "picked" /\ S[c] \in ServerRecords(c) /\ S' = [S EXCEPT ![c] = r]
      /\ UNCHANGED <<C, streams, s2c, c2s, sess, srl, crl, crlOut>>
  BY HandlerFacts DEF OpenConn, SetS, links, serverLoop, clientLoop
<1>2. g \in UplinkFrames(c) /\ g.t = "open"
  <2>1. S[c].stream \in Nat
    BY <1>1 DEF ServerRecords, TunnelAssumption
  <2>2. QED BY <2>1 DEF Frame, UplinkFrames, ServerFrames
<1> HIDE DEF g
<1>3. /\ r \in ServerRecords(c) /\ r.up = "opening" /\ r.hub /\ r.outU = g
      /\ r.out = S[c].out /\ r.outD = S[c].outD /\ r.down = S[c].down /\ r.ack = S[c].ack
  BY <1>1, <1>2 DEF ServerRecords
<1> HIDE DEF r
<1> DEFINE o == Count(s2c, "open", c)
           n == Count(s2c, "data", c)
           f == Count(s2c, "full", c)
           w == Count(c2s, "wu", c)
           z == Count(c2s, "full", c)
<1>4. /\ o \in Nat /\ n \in Nat /\ w \in Nat /\ z \in Nat /\ f \in Nat
      /\ Answer(c) \in Nat /\ Item(c) \in Nat
  BY Amounts DEF TInv
<1>5. ConnInv(S[c], C[c], o, n, f, Answer(c), Item(c), w, z, sess = "up")
  BY DEF TInv, Together
<1> HIDE DEF o, n, f, w, z
<1>6. /\ C[c].conn = "none" /\ S[c].outU = None /\ S[c].outD = None /\ S[c].out = 0 /\ f = 0
      /\ C[c].q = <<>> /\ C[c].outW = None /\ n = 0 /\ Item(c) = 0 /\ w = 0 /\ S[c].ack # "ok"
      /\ Opening(S[c], o, Answer(c)) = 0
  BY <1>1, <1>5 DEF ConnInv
<1>7. One(S[c].outU.t = "open") = 0 /\ One(r.outU.t = "open") = 1 /\ One(r.outU.t = "data") = 0
  BY <1>2, <1>3, <1>6 DEF One, None
<1>8. Opening(r, o, Answer(c)) = 1
  BY <1>4, <1>6, <1>7 DEF Opening
<1>9. Flight(r, C[c], n, Item(c), w) = 0
  <2>1. Chunks(C[c].q) = 0 /\ One(C[c].outW.t = "wu") = 0
    BY <1>6, NoChunks DEF One, None
  <2>2. QED BY <1>6, <1>7, <2>1 DEF Flight
<1>10. ConnInv(r, C[c], o, n, f, Answer(c), Item(c), w, z, sess = "up")
  BY <1>2, <1>3, <1>5, <1>6, <1>8, <1>9 DEF ConnInv, None
<1>11. QED BY <1>1, <1>3, <1>10, ServerOwn DEF o, n, f, w, z

-----------------------------------------------------------------------------
(* The server's goroutines send.                                           *)

\* After a send the frame is on the link, or lost on a session that is broken.
UplinkSent(s, r, k, o, n, f, o2, n2, f2, live) ==
    /\ s.outU # None
    /\ \/ /\ o2 = o + One(s.outU.t = "open") /\ n2 = n + One(s.outU.t = "data")
          /\ f2 = f + One(s.outU.t = "full")
       \/ ~live /\ o2 = o /\ n2 = n /\ f2 = f
    /\ r.out = s.out /\ (r.hub => s.hub) /\ r.outD = s.outD
    /\ r.outU = None \/ (r.outU.t = "full" /\ ~r.hub)
    /\ r.up \notin {"off", "picked", "acquire"} /\ (r.up = "opening" => s.up = "opening")
    /\ r.up = "read" => r.outU = None
    /\ k.conn = "none" => /\ r.up \in {"opening", "ended"} /\ r.ack # "ok"
                          /\ r.hub => r.up = "opening"

LEMMA UplinkSentFit ==
    ASSUME NEW s, NEW r, NEW k, NEW o \in Nat, NEW n \in Nat, NEW f \in Nat, NEW a \in Nat,
           NEW x \in Nat, NEW w \in Nat, NEW z, NEW live \in BOOLEAN,
           NEW o2 \in Nat, NEW n2 \in Nat, NEW f2 \in Nat, s.out \in Int, Chunks(k.q) \in Nat,
           ConnInv(s, k, o, n, f, a, x, w, z, live),
           UplinkSent(s, r, k, o, n, f, o2, n2, f2, live)
    PROVE  ConnInv(r, k, o2, n2, f2, a, x, w, z, live)
<1>1. r.outU.t \in {"none", "full"} /\ (r.hub => r.outU.t # "full")
  BY DEF UplinkSent, None
<1>2. One(r.outU.t = "open") = 0 /\ One(r.outU.t = "data") = 0
  BY <1>1 DEF One
<1>3. /\ One(s.outU.t = "open") \in {0, 1} /\ One(s.outU.t = "data") \in {0, 1}
      /\ One(s.outU.t = "full") \in {0, 1} /\ One(k.outW.t = "wu") \in {0, 1}
  BY DEF One
<1>4. /\ Opening(s, o, a) \in Nat /\ Opening(r, o2, a) \in Nat
      /\ Opening(r, o2, a) <= Opening(s, o, a)
  BY <1>2, <1>3 DEF Opening, UplinkSent
<1>5. /\ Flight(s, k, n, x, w) \in Nat /\ Flight(r, k, n2, x, w) \in Nat
      /\ Flight(r, k, n2, x, w) <= Flight(s, k, n, x, w)
      /\ live => Flight(r, k, n2, x, w) = Flight(s, k, n, x, w)
  BY <1>2, <1>3 DEF Flight, UplinkSent
<1>6. r.hub => f2 = 0 /\ r.outU.t # "full" /\ r.outD.t # "full"
  <2>1. s.hub => f = 0 /\ s.outU.t # "full" /\ s.outD.t # "full"
    BY DEF ConnInv
  <2>2. s.outU.t # "full" => One(s.outU.t = "full") = 0
    BY DEF One
  <2>3. QED BY <1>1, <2>1, <2>2 DEF UplinkSent
<1>7. k.conn = "none" => n2 = 0
  <2>1. k.conn = "none" => n = 0 /\ s.outU.t # "data"
    BY DEF ConnInv
  <2>2. s.outU.t # "data" => One(s.outU.t = "data") = 0
    BY DEF One
  <2>3. QED BY <2>1, <2>2 DEF UplinkSent
<1>8. r.hub => Flight(r, k, n2, x, w) <= r.out
  BY <1>5 DEF ConnInv, UplinkSent
<1>9. live /\ r.hub /\ k.reg => Flight(r, k, n2, x, w) = r.out
  BY <1>5 DEF ConnInv, UplinkSent
<1>10. Opening(r, o2, a) <= 1 /\ (Opening(r, o2, a) # 0 => k.conn = "none")
  BY <1>4 DEF ConnInv
<1>11. r.up = "opening" => r.out = 0
  BY DEF ConnInv, UplinkSent
<1>12. QED
  BY <1>1, <1>6, <1>7, <1>8, <1>9, <1>10, <1>11 DEF ConnInv, UplinkSent

\* What a send that succeeds or fails does to the server's link.
LEMMA ServerLinkFacts ==
    ASSUME TInv, NEW c \in Conns, NEW g \in ServerFrames({c}),
           \/ sess = "up" /\ Len(s2c) < LinkCap /\ s2c' = Append(s2c, g)
           \/ sess = "down" /\ s2c' = s2c
    PROVE  /\ s2c' \in Seq(ServerFrames(Conns)) /\ Len(s2c') <= LinkCap
           /\ \A d \in Conns : d # c =>
                 \A t \in {"open", "data", "full"} : Count(s2c', t, d) = Count(s2c, t, d)
           /\ \A t \in {"open", "data", "full"} :
                 /\ Count(s2c', t, c) \in Nat
                 /\ \/ sess = "up" /\ Count(s2c', t, c) = Count(s2c, t, c) + One(g.t = t)
                    \/ sess = "down" /\ Count(s2c', t, c) = Count(s2c, t, c)
<1>1. g \in ServerFrames(Conns) /\ g.c = c
  BY DEF ServerFrames
<1>2. s2c \in Seq(ServerFrames(Conns)) /\ Len(s2c) <= LinkCap /\ Types
  BY DEF TInv, Types
<1>3. CASE sess = "up" /\ Len(s2c) < LinkCap /\ s2c' = Append(s2c, g)
  <2>1. s2c' \in Seq(ServerFrames(Conns)) /\ Len(s2c') <= LinkCap
    <3>1. s2c' \in Seq(ServerFrames(Conns)) /\ Len(s2c') = Len(s2c) + 1 /\ Len(s2c) \in Nat
      BY <1>1, <1>2, <1>3, AppendProperties, LenProperties
    <3>2. Len(s2c) < LinkCap
      BY <1>3
    <3>3. QED BY <3>1, <3>2, TunnelAssumption DEF TunnelAssumption
  <2>2. ASSUME NEW d \in Conns, d # c, NEW t \in {"open", "data", "full"}
        PROVE  Count(s2c', t, d) = Count(s2c, t, d)
    BY <1>1, <1>2, <1>3, <2>2, OtherCounts
  <2>3. ASSUME NEW t \in {"open", "data", "full"}
        PROVE  Count(s2c', t, c) \in Nat /\ Count(s2c', t, c) = Count(s2c, t, c) + One(g.t = t)
    <3>1. /\ Count(s2c, t, c) \in Nat
          /\ Count(s2c', t, c) = Count(s2c, t, c) + One(g.t = t /\ g.c = c)
      BY <1>1, <1>2, <1>3, CountAppend
    <3>2. One(g.t = t /\ g.c = c) = One(g.t = t) /\ One(g.t = t) \in Nat
      BY <1>1 DEF One
    <3>3. QED BY <3>1, <3>2
  <2>4. QED BY <1>3, <2>1, <2>2, <2>3
<1>4. CASE sess = "down" /\ s2c' = s2c
  BY <1>2, <1>4, Amounts
<1>5. QED BY <1>3, <1>4

\* A step that sends a frame about c to the client and changes the server's end.
LEMMA ServerSends ==
    ASSUME TInv, NEW c \in Conns, NEW g \in ServerFrames({c}), NEW r \in ServerRecords(c),
           \/ sess = "up" /\ Len(s2c) < LinkCap /\ s2c' = Append(s2c, g)
           \/ sess = "down" /\ s2c' = s2c,
           S' = [S EXCEPT ![c] = r],
           UNCHANGED <<C, streams, c2s, sess, srl, crl, crlOut>>,
           ConnInv(r, C[c], Count(s2c', "open", c), Count(s2c', "data", c),
                   Count(s2c', "full", c), Answer(c), Item(c), Count(c2s, "wu", c),
                   Count(c2s, "full", c), sess = "up")
    PROVE  TInv'
<1>1. DOMAIN S' = Conns /\ S'[c] = r /\ \A d \in Conns : d # c => S'[d] = S[d]
  BY DEF TInv, Types
<1>2. /\ s2c' \in Seq(ServerFrames(Conns)) /\ Len(s2c') <= LinkCap
      /\ \A d \in Conns : d # c =>
            \A t \in {"open", "data", "full"} : Count(s2c', t, d) = Count(s2c, t, d)
  BY ServerLinkFacts
<1>3. Types'
  BY <1>1, <1>2 DEF TInv, Types
<1>4. \A d \in Conns : Answer(d)' = Answer(d) /\ Item(d)' = Item(d)
  BY DEF Answer, Item
<1>5. Together(c)'
  BY <1>1, <1>4 DEF Together
<1>6. ASSUME NEW d \in Conns, d # c PROVE Together(d)'
  BY <1>1, <1>2, <1>4, <1>6, Untouched DEF TInv
<1>7. QED BY <1>3, <1>5, <1>6 DEF TInv

\* What the uplink does with the result of its send.
LEMMA AfterSendFacts ==
    ASSUME TInv, NEW c \in Conns, S[c].outU # None, NEW ok \in BOOLEAN
    PROVE  LET s == S[c]
               r == AfterSend(c, s, ok)
           IN  /\ r \in ServerRecords(c) /\ r.out = s.out /\ (r.hub => s.hub) /\ r.outD = s.outD
               /\ r.outU = None \/ (r.outU.t = "full" /\ ~r.hub)
               /\ r.up \notin {"off", "picked", "acquire"} /\ (r.up = "opening" => s.up = "opening")
               /\ r.up = "read" => r.outU = None
               /\ C[c].conn = "none" => /\ r.up \in {"opening", "ended"} /\ r.ack # "ok"
                                        /\ r.hub => r.up = "opening"
<1> DEFINE s == S[c]
           u == [s EXCEPT !.outU = None]
           r == AfterSend(c, s, ok)
<1>1. s \in ServerRecords(c) /\ None \in UplinkFrames(c) /\ None.t = "none"
  BY HandlerFacts DEF UplinkFrames, None
<1>2. /\ u \in ServerRecords(c) /\ u.up = s.up /\ u.hub = s.hub /\ u.out = s.out
      /\ u.outU = None /\ u.outD = s.outD /\ u.ack = s.ack
  BY <1>1 DEF ServerRecords
<1>3. s.outU.t \in {"open", "data", "half", "full"} /\ s.up \in
        {"off", "picked", "opening", "read", "acquire", "send", "eof", "wait", "ended"}
  BY <1>1 DEF ServerRecords, UplinkFrames, ServerFrames
<1>4. /\ s.up \notin {"off", "picked", "read", "acquire"}
      /\ C[c].conn = "none" => /\ s.up \in {"opening", "ended"} /\ s.ack # "ok"
                               /\ s.hub => s.up = "opening"
                               /\ s.outU.t \notin {"data", "half"}
      /\ s.outU.t = "full" => ~s.hub
  BY DEF TInv, Together, ConnInv
<1>5. \A v \in ServerRecords(c) :
         LET y == Teardown(c, v, "outU")
         IN  /\ y \in ServerRecords(c) /\ y.out = v.out /\ y.outD = v.outD
             /\ \/ y.hub = v.hub /\ y.outU = v.outU
                \/ ~y.hub /\ y.outU.t = "full"
  BY TeardownFacts
<1> HIDE DEF s, u
<1>6. CASE s.outU.t = "open" /\ ok
  <2>1. r = u
    BY <1>6 DEF AfterSend, u
  <2>2. QED BY <1>2, <1>4, <2>1 DEF s
<1>7. CASE s.outU.t = "open" /\ ~ok
  <2>1. r = OpenFailed(u)
    BY <1>7 DEF AfterSend, u
  <2> HIDE DEF r
  <2>2. OpenFailed(u) = [u EXCEPT !.done = TRUE, !.winClosed = TRUE, !.hub = FALSE, !.up = "ended",
                                  !.mcClosed = TRUE, !.outU = None]
    BY <1>2 DEF OpenFailed, EntryClosed, ServerRecords
  <2>3. PICK v \in ServerRecords(c) : v = u
    BY <1>2
  <2>4. PICK y : y = [v EXCEPT !.done = TRUE, !.winClosed = TRUE, !.hub = FALSE, !.up = "ended",
                               !.mcClosed = TRUE, !.outU = None]
    OBVIOUS
  <2>5. /\ y \in ServerRecords(c) /\ y.up = "ended" /\ ~y.hub /\ y.outU = None
        /\ y.out = v.out /\ y.outD = v.outD /\ y.ack = v.ack
    BY <1>1, <2>4, ZenonT(60) DEF ServerRecords
  <2>6. r = y /\ v = u
    BY <2>1, <2>2, <2>3, <2>4
  <2>7. QED BY <1>2, <1>4, <2>5, <2>6 DEF s, r
<1>8. CASE s.outU.t = "data" /\ ok
  <2>1. r = [u EXCEPT !.up = "read"]
    BY <1>8 DEF AfterSend, u
  <2>2. /\ r \in ServerRecords(c) /\ r.up = "read" /\ r.hub = u.hub /\ r.outU = u.outU
        /\ r.out = u.out /\ r.outD = u.outD
    BY <1>2, <2>1 DEF ServerRecords
  <2>3. QED BY <1>2, <1>4, <1>8, <2>2 DEF s
<1>9. CASE s.outU.t = "data" /\ ~ok
  <2> DEFINE y == Teardown(c, u, "outU")
  <2>1. r = [y EXCEPT !.up = "ended"]
    BY <1>9 DEF AfterSend, u
  <2>2. /\ y \in ServerRecords(c) /\ y.out = u.out /\ y.outD = u.outD
        /\ \/ y.hub = u.hub /\ y.outU = u.outU
           \/ ~y.hub /\ y.outU.t = "full"
    BY <1>2, <1>5
  <2> HIDE DEF y
  <2>3. /\ r \in ServerRecords(c) /\ r.up = "ended" /\ r.hub = y.hub /\ r.outU = y.outU
        /\ r.out = y.out /\ r.outD = y.outD
    BY <2>1, <2>2 DEF ServerRecords
  <2>4. QED BY <1>2, <1>4, <1>9, <2>2, <2>3 DEF s
<1>10. CASE s.outU.t = "half"
  <2>1. PICK y \in ServerRecords(c) :
           /\ r = [y EXCEPT !.up = "wait"]
           /\ y.out = u.out /\ y.outD = u.outD
           /\ \/ y.hub = u.hub /\ y.outU = u.outU
              \/ ~y.hub /\ y.outU.t = "full"
    <3>1. r = [BothFinished(c, u, "outU") EXCEPT !.up = "wait"]
      BY <1>10 DEF AfterSend, u
    <3>2. QED BY <1>2, <1>5, <3>1 DEF BothFinished
  <2>2. /\ r \in ServerRecords(c) /\ r.up = "wait" /\ r.hub = y.hub /\ r.outU = y.outU
        /\ r.out = y.out /\ r.outD = y.outD
    BY <2>1 DEF ServerRecords
  <2>3. QED BY <1>2, <1>4, <1>10, <2>1, <2>2 DEF s
<1>11. CASE s.outU.t = "full"
  <2>1. r = [u EXCEPT !.mcClosed = TRUE]
    BY <1>11 DEF AfterSend, u
  <2>2. /\ r \in ServerRecords(c) /\ r.up = u.up /\ r.hub = u.hub /\ r.outU = u.outU
        /\ r.out = u.out /\ r.outD = u.outD /\ r.ack = u.ack
    BY <1>2, <2>1 DEF ServerRecords
  <2>3. QED BY <1>2, <1>4, <1>11, <2>2 DEF s
<1>12. QED
  BY <1>3, <1>6, <1>7, <1>8, <1>9, <1>10, <1>11 DEF s

LEMMA UplinkSendStep ==
    ASSUME TInv, NEW c \in Conns, UplinkSend(c)
    PROVE  TInv'
<1>1. PICK ok \in BOOLEAN :
         /\ IF ok THEN SendOK(s2c, sAlive, S[c].outU) ELSE SendErr(s2c)
         /\ S' = [S EXCEPT ![c] = AfterSend(c, S[c], ok)]
  BY DEF UplinkSend, SetS
<1> DEFINE s == S[c]
           r == AfterSend(c, s, ok)
           g == s.outU
<1>2. g # None /\ UNCHANGED <<C, streams, c2s, sess, srl, crl, crlOut>>
  BY DEF UplinkSend, serverLoop, clientLoop
<1>3. \/ sess = "up" /\ Len(s2c) < LinkCap /\ s2c' = Append(s2c, g)
      \/ sess = "down" /\ s2c' = s2c
  BY <1>1 DEF SendOK, SendErr
<1>4. g \in ServerFrames({c}) /\ s \in ServerRecords(c)
  BY <1>2, HandlerFacts DEF ServerRecords, UplinkFrames
<1>5. /\ r \in ServerRecords(c) /\ r.out = s.out /\ (r.hub => s.hub) /\ r.outD = s.outD
      /\ r.outU = None \/ (r.outU.t = "full" /\ ~r.hub)
      /\ r.up \notin {"off", "picked", "acquire"} /\ (r.up = "opening" => s.up = "opening")
      /\ r.up = "read" => r.outU = None
      /\ C[c].conn = "none" => /\ r.up \in {"opening", "ended"} /\ r.ack # "ok"
                               /\ r.hub => r.up = "opening"
  BY <1>2, AfterSendFacts
<1>6. S' = [S EXCEPT ![c] = r] /\ s.out \in Int
  BY <1>1, <1>4 DEF ServerRecords
<1> HIDE DEF r
<1>7. \A t \in {"open", "data", "full"} :
         /\ Count(s2c', t, c) \in Nat
         /\ \/ sess = "up" /\ Count(s2c', t, c) = Count(s2c, t, c) + One(g.t = t)
            \/ sess = "down" /\ Count(s2c', t, c) = Count(s2c, t, c)
  BY <1>3, <1>4, ServerLinkFacts
<1>8. ConnInv(r, C[c], Count(s2c', "open", c), Count(s2c', "data", c), Count(s2c', "full", c),
              Answer(c), Item(c), Count(c2s, "wu", c), Count(c2s, "full", c), sess = "up")
  <2>1. PICK o2 \in Nat, n2 \in Nat, f2 \in Nat :
           /\ o2 = Count(s2c', "open", c) /\ n2 = Count(s2c', "data", c)
           /\ f2 = Count(s2c', "full", c)
    BY <1>7
  <2>2. PICK o \in Nat, n \in Nat, f \in Nat :
           /\ o = Count(s2c, "open", c) /\ n = Count(s2c, "data", c)
           /\ f = Count(s2c, "full", c)
    BY Amounts DEF TInv
  <2>3. \/ /\ o2 = o + One(s.outU.t = "open") /\ n2 = n + One(s.outU.t = "data")
           /\ f2 = f + One(s.outU.t = "full")
        \/ ~(sess = "up") /\ o2 = o /\ n2 = n /\ f2 = f
    BY <1>7, <2>1, <2>2
  <2>4. ConnInv(s, C[c], o, n, f, Answer(c), Item(c), Count(c2s, "wu", c), Count(c2s, "full", c),
                sess = "up")
    BY <2>2 DEF TInv, Together
  <2>5. ConnInv(r, C[c], o2, n2, f2, Answer(c), Item(c), Count(c2s, "wu", c),
                Count(c2s, "full", c), sess = "up")
    <3>1. /\ Chunks(C[c].q) \in Nat /\ (sess = "up") \in BOOLEAN /\ Answer(c) \in Nat
          /\ Item(c) \in Nat /\ Count(c2s, "wu", c) \in Nat
      BY Amounts DEF TInv
    <3> HIDE DEF s
    <3>2. UplinkSent(s, r, C[c], o, n, f, o2, n2, f2, sess = "up")
      BY <1>2, <1>5, <2>3 DEF UplinkSent
    <3>3. QED BY <1>6, <2>4, <3>1, <3>2, UplinkSentFit
  <2>6. QED BY <2>1, <2>5
<1>9. QED
  BY <1>2, <1>3, <1>4, <1>5, <1>6, <1>8, ServerSends

-----------------------------------------------------------------------------
(* The server's downlink pump.                                             *)

\* ReleaseRecv counts the chunk, and after a batch has a window update to send.
LEMMA ReleaseRecvFacts ==
    ASSUME TunnelAssumption, NEW c \in Conns, NEW s \in ServerRecords(c), s.outD = None
    PROVE  LET r == ReleaseRecv(c, s)
           IN  /\ r \in ServerRecords(c) /\ r.up = s.up /\ r.hub = s.hub /\ r.out = s.out
               /\ r.outU = s.outU /\ r.ack = s.ack /\ r.sent = s.sent /\ r.down = s.down
               /\ r.outD.t # "full" /\ r.got = s.got
<1> DEFINE g == Frame("wu", c, Undecodable)
<1>1. g \in DownlinkFrames(c) /\ g.t = "wu" /\ None.t = "none"
  BY DEF Frame, DownlinkFrames, ServerFrames, Undecodable, None
<1> HIDE DEF g
<1>2. s.pending \in 0 .. Batch - 1 /\ Batch \in Nat \ {0}
  BY DEF ServerRecords, TunnelAssumption
<1>3. CASE s.pending + 1 < Batch
  <2>1. PICK m \in 0 .. Batch - 1 : m = s.pending + 1
    BY <1>2, <1>3
  <2>2. ReleaseRecv(c, s) = [s EXCEPT !.pending = m]
    BY <1>3, <2>1 DEF ReleaseRecv
  <2>3. PICK r : r = [s EXCEPT !.pending = m]
    OBVIOUS
  <2>4. /\ r \in ServerRecords(c) /\ r.up = s.up /\ r.hub = s.hub /\ r.out = s.out
        /\ r.outU = s.outU /\ r.ack = s.ack /\ r.sent = s.sent /\ r.down = s.down
        /\ r.outD = s.outD /\ r.got = s.got
    BY <2>3 DEF ServerRecords
  <2>5. QED BY <1>1, <2>2, <2>3, <2>4
<1>4. CASE ~(s.pending + 1 < Batch)
  <2>1. PICK m \in 0 .. Batch - 1 : m = s.pending + 1 - Batch
    BY <1>2, <1>4
  <2>2. ReleaseRecv(c, s) = [s EXCEPT !.pending = m, !.outD = g]
    BY <1>4, <2>1 DEF ReleaseRecv, g
  <2>3. PICK r : r = [s EXCEPT !.pending = m, !.outD = g]
    OBVIOUS
  <2>4. /\ r \in ServerRecords(c) /\ r.up = s.up /\ r.hub = s.hub /\ r.out = s.out
        /\ r.outU = s.outU /\ r.ack = s.ack /\ r.sent = s.sent /\ r.down = s.down
        /\ r.outD = g /\ r.got = s.got
    BY <1>1, <2>3 DEF ServerRecords
  <2>5. QED BY <1>1, <2>2, <2>3, <2>4
<1>5. QED BY <1>3, <1>4

\* The pump writes a chunk to the user, drains, or stops.
LEMMA DownlinkStepFits ==
    ASSUME TunnelAssumption, TInv, NEW c \in Conns,
           DownlinkWrite(c) \/ DownlinkDrain(c) \/ DownlinkStop(c)
    PROVE  TInv'
<1>1. /\ S[c] \in ServerRecords(c) /\ S[c].outD = None /\ S[c].down \in {"run", "drain", "quiet"}
      /\ UNCHANGED <<C, streams, s2c, c2s, sess, srl, crl, crlOut>>
  BY HandlerFacts DEF DownlinkWrite, DownlinkDrain, DownlinkStop, Pumping, links, serverLoop,
                      clientLoop
<1>2. S[c].up \notin {"off", "picked"} /\ None.t = "none"
  BY <1>1, HandlerFacts DEF None
<1>3. SUFFICES \E r \in ServerRecords(c) :
                  /\ S' = [S EXCEPT ![c] = r]
                  /\ r.up = S[c].up /\ r.out = S[c].out /\ r.ack = S[c].ack /\ r.sent = S[c].sent
                  /\ r.outU = S[c].outU /\ (r.hub => S[c].hub)
                  /\ r.outD.t = "full" => ~r.hub
  <2>1. PICK r \in ServerRecords(c) :
                  /\ S' = [S EXCEPT ![c] = r]
                  /\ r.up = S[c].up /\ r.out = S[c].out /\ r.ack = S[c].ack /\ r.sent = S[c].sent
                  /\ r.outU = S[c].outU /\ (r.hub => S[c].hub)
                  /\ r.outD.t = "full" => ~r.hub
    BY <1>3
  <2>2. ServerMoves(S[c], r, C[c])
    BY <1>2, <2>1, HandlerFacts DEF ServerMoves
  <2>3. QED BY <1>1, <2>1, <2>2, ServerMovesStep
<1>4. \A v \in ServerRecords(c) :
         LET y == Teardown(c, v, "outD")
         IN  /\ y \in ServerRecords(c) /\ y.up = v.up /\ y.out = v.out /\ y.ack = v.ack
             /\ y.sent = v.sent /\ y.outU = v.outU
             /\ \/ y.hub = v.hub /\ y.outD = v.outD
                \/ ~y.hub /\ y.outD.t = "full"
  BY TeardownFacts
<1>5. ASSUME NEW v \in ServerRecords(c), NEW e \in {"drain", "quiet", "ended"}
      PROVE  LET y == [v EXCEPT !.down = e]
             IN  /\ y \in ServerRecords(c) /\ y.up = v.up /\ y.out = v.out /\ y.ack = v.ack
                 /\ y.sent = v.sent /\ y.outU = v.outU /\ y.hub = v.hub /\ y.outD = v.outD
  <2>1. e \in {"off", "run", "drain", "quiet", "ended"}
    BY <1>5
  <2>2. QED BY <2>1 DEF ServerRecords
<1>6. ASSUME NEW v \in ServerRecords(c), v.up = S[c].up, v.out = S[c].out, v.ack = S[c].ack,
             v.sent = S[c].sent, v.outU = S[c].outU, v.outD = None, v.hub = S[c].hub,
             S' = [S EXCEPT ![c] = [Teardown(c, v, "outD") EXCEPT !.down = "ended"]]
      PROVE  \E r \in ServerRecords(c) :
                  /\ S' = [S EXCEPT ![c] = r]
                  /\ r.up = S[c].up /\ r.out = S[c].out /\ r.ack = S[c].ack /\ r.sent = S[c].sent
                  /\ r.outU = S[c].outU /\ (r.hub => S[c].hub)
                  /\ r.outD.t = "full" => ~r.hub
  <2> DEFINE y == Teardown(c, v, "outD")
             r == [y EXCEPT !.down = "ended"]
  <2>1. /\ y \in ServerRecords(c) /\ y.up = v.up /\ y.out = v.out /\ y.ack = v.ack
        /\ y.sent = v.sent /\ y.outU = v.outU
        /\ \/ y.hub = v.hub /\ y.outD = v.outD
           \/ ~y.hub /\ y.outD.t = "full"
    BY <1>4
  <2>2. S' = [S EXCEPT ![c] = r]
    BY <1>6
  <2> HIDE DEF y
  <2>3. /\ r \in ServerRecords(c) /\ r.up = y.up /\ r.out = y.out /\ r.ack = y.ack
        /\ r.sent = y.sent /\ r.outU = y.outU /\ r.hub = y.hub /\ r.outD = y.outD
    BY <1>5, <2>1
  <2> HIDE DEF r
  <2>4. QED BY <1>2, <1>6, <2>1, <2>2, <2>3
<1>7. CASE DownlinkStop(c)
  <2>1. S' = [S EXCEPT ![c] = [Teardown(c, S[c], "outD") EXCEPT !.down = "ended"]]
    BY <1>7 DEF DownlinkStop, SetS
  <2>2. QED BY <1>1, <1>6, <2>1
<1>8. CASE DownlinkDrain(c)
  <2>1. ASSUME NEW e \in {"drain", "quiet"}, S' = [S EXCEPT ![c] = [S[c] EXCEPT !.down = e]]
        PROVE  \E r \in ServerRecords(c) :
                  /\ S' = [S EXCEPT ![c] = r]
                  /\ r.up = S[c].up /\ r.out = S[c].out /\ r.ack = S[c].ack /\ r.sent = S[c].sent
                  /\ r.outU = S[c].outU /\ (r.hub => S[c].hub)
                  /\ r.outD.t = "full" => ~r.hub
    <3> DEFINE r == [S[c] EXCEPT !.down = e]
    <3>1. /\ r \in ServerRecords(c) /\ r.up = S[c].up /\ r.out = S[c].out /\ r.ack = S[c].ack
          /\ r.sent = S[c].sent /\ r.outU = S[c].outU /\ r.hub = S[c].hub /\ r.outD = S[c].outD
      <4>1. PICK v \in ServerRecords(c) : v = S[c]
        BY <1>1
      <4>2. PICK y : y = [v EXCEPT !.down = e]
        OBVIOUS
      <4>3. /\ y \in ServerRecords(c) /\ y.up = v.up /\ y.out = v.out /\ y.ack = v.ack
            /\ y.sent = v.sent /\ y.outU = v.outU /\ y.hub = v.hub /\ y.outD = v.outD
        BY <1>5, <4>2, ZenonT(60)
      <4>4. QED BY <4>1, <4>2, <4>3
    <3>2. S' = [S EXCEPT ![c] = r]
      BY <2>1
    <3> HIDE DEF r
    <3>3. QED BY <1>1, <1>2, <3>1, <3>2
  <2>2. CASE S' = [S EXCEPT ![c] = BothFinished(c, [S[c] EXCEPT !.downDone = TRUE], "outD")]
    <3> DEFINE v == [S[c] EXCEPT !.downDone = TRUE]
    <3>1. /\ v \in ServerRecords(c) /\ v.up = S[c].up /\ v.out = S[c].out /\ v.ack = S[c].ack
          /\ v.sent = S[c].sent /\ v.outU = S[c].outU /\ v.hub = S[c].hub /\ v.outD = S[c].outD
      BY <1>1 DEF ServerRecords
    <3>2. S' = [S EXCEPT ![c] = BothFinished(c, v, "outD")]
      BY <2>2
    <3> HIDE DEF v
    <3>3. PICK r : r = BothFinished(c, v, "outD")
      OBVIOUS
    <3>4. r = v \/ r = Teardown(c, v, "outD")
      BY <3>3 DEF BothFinished
    <3>5. /\ r \in ServerRecords(c) /\ r.up = v.up /\ r.out = v.out /\ r.ack = v.ack
          /\ r.sent = v.sent /\ r.outU = v.outU
          /\ \/ r.hub = v.hub /\ r.outD = v.outD
             \/ ~r.hub /\ r.outD.t = "full"
      BY <1>4, <3>1, <3>4
    <3>6. QED BY <1>1, <1>2, <3>1, <3>2, <3>3, <3>5, ZenonT(60)
  <2>3. QED BY <1>8, <2>1, <2>2 DEF DownlinkDrain, SetS
<1>9. CASE DownlinkWrite(c)
  <2> DEFINE t == Tail(S[c].sink)
             h == Head(S[c].sink)
             v == [S[c] EXCEPT !.sink = t]
  <2>1. t \in UpTo(SinkCap) /\ h \in Nat
    <3>1. S[c].sink \in Seq(Nat) /\ Len(S[c].sink) <= SinkCap /\ S[c].sink # <<>>
      BY <1>1, <1>9 DEF ServerRecords, UpTo, DownlinkWrite
    <3>2. t \in Seq(Nat) /\ h \in Nat /\ Len(t) = Len(S[c].sink) - 1 /\ Len(S[c].sink) \in Nat
      BY <3>1, HeadTailProperties, LenProperties
    <3>3. QED BY <3>1, <3>2, TunnelAssumption DEF UpTo, TunnelAssumption
  <2> HIDE DEF t, h
  <2>2. /\ v \in ServerRecords(c) /\ v.up = S[c].up /\ v.out = S[c].out /\ v.ack = S[c].ack
        /\ v.sent = S[c].sent /\ v.outU = S[c].outU /\ v.hub = S[c].hub /\ v.outD = None
    BY <1>1, <2>1 DEF ServerRecords
  <2>3. \/ \E e \in {"run", "drain"} :
              S' = [S EXCEPT ![c] = [ReleaseRecv(c, v) EXCEPT !.got = Append(@, h), !.down = e]]
        \/ S' = [S EXCEPT ![c] = [Teardown(c, v, "outD") EXCEPT !.down = "ended"]]
    BY <1>9 DEF DownlinkWrite, SetS, t, h
  <2> HIDE DEF v
  <2>4. CASE S' = [S EXCEPT ![c] = [Teardown(c, v, "outD") EXCEPT !.down = "ended"]]
    BY <1>6, <2>2, <2>4
  <2>5. ASSUME NEW e \in {"run", "drain"},
               S' = [S EXCEPT ![c] = [ReleaseRecv(c, v) EXCEPT !.got = Append(@, h), !.down = e]]
        PROVE  \E r \in ServerRecords(c) :
                  /\ S' = [S EXCEPT ![c] = r]
                  /\ r.up = S[c].up /\ r.out = S[c].out /\ r.ack = S[c].ack /\ r.sent = S[c].sent
                  /\ r.outU = S[c].outU /\ (r.hub => S[c].hub)
                  /\ r.outD.t = "full" => ~r.hub
    <3>1. PICK y : y = ReleaseRecv(c, v)
      OBVIOUS
    <3>2. /\ y \in ServerRecords(c) /\ y.up = v.up /\ y.hub = v.hub /\ y.out = v.out
          /\ y.outU = v.outU /\ y.ack = v.ack /\ y.sent = v.sent /\ y.outD.t # "full"
      BY <2>2, <3>1, TunnelAssumption, ReleaseRecvFacts
    <3> DEFINE b == Append(y.got, h)
               r == [y EXCEPT !.got = b, !.down = e]
    <3>3. b \in Seq(Nat)
      BY <2>1, <3>2, AppendProperties DEF ServerRecords
    <3>4. S' = [S EXCEPT ![c] = r]
      BY <2>5, <3>1
    <3> HIDE DEF b
    <3>5. /\ r \in ServerRecords(c) /\ r.up = y.up /\ r.hub = y.hub /\ r.out = y.out
          /\ r.outU = y.outU /\ r.ack = y.ack /\ r.sent = y.sent /\ r.outD = y.outD
      BY <2>5, <3>2, <3>3 DEF ServerRecords
    <3> HIDE DEF r
    <3>6. QED BY <2>2, <3>2, <3>4, <3>5
  <2>6. QED BY <2>3, <2>4, <2>5
<1>10. QED BY <1>7, <1>8, <1>9

\* The pump sends its window update or its full close.
LEMMA DownlinkSendStep ==
    ASSUME TInv, NEW c \in Conns, DownlinkSend(c)
    PROVE  TInv'
<1> DEFINE s == S[c]
           g == s.outD
           r == [s EXCEPT !.outD = None, !.mcClosed = @ \/ s.outD.t = "full"]
<1>1. /\ g # None /\ S' = [S EXCEPT ![c] = r] /\ s \in ServerRecords(c)
      /\ UNCHANGED <<C, streams, c2s, sess, srl, crl, crlOut>>
  BY HandlerFacts DEF DownlinkSend, SetS, serverLoop, clientLoop
<1>2. \/ sess = "up" /\ Len(s2c) < LinkCap /\ s2c' = Append(s2c, g)
      \/ sess = "down" /\ s2c' = s2c
  BY DEF DownlinkSend, SendOK, SendErr
<1>3. g \in ServerFrames({c}) /\ g.t \in {"full", "wu"}
  BY <1>1 DEF ServerRecords, DownlinkFrames
<1>4. /\ r \in ServerRecords(c) /\ r.up = s.up /\ r.hub = s.hub /\ r.out = s.out
      /\ r.outU = s.outU /\ r.ack = s.ack /\ r.sent = s.sent /\ r.down = s.down /\ r.outD = None
  <2>1. None \in DownlinkFrames(c)
    BY DEF DownlinkFrames
  <2>2. PICK b \in BOOLEAN : b = (s.mcClosed \/ s.outD.t = "full")
    BY <1>1 DEF ServerRecords
  <2>3. r = [s EXCEPT !.outD = None, !.mcClosed = b]
    BY <2>2
  <2> HIDE DEF r, s
  <2>4. QED BY <1>1, <2>1, <2>2, <2>3 DEF ServerRecords
<1> HIDE DEF r
<1>5. \A t \in {"open", "data", "full"} :
         /\ Count(s2c', t, c) \in Nat
         /\ \/ sess = "up" /\ Count(s2c', t, c) = Count(s2c, t, c) + One(g.t = t)
            \/ sess = "down" /\ Count(s2c', t, c) = Count(s2c, t, c)
  BY <1>2, <1>3, ServerLinkFacts
<1>6. /\ Count(s2c', "open", c) = Count(s2c, "open", c)
      /\ Count(s2c', "data", c) = Count(s2c, "data", c)
      /\ Count(s2c', "full", c) # 0 => Count(s2c, "full", c) # 0 \/ g.t = "full"
  <2>1. One(g.t = "open") = 0 /\ One(g.t = "data") = 0 /\ (g.t # "full" => One(g.t = "full") = 0)
    BY <1>3 DEF One
  <2>2. Count(s2c, "open", c) \in Nat /\ Count(s2c, "data", c) \in Nat /\ Count(s2c, "full", c) \in Nat
    BY Amounts DEF TInv
  <2>3. QED BY <1>5, <2>1, <2>2
<1>7. ConnInv(s, C[c], Count(s2c, "open", c), Count(s2c, "data", c), Count(s2c, "full", c),
              Answer(c), Item(c), Count(c2s, "wu", c), Count(c2s, "full", c), sess = "up")
  BY DEF TInv, Together
<1>8. ConnInv(r, C[c], Count(s2c', "open", c), Count(s2c', "data", c), Count(s2c', "full", c),
              Answer(c), Item(c), Count(c2s, "wu", c), Count(c2s, "full", c), sess = "up")
  <2>1. \A o, n, a, x, w : /\ Opening(r, o, a) = Opening(s, o, a)
                           /\ Flight(r, C[c], n, x, w) = Flight(s, C[c], n, x, w)
    BY <1>4 DEF Opening, Flight
  <2>2. s.up \notin {"off", "picked"}
    BY <1>1, <1>7 DEF ConnInv
  <2>3. Count(s2c', "full", c) # 0 => ~s.hub
    BY <1>6, <1>7 DEF ConnInv
  <2>4. PICK o, n, f, f2 : /\ o = Count(s2c, "open", c) /\ n = Count(s2c, "data", c)
                           /\ f = Count(s2c, "full", c) /\ f2 = Count(s2c', "full", c)
    OBVIOUS
  <2> HIDE DEF s
  <2>5. ConnInv(r, C[c], o, n, f2, Answer(c), Item(c), Count(c2s, "wu", c), Count(c2s, "full", c),
                sess = "up")
    BY <1>4, <1>7, <2>1, <2>2, <2>3, <2>4 DEF ConnInv, None
  <2>6. QED BY <1>6, <2>4, <2>5
<1>9. QED BY <1>1, <1>2, <1>3, <1>4, <1>8, ServerSends

-----------------------------------------------------------------------------
(* The server's read loop.                                                 *)

\* A step that changes neither end nor a link.
LEMMA NothingMoves ==
    ASSUME TInv, UNCHANGED <<S, C, s2c, c2s, sess, crl, crlOut>>, streams' \subseteq streams,
           srl' \in (Conns \X Nat) \cup {NoItem}
    PROVE  TInv'
<1>1. Types'
  BY DEF TInv, Types
<1>2. \A d \in Conns : Answer(d)' = Answer(d) /\ Item(d)' = Item(d)
  BY DEF Answer, Item
<1>3. ASSUME NEW d \in Conns PROVE Together(d)'
  BY <1>2, Untouched DEF TInv
<1>4. QED BY <1>1, <1>3 DEF TInv

\* A handler that stays where it is.
LEMMA SameStage ==
    ASSUME TInv, NEW c \in Conns, NEW r, r.up = S[c].up, r.down = S[c].down, r.out = S[c].out,
           r.outU = S[c].outU, r.outD = S[c].outD, r.sent = S[c].sent, r.hub => S[c].hub,
           C[c].conn = "none" => r.ack # "ok"
    PROVE  ServerMoves(S[c], r, C[c])
BY HandlerFacts DEF ServerMoves

\* A chunk that the read loop has looked up goes into the sink, if it is not done.
LEMMA DownlinkLoopStep ==
    ASSUME TunnelAssumption, TInv, Downlink
    PROVE  TInv'
<1>1. PICK c \in Conns, v \in Nat : srl = <<c, v>>
  BY DEF Downlink, TInv, Types
<1>2. srl[1] = c /\ srl[2] = v
  BY <1>1
<1>3. UNCHANGED <<C, streams, s2c, c2s, sess, crl, crlOut>> /\ srl' = NoItem
  BY DEF Downlink, links, clientLoop
<1>4. CASE S' = S
  BY <1>3, <1>4, NothingMoves
<1>5. CASE /\ Len(S[c].sink) < SinkCap
           /\ S' = [S EXCEPT ![c] = [S[c] EXCEPT !.sink = Append(S[c].sink, v)]]
  <2> DEFINE q == Append(S[c].sink, v)
             r == [S[c] EXCEPT !.sink = q]
  <2>1. S[c] \in ServerRecords(c)
    BY HandlerFacts
  <2>2. q \in UpTo(SinkCap)
    <3>1. S[c].sink \in Seq(Nat)
      BY <2>1 DEF ServerRecords, UpTo
    <3>2. q \in Seq(Nat) /\ Len(q) = Len(S[c].sink) + 1 /\ Len(S[c].sink) \in Nat
      BY <3>1, AppendProperties, LenProperties
    <3>3. Len(S[c].sink) < SinkCap /\ SinkCap \in Nat
      BY <1>5, TunnelAssumption DEF TunnelAssumption
    <3> HIDE DEF q
    <3>4. QED BY <3>2, <3>3 DEF UpTo
  <2>3. S' = [S EXCEPT ![c] = r]
    BY <1>5
  <2> HIDE DEF q
  <2>4. /\ r \in ServerRecords(c) /\ r.up = S[c].up /\ r.out = S[c].out /\ r.ack = S[c].ack
        /\ r.sent = S[c].sent /\ r.outU = S[c].outU /\ r.hub = S[c].hub /\ r.outD = S[c].outD
        /\ r.down = S[c].down
    BY <2>1, <2>2 DEF ServerRecords
  <2> HIDE DEF r
  <2>5. C[c].conn = "none" => r.ack # "ok"
    BY <2>4, HandlerFacts
  <2>6. ServerMoves(S[c], r, C[c])
    BY <2>4, <2>5, SameStage
  <2>7. QED BY <1>3, <2>3, <2>4, <2>6, ServerMovesStep
<1>6. QED BY <1>2, <1>4, <1>5 DEF Downlink, SetS

\* What is left of the client's link when its first frame is taken.
LEMMA TakenFacts ==
    ASSUME TInv, c2s # <<>>
    PROVE  /\ Head(c2s) \in ClientFrames(Conns)
           /\ Head(c2s).t = "ack" /\ Head(c2s).v = 1 => C[Head(c2s).c].conn # "none"
           /\ Tail(c2s) \in Seq(ClientFrames(Conns)) /\ Len(Tail(c2s)) <= LinkCap
           /\ \A i \in 1 .. Len(Tail(c2s)) :
                 Tail(c2s)[i].t = "ack" /\ Tail(c2s)[i].v = 1 => C[Tail(c2s)[i].c].conn # "none"
<1> DEFINE l == Tail(c2s)
<1>1. /\ c2s \in Seq(ClientFrames(Conns)) /\ Len(c2s) <= LinkCap
      /\ \A i \in 1 .. Len(c2s) :
            c2s[i].t = "ack" /\ c2s[i].v = 1 => C[c2s[i].c].conn # "none"
  BY DEF TInv, Types
<1>2. /\ Len(c2s) \in Nat /\ Len(c2s) > 0 /\ Head(c2s) = c2s[1] /\ l \in Seq(ClientFrames(Conns))
      /\ Len(l) = Len(c2s) - 1 /\ \A i \in 1 .. Len(l) : l[i] = c2s[i + 1]
      /\ Head(c2s) \in ClientFrames(Conns)
  BY <1>1, HeadTailProperties, LenProperties, EmptySeq
<1> HIDE DEF l
<1>3. PICK n \in Nat : n = Len(c2s)
  BY <1>2
<1>4. Len(l) = n - 1 /\ n > 0 /\ n <= LinkCap /\ LinkCap \in Nat
  BY <1>1, <1>2, <1>3, TunnelAssumption DEF TunnelAssumption
<1>5. Len(l) <= LinkCap /\ 1 \in 1 .. n /\ \A i \in 1 .. Len(l) : i + 1 \in 1 .. n
  BY <1>4
<1>6. QED BY <1>1, <1>2, <1>3, <1>5 DEF l

\* A step that takes a frame about c from the client's link and changes the server's end.
LEMMA ServerTakes ==
    ASSUME TInv, NEW c \in Conns, NEW r \in ServerRecords(c),
           c2s # <<>>, Head(c2s).c = c, c2s' = Tail(c2s),
           DOMAIN S' = Conns, S'[c] = r, \A d \in Conns : d # c => S'[d] = S[d],
           UNCHANGED <<C, s2c, sess, crl, crlOut>>,
           streams' \subseteq streams, srl' \in (Conns \X Nat) \cup {NoItem},
           ConnInv(r, C[c], Count(s2c, "open", c), Count(s2c, "data", c), Count(s2c, "full", c),
                   Answer(c), Item(c), Count(c2s', "wu", c), Count(c2s', "full", c), sess = "up")
    PROVE  TInv'
<1>1. /\ c2s' \in Seq(ClientFrames(Conns)) /\ Len(c2s') <= LinkCap
      /\ \A i \in 1 .. Len(c2s') :
            c2s'[i].t = "ack" /\ c2s'[i].v = 1 => C[c2s'[i].c].conn # "none"
  BY TakenFacts
<1>2. Types'
  <2>1. \A d \in Conns : S'[d] \in ServerRecords(d) /\ C'[d] \in ClientRecords(d)
    BY DEF TInv, Types
  <2>2. QED BY <1>1, <2>1 DEF TInv, Types
<1>3. \A d \in Conns : Answer(d)' = Answer(d) /\ Item(d)' = Item(d)
  BY DEF Answer, Item
<1>4. Together(c)'
  BY <1>3 DEF Together
<1>5. ASSUME NEW d \in Conns, d # c PROVE Together(d)'
  <2>1. c2s \in Seq(ClientFrames(Conns))
    BY DEF TInv, Types
  <2>2. \A t \in {"wu", "full"} : Count(c2s', t, d) = Count(c2s, t, d)
    BY <1>5, <2>1, OtherTail
  <2>3. QED BY <1>3, <1>5, <2>2, Untouched DEF TInv
<1>6. QED BY <1>2, <1>4, <1>5 DEF TInv

\* The same when it takes no credit and no full close and only moves on.
LEMMA ServerTakesAndMoves ==
    ASSUME TInv, NEW c \in Conns, NEW r \in ServerRecords(c),
           c2s # <<>>, Head(c2s).c = c, c2s' = Tail(c2s), Head(c2s).t \notin {"wu", "full"},
           DOMAIN S' = Conns, S'[c] = r, \A d \in Conns : d # c => S'[d] = S[d],
           UNCHANGED <<C, s2c, sess, crl, crlOut>>,
           streams' \subseteq streams, srl' \in (Conns \X Nat) \cup {NoItem},
           ServerMoves(S[c], r, C[c])
    PROVE  TInv'
<1>1. Together(c) /\ Types
  BY DEF TInv
<1>2. ConnInv(r, C[c], Count(s2c, "open", c), Count(s2c, "data", c), Count(s2c, "full", c),
              Answer(c), Item(c), Count(c2s, "wu", c), Count(c2s, "full", c), sess = "up")
  BY <1>1, Amounts, ServerMovesFit DEF Together
<1>3. c2s \in Seq(ClientFrames(Conns))
  BY DEF TInv, Types
<1>4. ASSUME NEW t \in {"wu", "full"} PROVE Count(c2s', t, c) = Count(c2s, t, c)
  <2>1. One(Head(c2s).t = t /\ Head(c2s).c = c) = 0
    BY DEF One
  <2>2. /\ Count(Tail(c2s), t, c) \in Nat
        /\ Count(c2s, t, c) = Count(Tail(c2s), t, c) + One(Head(c2s).t = t /\ Head(c2s).c = c)
    BY <1>3, CountTail
  <2>3. QED BY <2>1, <2>2
<1>5. Count(c2s', "wu", c) = Count(c2s, "wu", c) /\ Count(c2s', "full", c) = Count(c2s, "full", c)
  BY <1>4
<1>6. QED BY <1>2, <1>5, ServerTakes

\* A window update gives back the credit of one chunk.
Credited(s, r) ==
    /\ s.hub /\ s.out \in Nat /\ r.out = s.out - 1
    /\ r.up = s.up /\ r.down = s.down /\ r.outU = s.outU /\ r.outD = s.outD
    /\ r.sent = s.sent /\ r.hub = s.hub /\ r.ack = s.ack

LEMMA CreditBack ==
    ASSUME NEW s, NEW r, NEW k, NEW o \in Nat, NEW n \in Nat, NEW f \in Nat, NEW a \in Nat,
           NEW x \in Nat, NEW w \in Nat, NEW w2 \in Nat, NEW z \in Nat, NEW live \in BOOLEAN,
           Chunks(k.q) \in Nat, ConnInv(s, k, o, n, f, a, x, w, z, live), Credited(s, r),
           w = w2 + 1
    PROVE  s.out >= 1 /\ ConnInv(r, k, o, n, f, a, x, w2, z, live)
<1>1. One(s.outU.t = "data") \in Nat /\ One(k.outW.t = "wu") \in Nat
  BY DEF One
<1>2. /\ Flight(s, k, n, x, w) \in Nat /\ Flight(r, k, n, x, w2) = Flight(s, k, n, x, w) - 1
      /\ Flight(s, k, n, x, w) >= 1
  BY <1>1 DEF Flight, Credited
<1>3. Opening(r, o, a) = Opening(s, o, a)
  BY DEF Opening, Credited
<1>4. Flight(s, k, n, x, w) <= s.out
  BY DEF ConnInv, Credited
<1>5. s.out >= 1
  BY <1>2, <1>4 DEF Credited
<1>6. k.conn # "none" /\ s.up \notin {"off", "picked", "opening"}
  BY <1>5 DEF ConnInv, Credited
<1>7. live /\ k.reg => Flight(s, k, n, x, w) = s.out
  BY DEF ConnInv, Credited
<1>8. Flight(r, k, n, x, w2) <= r.out /\ (live /\ k.reg => Flight(r, k, n, x, w2) = r.out)
  BY <1>2, <1>4, <1>7 DEF Credited
<1>9. QED BY <1>3, <1>5, <1>6, <1>8 DEF ConnInv, Credited

\* The read loop handles a frame of the client.
LEMMA ServerReceiveStep ==
    ASSUME TunnelAssumption, TInv, ServerReceive
    PROVE  TInv'
<1> DEFINE f == Head(c2s)
           c == f.c
           s == S[c]
<1>1. /\ c2s # <<>> /\ c2s' = Tail(c2s) /\ srl = NoItem
      /\ UNCHANGED <<C, s2c, sess, crl, crlOut>>
  BY DEF ServerReceive, clientLoop
<1>2. /\ f \in ClientFrames(Conns) /\ c \in Conns
      /\ f.t = "ack" /\ f.v = 1 => C[c].conn # "none"
  BY <1>1, TakenFacts DEF ClientFrames
<1>3. s \in ServerRecords(c) /\ DOMAIN S = Conns /\ (C[c].conn = "none" => s.ack # "ok")
  BY <1>2, HandlerFacts DEF TInv, Types
<1>4. ServerMoves(s, s, C[c])
  BY <1>2, <1>3, SameStage
<1>7. CASE f.t = "ack" /\ DeliverConnAck(f.c, f.v) /\ UNCHANGED <<streams, srl>>
  <2>1. PICK b \in {"ok", "nack"} : b = IF f.v = 1 THEN "ok" ELSE "nack"
    OBVIOUS
  <2> DEFINE r == IF s.waiting THEN [s EXCEPT !.waiting = FALSE, !.ack = b] ELSE s
  <2>2. S' = [S EXCEPT ![c] = r]
    BY <1>7, <2>1 DEF DeliverConnAck, SetS
  <2>3. /\ r \in ServerRecords(c) /\ r.up = s.up /\ r.down = s.down /\ r.out = s.out
        /\ r.outU = s.outU /\ r.outD = s.outD /\ r.sent = s.sent /\ r.hub = s.hub
        /\ r.ack \in {b, s.ack}
    <3>1. PICK v \in ServerRecords(c) : v = s
      BY <1>3
    <3>2. PICK y : y = [v EXCEPT !.waiting = FALSE, !.ack = b]
      OBVIOUS
    <3>3. /\ y \in ServerRecords(c) /\ y.up = v.up /\ y.down = v.down /\ y.out = v.out
          /\ y.outU = v.outU /\ y.outD = v.outD /\ y.sent = v.sent /\ y.hub = v.hub
          /\ y.ack = b
      BY <2>1, <3>2, ZenonT(60) DEF ServerRecords
    <3>4. QED BY <3>1, <3>2, <3>3
  <2> HIDE DEF r
  <2>4. C[c].conn = "none" => r.ack # "ok"
    BY <1>2, <1>3, <1>7, <2>1, <2>3
  <2>5. ServerMoves(s, r, C[c])
    BY <1>2, <2>3, <2>4, SameStage
  <2>6. DOMAIN S' = Conns /\ S'[c] = r /\ \A d \in Conns : d # c => S'[d] = S[d]
    BY <1>2, <1>3, <2>2
  <2>7. QED
    BY <1>1, <1>2, <1>7, <2>3, <2>5, <2>6, ServerTakesAndMoves
<1>8. CASE /\ f.t = "data" /\ srl' = (IF S[f.c].hub THEN <<f.c, f.v>> ELSE NoItem)
           /\ UNCHANGED <<S, streams>>
  <2>1. srl' \in (Conns \X Nat) \cup {NoItem}
    BY <1>2, <1>8 DEF ClientFrames
  <2>2. DOMAIN S' = Conns /\ S'[c] = s /\ \A d \in Conns : d # c => S'[d] = S[d]
    BY <1>3, <1>8
  <2>3. QED
    BY <1>1, <1>2, <1>3, <1>4, <1>8, <2>1, <2>2, ServerTakesAndMoves
<1>9. CASE f.t = "half" /\ ClientClosed(f.c) /\ UNCHANGED <<streams, srl>>
  <2> DEFINE r == IF s.hub THEN [s EXCEPT !.hub = FALSE, !.remoteClosed = TRUE] ELSE s
  <2>1. S' = [S EXCEPT ![c] = r]
    BY <1>9 DEF ClientClosed, SetS
  <2>2. /\ r \in ServerRecords(c) /\ r.up = s.up /\ r.down = s.down /\ r.out = s.out
        /\ r.outU = s.outU /\ r.outD = s.outD /\ r.sent = s.sent /\ (r.hub => s.hub)
        /\ r.ack = s.ack
    <3>1. PICK v \in ServerRecords(c) : v = s
      BY <1>3
    <3>2. PICK y : y = [v EXCEPT !.hub = FALSE, !.remoteClosed = TRUE]
      OBVIOUS
    <3>3. /\ y \in ServerRecords(c) /\ y.up = v.up /\ y.down = v.down /\ y.out = v.out
          /\ y.outU = v.outU /\ y.outD = v.outD /\ y.sent = v.sent /\ ~y.hub
          /\ y.ack = v.ack
      BY <3>2 DEF ServerRecords
    <3>4. QED BY <3>1, <3>2, <3>3
  <2> HIDE DEF r
  <2>3. ServerMoves(s, r, C[c])
    BY <1>2, <1>3, <2>2, SameStage
  <2>4. DOMAIN S' = Conns /\ S'[c] = r /\ \A d \in Conns : d # c => S'[d] = S[d]
    BY <1>2, <1>3, <2>1
  <2>5. QED
    BY <1>1, <1>2, <1>9, <2>2, <2>3, <2>4, ServerTakesAndMoves
<1> DEFINE w == Count(c2s, "wu", c)
           z == Count(c2s, "full", c)
           w2 == Count(Tail(c2s), "wu", c)
           z2 == Count(Tail(c2s), "full", c)
<1>10. /\ w \in Nat /\ z \in Nat /\ w2 \in Nat /\ z2 \in Nat
       /\ f.t = "wu" => w = w2 + 1 /\ z = z2
       /\ f.t = "full" => w = w2 /\ z = z2 + 1
  <2>1. c2s \in Seq(ClientFrames(Conns))
    BY DEF TInv, Types
  <2>2. /\ w \in Nat /\ w2 \in Nat /\ w = w2 + One(f.t = "wu" /\ f.c = c)
        /\ z \in Nat /\ z2 \in Nat /\ z = z2 + One(f.t = "full" /\ f.c = c)
    BY <1>1, <2>1, CountTail
  <2>3. /\ f.t = "wu" => One(f.t = "wu" /\ f.c = c) = 1 /\ One(f.t = "full" /\ f.c = c) = 0
        /\ f.t = "full" => One(f.t = "wu" /\ f.c = c) = 0 /\ One(f.t = "full" /\ f.c = c) = 1
    BY DEF One
  <2> HIDE DEF w, z, w2, z2
  <2>4. QED BY <2>2, <2>3
<1>11. ConnInv(s, C[c], Count(s2c, "open", c), Count(s2c, "data", c), Count(s2c, "full", c),
               Answer(c), Item(c), w, z, sess = "up")
  BY <1>2 DEF TInv, Together
<1>12. /\ Count(s2c, "open", c) \in Nat /\ Count(s2c, "data", c) \in Nat
       /\ Count(s2c, "full", c) \in Nat /\ Answer(c) \in Nat /\ Item(c) \in Nat
       /\ Chunks(C[c].q) \in Nat /\ (sess = "up") \in BOOLEAN
  BY <1>2, Amounts DEF TInv
<1>13. ASSUME NEW r \in ServerRecords(c), f.t \in {"wu", "full"}, srl' = srl,
              streams' \subseteq streams,
              DOMAIN S' = Conns, S'[c] = r, \A d \in Conns : d # c => S'[d] = S[d],
              ConnInv(r, C[c], Count(s2c, "open", c), Count(s2c, "data", c),
                      Count(s2c, "full", c), Answer(c), Item(c), w2, z2, sess = "up")
       PROVE  TInv'
  BY <1>1, <1>2, <1>13, ServerTakes
<1> HIDE DEF w, z, w2, z2
<1>14. CASE f.t \in {"wu", "full"} /\ ~s.hub /\ S' = S /\ streams' \subseteq streams /\ srl' = srl
  <2>1. w2 \in 0 .. w /\ z2 \in 0 .. z
    BY <1>10, <1>14
  <2>2. ConnInv(s, C[c], Count(s2c, "open", c), Count(s2c, "data", c), Count(s2c, "full", c),
                Answer(c), Item(c), w2, z2, sess = "up")
    BY <1>10, <1>11, <1>14, <2>1, UnmappedFits
  <2>3. QED BY <1>3, <1>13, <1>14, <2>2
<1>15. CASE f.t = "full" /\ FullClose(f.c) /\ UNCHANGED srl
  <2>1. CASE s.hub /\ CloseConn(c) /\ UNCHANGED streams
    <3> DEFINE r == [EntryClosed(s) EXCEPT !.hub = FALSE]
    <3>1. S' = [S EXCEPT ![c] = r]
      BY <2>1 DEF CloseConn, SetS
    <3>2. /\ r \in ServerRecords(c) /\ r.up = s.up /\ r.down = s.down /\ r.out = s.out
          /\ r.outU = s.outU /\ r.outD = s.outD /\ r.sent = s.sent /\ ~r.hub /\ r.ack = s.ack
      <4>1. PICK v \in ServerRecords(c) : v = s
        BY <1>3
      <4>2. PICK y : y = [v EXCEPT !.done = TRUE, !.winClosed = TRUE, !.hub = FALSE]
        OBVIOUS
      <4>3. /\ y \in ServerRecords(c) /\ y.up = v.up /\ y.down = v.down /\ y.out = v.out
            /\ y.outU = v.outU /\ y.outD = v.outD /\ y.sent = v.sent /\ ~y.hub
            /\ y.ack = v.ack
        BY <4>2 DEF ServerRecords
      <4>4. y = r
        BY <4>1, <4>2 DEF EntryClosed, ServerRecords
      <4>5. QED BY <4>1, <4>3, <4>4
    <3> HIDE DEF r
    <3>3. ServerMoves(s, r, C[c])
      BY <1>2, <1>3, <3>2, SameStage
    <3>4. ConnInv(r, C[c], Count(s2c, "open", c), Count(s2c, "data", c), Count(s2c, "full", c),
                  Answer(c), Item(c), w, z, sess = "up")
      <4> HIDE DEF s
      <4>1. QED BY <1>10, <1>11, <1>12, <3>3, ServerMovesFit
    <3>5. w2 \in 0 .. w /\ z2 \in 0 .. z
      BY <1>10, <1>15
    <3>6. ConnInv(r, C[c], Count(s2c, "open", c), Count(s2c, "data", c), Count(s2c, "full", c),
                  Answer(c), Item(c), w2, z2, sess = "up")
      BY <1>10, <3>2, <3>4, <3>5, UnmappedFits
    <3>7. DOMAIN S' = Conns /\ S'[c] = r /\ \A d \in Conns : d # c => S'[d] = S[d]
      BY <1>2, <1>3, <3>1
    <3>8. QED BY <1>13, <1>15, <2>1, <3>2, <3>6, <3>7
  <2>2. CASE ~s.hub /\ streams' = streams \ {c} /\ UNCHANGED S
    BY <1>14, <1>15, <2>2
  <2>3. QED BY <1>15, <2>1, <2>2 DEF FullClose
<1>16. CASE f.t = "wu" /\ WindowRelease(f.c, f.v) /\ UNCHANGED <<streams, srl>>
  <2>1. f.v = 1
    BY <1>2, <1>16 DEF ClientFrames
  <2>2. CASE s.hub
    <3> DEFINE m == s.out - 1
               r == [s EXCEPT !.out = m]
    <3>1. S' = [S EXCEPT ![c] = r] /\ m = s.out - 1
      BY <1>16, <2>1, <2>2 DEF WindowRelease, SetS
    <3>2. s.out \in 0 .. Win /\ s.out \in Nat /\ Win \in Nat
      BY <1>3, TunnelAssumption DEF ServerRecords, TunnelAssumption
    <3> HIDE DEF m
    <3>3. /\ r.up = s.up /\ r.down = s.down /\ r.out = m
          /\ r.outU = s.outU /\ r.outD = s.outD /\ r.sent = s.sent /\ r.hub = s.hub /\ r.ack = s.ack
          /\ (m \in 0 .. Win => r \in ServerRecords(c))
      <4>1. PICK v \in ServerRecords(c) : v = s
        BY <1>3
      <4>2. PICK y : y = [v EXCEPT !.out = m]
        OBVIOUS
      <4>3. /\ y.up = v.up /\ y.down = v.down /\ y.out = m
            /\ y.outU = v.outU /\ y.outD = v.outD /\ y.sent = v.sent /\ y.hub = v.hub
            /\ y.ack = v.ack
            /\ (m \in 0 .. Win => y \in ServerRecords(c))
        BY <4>2 DEF ServerRecords
      <4>4. QED BY <4>1, <4>2, <4>3
    <3> HIDE DEF r
    <3>4. /\ s.out >= 1
          /\ ConnInv(r, C[c], Count(s2c, "open", c), Count(s2c, "data", c), Count(s2c, "full", c),
                     Answer(c), Item(c), w2, z, sess = "up")
      <4> HIDE DEF s
      <4>1. w = w2 + 1
        BY <1>10, <1>16
      <4>2. Credited(s, r)
        BY <2>2, <3>1, <3>2, <3>3 DEF Credited
      <4>3. QED BY <1>10, <1>11, <1>12, <4>1, <4>2, CreditBack
    <3>5. r \in ServerRecords(c) /\ z = z2
      BY <1>10, <1>16, <3>1, <3>2, <3>3, <3>4
    <3>6. DOMAIN S' = Conns /\ S'[c] = r /\ \A d \in Conns : d # c => S'[d] = S[d]
      BY <1>2, <1>3, <3>1
    <3>7. QED BY <1>13, <1>16, <3>4, <3>5, <3>6
  <2>3. CASE ~s.hub
    <3>1. S' = [S EXCEPT ![c] = s]
      BY <1>16, <2>3 DEF WindowRelease, SetS
    <3>2. DOMAIN S' = Conns /\ S'[c] = s /\ \A d \in Conns : d # c => S'[d] = S[d]
      BY <1>2, <1>3, <3>1
    <3>3. w2 \in 0 .. w /\ z2 \in 0 .. z
      BY <1>10, <1>16
    <3>4. ConnInv(s, C[c], Count(s2c, "open", c), Count(s2c, "data", c), Count(s2c, "full", c),
                  Answer(c), Item(c), w2, z2, sess = "up")
      BY <1>10, <1>11, <2>3, <3>3, UnmappedFits
    <3>5. QED BY <1>3, <1>13, <1>16, <3>2, <3>4
  <2>4. QED BY <2>2, <2>3
<1>17. QED
  BY <1>7, <1>8, <1>9, <1>15, <1>16 DEF ServerReceive

\* The session is broken: the connections of its streams are closed.
LEMMA ServerSessionEndStep ==
    ASSUME TInv, ServerSessionEnd
    PROVE  TInv'
<1>1. /\ UNCHANGED <<C, s2c, c2s, sess, srl, crl, crlOut>> /\ streams' = {} /\ DOMAIN S' = Conns
      /\ \A d \in Conns : S'[d] \in {S[d], [EntryClosed(S[d]) EXCEPT !.hub = FALSE]}
  BY DEF ServerSessionEnd, links, clientLoop
<1>2. ASSUME NEW d \in Conns
      PROVE  S'[d] \in ServerRecords(d) /\ ServerMoves(S[d], S'[d], C[d])
  <2>1. PICK v \in ServerRecords(d) : v = S[d]
    BY HandlerFacts
  <2>2. PICK y : y = [v EXCEPT !.done = TRUE, !.winClosed = TRUE, !.hub = FALSE]
    OBVIOUS
  <2>3. /\ y \in ServerRecords(d) /\ y.up = v.up /\ y.down = v.down /\ y.out = v.out
        /\ y.outU = v.outU /\ y.outD = v.outD /\ y.sent = v.sent /\ ~y.hub /\ y.ack = v.ack
    BY <2>2 DEF ServerRecords
  <2>4. S'[d] \in {v, y}
    BY <1>1, <2>1, <2>2 DEF EntryClosed, ServerRecords
  <2>5. PICK r : r = S'[d]
    OBVIOUS
  <2>6. C[d].conn = "none" => r.ack # "ok"
    BY <2>1, <2>3, <2>4, <2>5, HandlerFacts
  <2>7. ServerMoves(S[d], r, C[d])
    BY <2>1, <2>3, <2>4, <2>5, <2>6, SameStage
  <2>8. QED BY <2>3, <2>4, <2>5, <2>7
<1>3. Types'
  BY <1>1, <1>2 DEF TInv, Types
<1>4. \A d \in Conns : Answer(d)' = Answer(d) /\ Item(d)' = Item(d)
  BY <1>1 DEF Answer, Item
<1>5. ASSUME NEW d \in Conns PROVE Together(d)'
  <2>1. Together(d) /\ Types
    BY DEF TInv
  <2>2. PICK r : r = S'[d]
    OBVIOUS
  <2>3. ConnInv(r, C[d], Count(s2c, "open", d), Count(s2c, "data", d), Count(s2c, "full", d),
                Answer(d), Item(d), Count(c2s, "wu", d), Count(c2s, "full", d), sess = "up")
    <3>1. ServerMoves(S[d], r, C[d])
      BY <1>2, <2>2
    <3>2. QED BY <2>1, <3>1, Amounts, ServerMovesFit DEF Together
  <2>4. QED BY <1>1, <1>4, <2>2, <2>3 DEF Together
<1>6. QED BY <1>3, <1>5 DEF TInv

-----------------------------------------------------------------------------
(* The client's ends.                                                      *)

\* What the client's goroutines may rely on.
LEMMA ClientFacts ==
    ASSUME TInv, NEW c \in Conns
    PROVE  /\ C[c] \in ClientRecords(c)
           /\ C[c].reg => C[c].inQ
           /\ C[c].up \in {"read", "acquire"} => C[c].outP = None
           /\ \/ C[c].wp = "run" \/ C[c].up \notin {"off", "ended"} \/ C[c].reg \/ C[c].inQ
              \/ C[c].outW # None \/ C[c].outP # None
              => C[c].conn # "none"
BY DEF TInv, Types, Together, ConnInv

\* A step of the client on connection c.
LEMMA ClientTurn ==
    ASSUME TInv, NEW c \in Conns, NEW m \in ClientRecords(c),
           DOMAIN C' = Conns, C'[c] = m, \A d \in Conns : d # c => C'[d] = C[d],
           C[c].conn # "none" => m.conn # "none",
           UNCHANGED <<S, streams, sess, srl>>,
           s2c' \in Seq(ServerFrames(Conns)), Len(s2c') <= LinkCap,
           c2s' \in Seq(ClientFrames(Conns)), Len(c2s') <= LinkCap,
           \A i \in 1 .. Len(c2s') :
              c2s'[i].t = "ack" /\ c2s'[i].v = 1 => C'[c2s'[i].c].conn # "none",
           crl' \in {crl, NoItem} \/ (crl' \in {c} \X Nat /\ m.conn # "none"),
           crlOut' \in AckFrames,
           \A d \in Conns : d # c =>
              /\ \A t \in {"open", "data", "full"} : Count(s2c', t, d) = Count(s2c, t, d)
              /\ \A t \in {"wu", "full"} : Count(c2s', t, d) = Count(c2s, t, d)
              /\ Answer(d)' = Answer(d) /\ Item(d)' = Item(d),
           ConnInv(S[c], m, Count(s2c', "open", c), Count(s2c', "data", c), Count(s2c', "full", c),
                   Answer(c)', Item(c)', Count(c2s', "wu", c), Count(c2s', "full", c), sess = "up")
    PROVE  TInv'
<1>1. crl' \in (Conns \X Nat) \cup {NoItem} /\ (crl' # NoItem => C'[crl'[1]].conn # "none")
  <2>1. CASE crl' = NoItem
    BY <2>1
  <2>2. CASE crl' = crl /\ crl # NoItem
    <3>1. crl \in Conns \X Nat /\ C[crl[1]].conn # "none"
      BY <2>2 DEF TInv, Types
    <3>2. QED BY <2>2, <3>1
  <2>3. CASE crl' \in {c} \X Nat /\ m.conn # "none"
    BY <2>3
  <2>4. QED BY <2>1, <2>2, <2>3
<1>2. Types'
  <2>1. \A d \in Conns : S'[d] \in ServerRecords(d) /\ C'[d] \in ClientRecords(d)
    BY DEF TInv, Types
  <2>2. QED BY <1>1, <2>1 DEF TInv, Types
<1>3. Together(c)'
  BY DEF Together
<1>4. ASSUME NEW d \in Conns, d # c PROVE Together(d)'
  BY <1>4, Untouched DEF TInv
<1>5. QED BY <1>2, <1>3, <1>4 DEF TInv

\* A step of the pumps of c that sends nothing.
LEMMA ClientOwn ==
    ASSUME TInv, NEW c \in Conns, NEW m \in ClientRecords(c), C' = [C EXCEPT ![c] = m],
           UNCHANGED <<S, streams, s2c, c2s, sess, srl, crl, crlOut>>,
           ClientMoves(C[c], m, Count(s2c, "data", c), Item(c), Count(c2s, "wu", c),
                       Count(c2s, "full", c), Count(s2c, "data", c), Item(c), Count(c2s, "wu", c),
                       Count(c2s, "full", c), sess = "up" /\ S[c].hub)
    PROVE  TInv'
<1>1. DOMAIN C' = Conns /\ C'[c] = m /\ \A d \in Conns : d # c => C'[d] = C[d]
  BY DEF TInv, Types
<1>2. C[c].conn # "none" /\ m.conn # "none" /\ S[c].out \in Int
  BY HandlerFacts DEF ClientMoves, ServerRecords
<1>3. ConnInv(S[c], m, Count(s2c, "open", c), Count(s2c, "data", c), Count(s2c, "full", c),
              Answer(c), Item(c), Count(c2s, "wu", c), Count(c2s, "full", c), sess = "up")
  <2>1. Together(c) /\ Types
    BY DEF TInv
  <2>2. PICK n \in Nat, x \in Nat, w \in Nat, z \in Nat, f \in Nat :
           /\ n = Count(s2c, "data", c) /\ x = Item(c) /\ w = Count(c2s, "wu", c)
           /\ z = Count(c2s, "full", c) /\ f = Count(s2c, "full", c)
    BY <2>1, Amounts
  <2>3. Count(s2c, "open", c) \in Nat /\ Answer(c) \in Nat /\ (sess = "up") \in BOOLEAN
    BY <2>1, Amounts
  <2>4. ConnInv(S[c], C[c], Count(s2c, "open", c), n, f, Answer(c), x, w, z, sess = "up")
    BY <2>1, <2>2 DEF Together
  <2>5. ClientMoves(C[c], m, n, x, w, z, n, x, w, z, sess = "up" /\ S[c].hub)
    BY <2>2
  <2>6. ConnInv(S[c], m, Count(s2c, "open", c), n, f, Answer(c), x, w, z, sess = "up")
    <3>1. PICK s, k : s = S[c] /\ k = C[c]
      OBVIOUS
    <3>2. PICK b \in BOOLEAN : b = (sess = "up")
      OBVIOUS
    <3>3. PICK o \in Nat, a \in Nat : o = Count(s2c, "open", c) /\ a = Answer(c)
      BY <2>3
    <3>4. ConnInv(s, k, o, n, f, a, x, w, z, b) /\ ClientMoves(k, m, n, x, w, z, n, x, w, z, b /\ s.hub)
      BY <2>4, <2>5, <3>1, <3>2, <3>3
    <3>5. s.out \in Int
      BY <1>2, <3>1
    <3>6. ConnInv(s, m, o, n, f, a, x, w, z, b)
      BY <3>4, <3>5, ClientMovesFit
    <3>7. QED BY <3>1, <3>2, <3>3, <3>6
  <2>7. QED BY <2>2, <2>6
<1>4. \A d \in Conns : Answer(d)' = Answer(d) /\ Item(d)' = Item(d)
  BY DEF Answer, Item
<1>5. \A i \in 1 .. Len(c2s') :
         c2s'[i].t = "ack" /\ c2s'[i].v = 1 => C'[c2s'[i].c].conn # "none"
  <2>1. ASSUME NEW i \in 1 .. Len(c2s), c2s[i].t = "ack", c2s[i].v = 1
        PROVE  C'[c2s[i].c].conn # "none"
    <3>1. C[c2s[i].c].conn # "none" /\ c2s[i].c \in Conns
      <4>1. c2s[i] \in ClientFrames(Conns)
        BY DEF TInv, Types
      <4>2. QED BY <2>1, <4>1 DEF TInv, Types, ClientFrames
    <3>2. QED BY <1>1, <1>2, <3>1
  <2>2. QED BY <2>1
<1>6. /\ s2c' \in Seq(ServerFrames(Conns)) /\ Len(s2c') <= LinkCap
      /\ c2s' \in Seq(ClientFrames(Conns)) /\ Len(c2s') <= LinkCap /\ crlOut' \in AckFrames
  BY DEF TInv, Types
<1>7. QED
  <2>1. \A d \in Conns : d # c =>
              /\ \A t \in {"open", "data", "full"} : Count(s2c', t, d) = Count(s2c, t, d)
              /\ \A t \in {"wu", "full"} : Count(c2s', t, d) = Count(c2s, t, d)
              /\ Answer(d)' = Answer(d) /\ Item(d)' = Item(d)
    BY <1>4
  <2>2. ConnInv(S[c], m, Count(s2c', "open", c), Count(s2c', "data", c), Count(s2c', "full", c),
                Answer(c)', Item(c)', Count(c2s', "wu", c), Count(c2s', "full", c), sess = "up")
    BY <1>3, <1>4
  <2>3. QED BY <1>1, <1>2, <1>5, <1>6, <2>1, <2>2, ClientTurn

\* closeConn takes the registration away and has the server told, if it was there.
LEMMA ConnClosedFacts ==
    ASSUME NEW c \in Conns, NEW k \in ClientRecords(c), NEW o \in {"outW", "outP", "-"}
    PROVE  LET m == ConnClosed(c, k, o)
           IN  /\ m \in ClientRecords(c) /\ ~m.reg /\ ~m.inQ /\ m.q = k.q /\ m.up = k.up /\ m.wp = k.wp
               /\ m.conn = k.conn \/ (k.reg /\ m.conn = "closed")
               /\ o # "outW" => m.outW = k.outW
               /\ o # "outP" => m.outP = k.outP
               /\ ~k.reg => m.outW = k.outW /\ m.outP = k.outP
               /\ k.reg /\ o = "outW" => m.outW.t = "full"
               /\ k.reg /\ o = "outP" => m.outP.t = "full"
<1> DEFINE g == Frame("full", c, 0)
<1>1. g.t = "full" /\ g \in WriterFrames(c) /\ g \in PumpFrames(c)
  BY DEF Frame, WriterFrames, PumpFrames, ClientFrames
<1> HIDE DEF g
<1>2. CASE ~k.reg
  <2>1. ConnClosed(c, k, o) = [k EXCEPT !.inQ = FALSE]
    BY <1>2 DEF ConnClosed
  <2>2. PICK m : m = [k EXCEPT !.inQ = FALSE]
    OBVIOUS
  <2>3. /\ m \in ClientRecords(c) /\ m.reg = k.reg /\ ~m.inQ /\ m.q = k.q /\ m.up = k.up
        /\ m.wp = k.wp /\ m.conn = k.conn /\ m.outW = k.outW /\ m.outP = k.outP
    BY <2>2 DEF ClientRecords
  <2>4. QED BY <1>2, <2>1, <2>2, <2>3
<1>3. CASE k.reg /\ o = "-"
  <2>1. ConnClosed(c, k, o) = [k EXCEPT !.inQ = FALSE, !.reg = FALSE, !.winClosed = TRUE,
                                        !.qClosed = TRUE, !.conn = "closed"]
    BY <1>3 DEF ConnClosed, ClientRecords
  <2>2. PICK m : m = [k EXCEPT !.inQ = FALSE, !.reg = FALSE, !.winClosed = TRUE,
                               !.qClosed = TRUE, !.conn = "closed"]
    OBVIOUS
  <2>3. /\ m \in ClientRecords(c) /\ ~m.reg /\ ~m.inQ /\ m.q = k.q /\ m.up = k.up
        /\ m.wp = k.wp /\ m.conn = "closed" /\ m.outW = k.outW /\ m.outP = k.outP
    BY <2>2 DEF ClientRecords
  <2>4. QED BY <1>3, <2>1, <2>2, <2>3
<1>4. CASE k.reg /\ o = "outW"
  <2>1. ConnClosed(c, k, o) = [k EXCEPT !.inQ = FALSE, !.reg = FALSE, !.winClosed = TRUE,
                                        !.qClosed = TRUE, !.conn = "closed", !.outW = g]
    BY <1>4 DEF ConnClosed, ClientRecords, g
  <2>2. PICK m : m = [k EXCEPT !.inQ = FALSE, !.reg = FALSE, !.winClosed = TRUE,
                               !.qClosed = TRUE, !.conn = "closed", !.outW = g]
    OBVIOUS
  <2>3. /\ m \in ClientRecords(c) /\ ~m.reg /\ ~m.inQ /\ m.q = k.q /\ m.up = k.up
        /\ m.wp = k.wp /\ m.conn = "closed" /\ m.outW = g /\ m.outP = k.outP
    BY <1>1, <2>2 DEF ClientRecords
  <2>4. QED BY <1>1, <1>4, <2>1, <2>2, <2>3
<1>5. CASE k.reg /\ o = "outP"
  <2>1. ConnClosed(c, k, o) = [k EXCEPT !.inQ = FALSE, !.reg = FALSE, !.winClosed = TRUE,
                                        !.qClosed = TRUE, !.conn = "closed", !.outP = g]
    BY <1>5 DEF ConnClosed, ClientRecords, g
  <2>2. PICK m : m = [k EXCEPT !.inQ = FALSE, !.reg = FALSE, !.winClosed = TRUE,
                               !.qClosed = TRUE, !.conn = "closed", !.outP = g]
    OBVIOUS
  <2>3. /\ m \in ClientRecords(c) /\ ~m.reg /\ ~m.inQ /\ m.q = k.q /\ m.up = k.up
        /\ m.wp = k.wp /\ m.conn = "closed" /\ m.outW = k.outW /\ m.outP = g
    BY <1>1, <2>2 DEF ClientRecords
  <2>4. QED BY <1>1, <1>5, <2>1, <2>2, <2>3
<1>6. QED
  BY <1>2, <1>3, <1>4, <1>5 DEF ClientRecords

\* A pump's step: it keeps the account of its chunks, and gives the connection up
\* only with a full close in its outbox.
Steady(k, m) ==
    /\ k.conn # "none" /\ m.conn # "none" /\ (m.reg => k.reg /\ m.inQ)
    /\ Chunks(m.q) \in Nat
    /\ Chunks(m.q) + One(m.outW.t = "wu") <= Chunks(k.q) + One(k.outW.t = "wu")
    /\ m.reg => Chunks(m.q) + One(m.outW.t = "wu") = Chunks(k.q) + One(k.outW.t = "wu")
    /\ k.reg \/ k.outW.t = "full" \/ k.outP.t = "full" =>
          m.reg \/ m.outW.t = "full" \/ m.outP.t = "full"
    /\ m.up \in {"read", "acquire"} => m.outP = None

LEMMA PumpStep ==
    ASSUME TInv, NEW c \in Conns, NEW m \in ClientRecords(c), C' = [C EXCEPT ![c] = m],
           UNCHANGED <<S, streams, s2c, c2s, sess, srl, crl, crlOut>>, Steady(C[c], m)
    PROVE  TInv'
<1>1. PICK n \in Nat, x \in Nat, w \in Nat, z \in Nat :
           /\ n = Count(s2c, "data", c) /\ x = Item(c) /\ w = Count(c2s, "wu", c)
           /\ z = Count(c2s, "full", c)
  BY Amounts DEF TInv
<1>2. PICK k : k = C[c] /\ Chunks(k.q) \in Nat
  BY Amounts DEF TInv
<1>3. One(m.outW.t = "wu") \in Nat /\ One(k.outW.t = "wu") \in Nat
  BY DEF One
<1>4. ClientMoves(k, m, n, x, w, z, n, x, w, z, sess = "up" /\ S[c].hub)
  BY <1>2, <1>3 DEF Steady, ClientMoves
<1>5. ClientMoves(C[c], m, Count(s2c, "data", c), Item(c), Count(c2s, "wu", c),
                  Count(c2s, "full", c), Count(s2c, "data", c), Item(c), Count(c2s, "wu", c),
                  Count(c2s, "full", c), sess = "up" /\ S[c].hub)
  BY <1>1, <1>2, <1>4
<1>6. QED BY <1>5, ClientOwn

\* The same when queue and write pump stay as they are.
LEMMA UplinkPumpStep ==
    ASSUME TInv, NEW c \in Conns, NEW m \in ClientRecords(c), C' = [C EXCEPT ![c] = m],
           UNCHANGED <<S, streams, s2c, c2s, sess, srl, crl, crlOut>>,
           C[c].up \in {"read", "acquire"}, m.conn # "none", m.q = C[c].q, m.outW = C[c].outW,
           m.reg => C[c].reg /\ m.inQ,
           C[c].reg => m.reg \/ m.outP.t = "full",
           m.up \in {"read", "acquire"} => m.outP = None
    PROVE  TInv'
<1>1. C[c].outP = None /\ C[c].conn # "none" /\ None.t = "none"
  BY ClientFacts DEF None
<1>2. Chunks(C[c].q) \in Nat
  BY Amounts DEF TInv
<1>3. One(C[c].outW.t = "wu") \in Nat
  BY DEF One
<1>4. PICK e \in Nat : e = Chunks(C[c].q) + One(C[c].outW.t = "wu")
  BY <1>2, <1>3
<1>5. e = Chunks(m.q) + One(m.outW.t = "wu") /\ e <= e
  BY <1>4
<1>6. Steady(C[c], m)
  BY <1>1, <1>2, <1>4, <1>5 DEF Steady
<1>7. QED BY <1>6, PumpStep

LEMMA BackendStep ==
    ASSUME TInv, NEW c \in Conns, BackendData(c) \/ BackendEOF(c) \/ BackendError(c)
    PROVE  TInv'
<1>1. /\ UNCHANGED <<S, streams, s2c, c2s, sess, srl, crl, crlOut>> /\ C[c] \in ClientRecords(c)
      /\ C[c].up = "read" /\ C[c].conn # "none" /\ C[c].outP = None /\ (C[c].reg => C[c].inQ)
  BY ClientFacts DEF BackendData, BackendEOF, BackendError, links, serverLoop, clientLoop
<1>2. PICK k \in ClientRecords(c) : k = C[c]
  BY <1>1
<1>3. CASE BackendData(c)
  <2>1. PICK n \in Nat : n = k.sent + 1
    BY DEF ClientRecords
  <2>2. PICK m : m = [k EXCEPT !.up = "acquire", !.sent = n]
    OBVIOUS
  <2>3. /\ m \in ClientRecords(c) /\ m.up = "acquire" /\ m.conn = k.conn /\ m.q = k.q
        /\ m.outW = k.outW /\ m.outP = k.outP /\ m.reg = k.reg /\ m.inQ = k.inQ
    BY <2>2 DEF ClientRecords
  <2>4. C' = [C EXCEPT ![c] = m]
    BY <1>2, <1>3, <2>1, <2>2 DEF BackendData, SetC
  <2>5. QED BY <1>1, <1>2, <2>3, <2>4, UplinkPumpStep
<1>4. CASE BackendEOF(c)
  <2>1. PICK g : g = Frame("half", c, 0)
    OBVIOUS
  <2>2. g \in PumpFrames(c)
    BY <2>1 DEF Frame, PumpFrames, ClientFrames
  <2>3. PICK m : m = [k EXCEPT !.up = "finished", !.outP = g]
    OBVIOUS
  <2>4. /\ m \in ClientRecords(c) /\ m.up = "finished" /\ m.conn = k.conn /\ m.q = k.q
        /\ m.outW = k.outW /\ m.outP = g /\ m.reg = k.reg /\ m.inQ = k.inQ
    BY <2>2, <2>3 DEF ClientRecords
  <2>5. C' = [C EXCEPT ![c] = m]
    BY <1>2, <1>4, <2>1, <2>3 DEF BackendEOF, SetC
  <2>6. QED BY <1>1, <1>2, <2>4, <2>5, UplinkPumpStep
<1>5. CASE BackendError(c)
  <2>1. PICK y : y = ConnClosed(c, k, "outP")
    OBVIOUS
  <2>2. /\ y \in ClientRecords(c) /\ ~y.reg /\ y.q = k.q
        /\ y.conn = k.conn \/ y.conn = "closed"
        /\ y.outW = k.outW /\ (k.reg => y.outP.t = "full")
    BY <2>1, ConnClosedFacts
  <2>3. PICK m : m = [y EXCEPT !.up = "ended"]
    OBVIOUS
  <2>4. /\ m \in ClientRecords(c) /\ m.up = "ended" /\ m.conn = y.conn /\ m.q = y.q
        /\ m.outW = y.outW /\ m.outP = y.outP /\ m.reg = y.reg /\ m.inQ = y.inQ
    BY <2>2, <2>3 DEF ClientRecords
  <2>5. C' = [C EXCEPT ![c] = m]
    BY <1>2, <1>5, <2>1, <2>3 DEF BackendError, SetC
  <2>6. QED BY <1>1, <1>2, <2>2, <2>4, <2>5, UplinkPumpStep
<1>6. QED BY <1>3, <1>4, <1>5

LEMMA ClientAcquireStep ==
    ASSUME TunnelAssumption, TInv, NEW c \in Conns, ClientAcquire(c)
    PROVE  TInv'
<1>1. /\ UNCHANGED <<S, streams, s2c, c2s, sess, srl, crl, crlOut>> /\ C[c] \in ClientRecords(c)
      /\ C[c].up = "acquire" /\ C[c].conn # "none" /\ C[c].outP = None /\ (C[c].reg => C[c].inQ)
  BY ClientFacts DEF ClientAcquire, links, serverLoop, clientLoop
<1>2. PICK k \in ClientRecords(c) : k = C[c]
  BY <1>1
<1>3. CASE C' = [C EXCEPT ![c] = [C[c] EXCEPT !.up = "ended"]]
  <2>1. PICK m : m = [k EXCEPT !.up = "ended"]
    OBVIOUS
  <2>2. /\ m \in ClientRecords(c) /\ m.up = "ended" /\ m.conn = k.conn /\ m.q = k.q
        /\ m.outW = k.outW /\ m.outP = k.outP /\ m.reg = k.reg /\ m.inQ = k.inQ
    BY <2>1 DEF ClientRecords
  <2>3. C' = [C EXCEPT ![c] = m]
    BY <1>2, <1>3, <2>1
  <2>4. QED BY <1>1, <1>2, <2>2, <2>3, UplinkPumpStep
<1>4. CASE /\ HasCredit(C[c].out)
           /\ C' = [C EXCEPT ![c] = [C[c] EXCEPT !.up = "send", !.out = @ + 1,
                                                 !.outP = Frame("data", c, C[c].sent)]]
  <2>1. PICK g : g = Frame("data", c, k.sent)
    OBVIOUS
  <2>2. k.sent \in Nat /\ k.out \in 0 .. Win
    BY DEF ClientRecords
  <2>3. g \in PumpFrames(c)
    BY <2>1, <2>2 DEF Frame, PumpFrames, ClientFrames
  <2>4. PICK n \in 0 .. Win : n = k.out + 1
    BY <1>2, <1>4, <2>2 DEF HasCredit, TunnelAssumption
  <2>5. PICK m : m = [k EXCEPT !.up = "send", !.out = n, !.outP = g]
    OBVIOUS
  <2>6. /\ m \in ClientRecords(c) /\ m.up = "send" /\ m.conn = k.conn /\ m.q = k.q
        /\ m.outW = k.outW /\ m.outP = g /\ m.reg = k.reg /\ m.inQ = k.inQ
    BY <2>3, <2>5 DEF ClientRecords
  <2>7. C' = [C EXCEPT ![c] = m]
    BY <1>2, <1>4, <2>1, <2>4, <2>5
  <2>8. QED BY <1>1, <1>2, <2>6, <2>7, UplinkPumpStep
<1>5. QED BY <1>3, <1>4 DEF ClientAcquire, SetC

\* The write pump takes from its queue: a chunk for the backend, or the sentinel.
LEMMA WritePumpStep ==
    ASSUME TunnelAssumption, TInv, NEW c \in Conns, WritePump(c) \/ WriteError(c)
    PROVE  TInv'
<1>1. /\ UNCHANGED <<S, streams, s2c, c2s, sess, srl, crl, crlOut>> /\ C[c] \in ClientRecords(c)
      /\ C[c].wp = "run" /\ C[c].conn # "none" /\ C[c].outW = None /\ (C[c].reg => C[c].inQ)
      /\ C[c].up \in {"read", "acquire"} => C[c].outP = None
  BY ClientFacts DEF WritePump, WriteError, links, serverLoop, clientLoop
<1>2. PICK k \in ClientRecords(c) : k = C[c]
  BY <1>1
<1>3. k.q \in Seq(Nat) /\ Len(k.q) <= QCap /\ k.got \in Seq(Nat) /\ Chunks(k.q) \in Nat
  <2>1. k.q \in Seq(Nat) /\ Len(k.q) <= QCap /\ k.got \in Seq(Nat)
    BY DEF ClientRecords, UpTo
  <2>2. QED BY <2>1, ChunksAppend
<1>4. None.t = "none" /\ One(k.outW.t = "wu") = 0
  BY <1>1, <1>2 DEF None, One
<1>5. ASSUME k.q # <<>>
      PROVE  /\ Tail(k.q) \in UpTo(QCap) /\ Head(k.q) \in Nat /\ Chunks(Tail(k.q)) \in Nat
             /\ Chunks(k.q) = Chunks(Tail(k.q)) + One(Head(k.q) # NilItem)
  <2>1. Tail(k.q) \in Seq(Nat) /\ Head(k.q) \in Nat /\ Len(Tail(k.q)) = Len(k.q) - 1 /\ Len(k.q) \in Nat
    BY <1>3, <1>5, HeadTailProperties, LenProperties
  <2>2. QCap \in Nat
    BY DEF TunnelAssumption
  <2>3. Len(Tail(k.q)) <= QCap
    BY <1>3, <2>1, <2>2
  <2>4. Tail(k.q) \in UpTo(QCap)
    BY <2>1, <2>3 DEF UpTo
  <2>5. QED BY <1>3, <1>5, <2>1, <2>4, ChunksTail
<1>6. CASE /\ k.q # <<>> /\ Head(k.q) # NilItem
           /\ C' = [C EXCEPT ![c] = [[k EXCEPT !.q = Tail(@)] EXCEPT
                        !.got = Append(@, Head(k.q)), !.outW = Frame("wu", c, 1)]]
  <2>1. PICK g, t, h, b : g = Frame("wu", c, 1) /\ t = Tail(k.q) /\ h = Head(k.q) /\ b = Append(k.got, h)
    OBVIOUS
  <2>2. g \in WriterFrames(c) /\ g.t = "wu" /\ One(g.t = "wu") = 1
    BY <2>1 DEF Frame, WriterFrames, ClientFrames, One
  <2>3. t \in UpTo(QCap) /\ Chunks(t) \in Nat /\ Chunks(k.q) = Chunks(t) + 1 /\ b \in Seq(Nat)
    <3>1. One(Head(k.q) # NilItem) = 1
      BY <1>6 DEF One
    <3>2. b \in Seq(Nat)
      BY <1>3, <1>5, <1>6, <2>1, AppendProperties
    <3>3. QED BY <1>5, <1>6, <2>1, <3>1, <3>2
  <2>4. PICK m : m = [k EXCEPT !.q = t, !.got = b, !.outW = g]
    OBVIOUS
  <2>5. /\ m \in ClientRecords(c) /\ m.up = k.up /\ m.conn = k.conn /\ m.q = t
        /\ m.outW = g /\ m.outP = k.outP /\ m.reg = k.reg /\ m.inQ = k.inQ
    BY <2>2, <2>3, <2>4 DEF ClientRecords
  <2>6. C' = [C EXCEPT ![c] = m]
    BY <1>6, <2>1, <2>4 DEF ClientRecords
  <2>7. Chunks(m.q) + One(m.outW.t = "wu") = Chunks(k.q) + One(k.outW.t = "wu")
    BY <1>3, <1>4, <2>2, <2>3, <2>5
  <2>8. Chunks(k.q) + One(k.outW.t = "wu") \in Nat
    BY <1>3, <1>4
  <2>9. Chunks(m.q) + One(m.outW.t = "wu") <= Chunks(k.q) + One(k.outW.t = "wu")
    BY <2>7, <2>8
  <2>10. Steady(C[c], m)
    BY <1>1, <1>2, <1>4, <2>3, <2>5, <2>7, <2>9 DEF Steady
  <2>11. QED BY <1>1, <2>5, <2>6, <2>10, PumpStep
<1>7. CASE /\ k.q # <<>> /\ Head(k.q) = NilItem
           /\ C' = [C EXCEPT ![c] = [[k EXCEPT !.q = Tail(@)] EXCEPT !.eof = @ \/ k.conn = "open"]]
  <2>1. PICK t : t = Tail(k.q)
    OBVIOUS
  <2>2. t \in UpTo(QCap) /\ Chunks(t) \in Nat /\ Chunks(k.q) = Chunks(t)
    <3>1. One(Head(k.q) # NilItem) = 0
      BY <1>7 DEF One
    <3>2. QED BY <1>5, <1>7, <2>1, <3>1
  <2>3. PICK b \in BOOLEAN : b = (k.eof \/ k.conn = "open")
    BY DEF ClientRecords
  <2>4. PICK m : m = [k EXCEPT !.q = t, !.eof = b]
    OBVIOUS
  <2>5. /\ m \in ClientRecords(c) /\ m.up = k.up /\ m.conn = k.conn /\ m.q = t
        /\ m.outW = k.outW /\ m.outP = k.outP /\ m.reg = k.reg /\ m.inQ = k.inQ
    BY <2>2, <2>4 DEF ClientRecords
  <2>6. C' = [C EXCEPT ![c] = m]
    BY <1>7, <2>1, <2>3, <2>4 DEF ClientRecords
  <2>7. Chunks(m.q) + One(m.outW.t = "wu") = Chunks(k.q) + One(k.outW.t = "wu")
    BY <2>2, <2>5
  <2>8. Chunks(k.q) + One(k.outW.t = "wu") \in Nat
    BY <1>3, <1>4
  <2>9. Chunks(m.q) + One(m.outW.t = "wu") <= Chunks(k.q) + One(k.outW.t = "wu")
    BY <2>7, <2>8
  <2>10. Steady(C[c], m)
    BY <1>1, <1>2, <2>2, <2>5, <2>7, <2>9 DEF Steady
  <2>11. QED BY <1>1, <2>5, <2>6, <2>10, PumpStep
<1>8. CASE C' = [C EXCEPT ![c] = [k EXCEPT !.wp = "ended"]]
  <2>1. PICK m : m = [k EXCEPT !.wp = "ended"]
    OBVIOUS
  <2>2. /\ m \in ClientRecords(c) /\ m.up = k.up /\ m.conn = k.conn /\ m.q = k.q
        /\ m.outW = k.outW /\ m.outP = k.outP /\ m.reg = k.reg /\ m.inQ = k.inQ
    BY <2>1 DEF ClientRecords
  <2>3. Chunks(m.q) + One(m.outW.t = "wu") <= Chunks(k.q) + One(k.outW.t = "wu")
    <3>1. Chunks(k.q) + One(k.outW.t = "wu") \in Nat
      BY <1>3, <1>4
    <3>2. QED BY <2>2, <3>1
  <2>4. Steady(C[c], m)
    BY <1>1, <1>2, <1>3, <2>2, <2>3 DEF Steady
  <2>5. QED BY <1>1, <1>8, <2>1, <2>2, <2>4, PumpStep
<1>9. CASE WriteError(c)
  <2>1. PICK t, v : t = Tail(k.q) /\ v = [k EXCEPT !.q = t]
    OBVIOUS
  <2>2. k.q # <<>> /\ C' = [C EXCEPT ![c] = [ConnClosed(c, v, "outW") EXCEPT !.wp = "ended"]]
    BY <1>2, <1>9, <2>1 DEF WriteError, SetC
  <2>3. /\ t \in UpTo(QCap) /\ Chunks(t) \in Nat
        /\ Chunks(k.q) = Chunks(t) + One(Head(k.q) # NilItem)
    BY <1>5, <2>1, <2>2
  <2>4. Chunks(t) <= Chunks(k.q)
    <3>1. One(Head(k.q) # NilItem) \in Nat
      BY DEF One
    <3>2. QED BY <2>3, <3>1
  <2>5. /\ v \in ClientRecords(c) /\ v.up = k.up /\ v.conn = k.conn /\ v.q = t
        /\ v.outW = k.outW /\ v.outP = k.outP /\ v.reg = k.reg /\ v.inQ = k.inQ
    BY <2>1, <2>3 DEF ClientRecords
  <2>6. PICK y : y = ConnClosed(c, v, "outW")
    OBVIOUS
  <2>7. /\ y \in ClientRecords(c) /\ ~y.reg /\ y.q = v.q /\ y.up = v.up
        /\ y.conn = v.conn \/ y.conn = "closed"
        /\ y.outP = v.outP /\ (v.reg => y.outW.t = "full") /\ (~v.reg => y.outW = v.outW)
    BY <2>5, <2>6, ConnClosedFacts
  <2>8. PICK m : m = [y EXCEPT !.wp = "ended"]
    OBVIOUS
  <2>9. /\ m \in ClientRecords(c) /\ m.up = y.up /\ m.conn = y.conn /\ m.q = y.q
        /\ m.outW = y.outW /\ m.outP = y.outP /\ m.reg = y.reg /\ m.inQ = y.inQ
    BY <2>7, <2>8 DEF ClientRecords
  <2>10. One(m.outW.t = "wu") = 0
    BY <1>1, <1>2, <1>4, <2>5, <2>7, <2>9 DEF One, ClientRecords
  <2>11. Chunks(m.q) + One(m.outW.t = "wu") <= Chunks(k.q) + One(k.outW.t = "wu")
    BY <1>3, <1>4, <2>3, <2>4, <2>5, <2>7, <2>9, <2>10
  <2>12. Steady(C[c], m)
    BY <1>1, <1>2, <1>4, <2>3, <2>5, <2>7, <2>9, <2>11 DEF Steady
  <2>13. QED BY <1>1, <2>2, <2>6, <2>8, <2>9, <2>12, PumpStep
<1>10. QED
  BY <1>2, <1>6, <1>7, <1>8, <1>9 DEF WritePump, SetC

\* What a send that succeeds or fails does to the client's link.
LEMMA ClientLinkFacts ==
    ASSUME TInv, NEW c \in Conns, NEW g \in ClientFrames({c}),
           \/ sess = "up" /\ Len(c2s) < LinkCap /\ c2s' = Append(c2s, g)
           \/ sess = "down" /\ c2s' = c2s
    PROVE  /\ c2s' \in Seq(ClientFrames(Conns)) /\ Len(c2s') <= LinkCap
           /\ \A d \in Conns : d # c =>
                 \A t \in {"wu", "full"} : Count(c2s', t, d) = Count(c2s, t, d)
           /\ \A t \in {"wu", "full"} :
                 /\ Count(c2s', t, c) \in Nat
                 /\ \/ sess = "up" /\ Count(c2s', t, c) = Count(c2s, t, c) + One(g.t = t)
                    \/ sess = "down" /\ Count(c2s', t, c) = Count(c2s, t, c)
           /\ \A i \in 1 .. Len(c2s') : c2s'[i].t = "ack" /\ c2s'[i].v = 1 =>
                 c2s'[i] = g \/ C[c2s'[i].c].conn # "none"
<1>1. g \in ClientFrames(Conns) /\ g.c = c
  BY DEF ClientFrames
<1>2. c2s \in Seq(ClientFrames(Conns)) /\ Len(c2s) <= LinkCap /\ Types
  BY DEF TInv, Types
<1>3. \A i \in 1 .. Len(c2s) : c2s[i].t = "ack" /\ c2s[i].v = 1 => C[c2s[i].c].conn # "none"
  BY DEF TInv, Types
<1>4. CASE sess = "up" /\ Len(c2s) < LinkCap /\ c2s' = Append(c2s, g)
  <2>1. /\ c2s' \in Seq(ClientFrames(Conns)) /\ Len(c2s') = Len(c2s) + 1 /\ Len(c2s) \in Nat
        /\ c2s'[Len(c2s) + 1] = g /\ \A i \in 1 .. Len(c2s) : c2s'[i] = c2s[i]
    BY <1>1, <1>2, <1>4, AppendProperties, LenProperties
  <2>2. Len(c2s') <= LinkCap
    <3>1. Len(c2s) < LinkCap
      BY <1>4
    <3>2. QED BY <2>1, <3>1, TunnelAssumption DEF TunnelAssumption
  <2>3. ASSUME NEW d \in Conns, d # c, NEW t \in {"wu", "full"}
        PROVE  Count(c2s', t, d) = Count(c2s, t, d)
    BY <1>1, <1>2, <1>4, <2>3, OtherCounts
  <2>4. ASSUME NEW t \in {"wu", "full"}
        PROVE  Count(c2s', t, c) \in Nat /\ Count(c2s', t, c) = Count(c2s, t, c) + One(g.t = t)
    <3>1. /\ Count(c2s, t, c) \in Nat
          /\ Count(c2s', t, c) = Count(c2s, t, c) + One(g.t = t /\ g.c = c)
      BY <1>1, <1>2, <1>4, CountAppend
    <3>2. One(g.t = t /\ g.c = c) = One(g.t = t) /\ One(g.t = t) \in Nat
      BY <1>1 DEF One
    <3>3. QED BY <3>1, <3>2
  <2>5. ASSUME NEW i \in 1 .. Len(c2s'), c2s'[i].t = "ack", c2s'[i].v = 1
        PROVE  c2s'[i] = g \/ C[c2s'[i].c].conn # "none"
    <3>1. i = Len(c2s) + 1 \/ i \in 1 .. Len(c2s)
      BY <2>1
    <3>2. QED BY <1>3, <2>1, <2>5, <3>1
  <2>6. QED BY <1>4, <2>1, <2>2, <2>3, <2>4, <2>5
<1>5. CASE sess = "down" /\ c2s' = c2s
  BY <1>2, <1>3, <1>5, Amounts
<1>6. QED BY <1>4, <1>5

\* A pump of c sends a frame: it is on the link, or lost on a session that is broken.
LEMMA ClientSends ==
    ASSUME TInv, NEW c \in Conns, NEW g \in ClientFrames({c}), g.t # "ack",
           NEW m \in ClientRecords(c), C' = [C EXCEPT ![c] = m],
           \/ sess = "up" /\ Len(c2s) < LinkCap /\ c2s' = Append(c2s, g)
           \/ sess = "down" /\ c2s' = c2s,
           UNCHANGED <<S, streams, s2c, sess, srl, crl, crlOut>>,
           ClientMoves(C[c], m, Count(s2c, "data", c), Item(c), Count(c2s, "wu", c),
                       Count(c2s, "full", c), Count(s2c, "data", c), Item(c), Count(c2s', "wu", c),
                       Count(c2s', "full", c), sess = "up" /\ S[c].hub)
    PROVE  TInv'
<1>1. DOMAIN C' = Conns /\ C'[c] = m /\ \A d \in Conns : d # c => C'[d] = C[d]
  BY DEF TInv, Types
<1>2. C[c].conn # "none" /\ m.conn # "none" /\ S[c].out \in Int
  BY HandlerFacts DEF ClientMoves, ServerRecords
<1>3. /\ c2s' \in Seq(ClientFrames(Conns)) /\ Len(c2s') <= LinkCap
      /\ \A d \in Conns : d # c => \A t \in {"wu", "full"} : Count(c2s', t, d) = Count(c2s, t, d)
      /\ \A t \in {"wu", "full"} : Count(c2s', t, c) \in Nat
      /\ \A i \in 1 .. Len(c2s') : c2s'[i].t = "ack" /\ c2s'[i].v = 1 =>
            c2s'[i] = g \/ C[c2s'[i].c].conn # "none"
  BY ClientLinkFacts
<1>4. ConnInv(S[c], m, Count(s2c, "open", c), Count(s2c, "data", c), Count(s2c, "full", c),
              Answer(c), Item(c), Count(c2s', "wu", c), Count(c2s', "full", c), sess = "up")
  <2>1. Together(c) /\ Types
    BY DEF TInv
  <2>2. PICK n \in Nat, x \in Nat, w \in Nat, z \in Nat, f \in Nat, w2 \in Nat, z2 \in Nat :
           /\ n = Count(s2c, "data", c) /\ x = Item(c) /\ w = Count(c2s, "wu", c)
           /\ z = Count(c2s, "full", c) /\ f = Count(s2c, "full", c)
           /\ w2 = Count(c2s', "wu", c) /\ z2 = Count(c2s', "full", c)
    BY <1>3, <2>1, Amounts
  <2>3. PICK s, k : s = S[c] /\ k = C[c]
    OBVIOUS
  <2>4. PICK b \in BOOLEAN : b = (sess = "up")
    OBVIOUS
  <2>5. PICK o \in Nat, a \in Nat : o = Count(s2c, "open", c) /\ a = Answer(c)
    BY <2>1, Amounts
  <2>6. /\ ConnInv(s, k, o, n, f, a, x, w, z, b) /\ s.out \in Int
        /\ ClientMoves(k, m, n, x, w, z, n, x, w2, z2, b /\ s.hub)
    BY <1>2, <2>1, <2>2, <2>3, <2>4, <2>5 DEF Together
  <2>7. ConnInv(s, m, o, n, f, a, x, w2, z2, b)
    BY <2>6, ClientMovesFit
  <2>8. QED BY <2>2, <2>3, <2>4, <2>5, <2>7
<1>5. \A d \in Conns : Answer(d)' = Answer(d) /\ Item(d)' = Item(d)
  BY DEF Answer, Item
<1>6. \A i \in 1 .. Len(c2s') :
         c2s'[i].t = "ack" /\ c2s'[i].v = 1 => C'[c2s'[i].c].conn # "none"
  <2>1. ASSUME NEW i \in 1 .. Len(c2s'), c2s'[i].t = "ack", c2s'[i].v = 1
        PROVE  C'[c2s'[i].c].conn # "none"
    <3>1. C[c2s'[i].c].conn # "none"
      BY <1>3, <2>1
    <3>2. c2s'[i].c \in Conns
      <4>1. c2s'[i] \in ClientFrames(Conns)
        BY <1>3
      <4>2. QED BY <4>1 DEF ClientFrames
    <3>3. QED BY <1>1, <1>2, <3>1, <3>2
  <2>2. QED BY <2>1
<1>7. s2c' \in Seq(ServerFrames(Conns)) /\ Len(s2c') <= LinkCap /\ crlOut' \in AckFrames
  BY DEF TInv, Types
<1>8. \A d \in Conns : d # c =>
              /\ \A t \in {"open", "data", "full"} : Count(s2c', t, d) = Count(s2c, t, d)
              /\ \A t \in {"wu", "full"} : Count(c2s', t, d) = Count(c2s, t, d)
              /\ Answer(d)' = Answer(d) /\ Item(d)' = Item(d)
  BY <1>3, <1>5
<1>9. ConnInv(S[c], m, Count(s2c', "open", c), Count(s2c', "data", c), Count(s2c', "full", c),
              Answer(c)', Item(c)', Count(c2s', "wu", c), Count(c2s', "full", c), sess = "up")
  BY <1>4, <1>5
<1>10. QED BY <1>1, <1>2, <1>3, <1>6, <1>7, <1>8, <1>9, ClientTurn

\* The same, told by the frame: a window update takes the place of the one in the
\* outbox, and a full close that of the one announced.
Sends(k, m, g, up) ==
    /\ k.conn # "none" /\ m.conn # "none" /\ m.q = k.q /\ (m.reg => k.reg /\ m.inQ)
    /\ One(m.outW.t = "wu") + One(g.t = "wu") = One(k.outW.t = "wu")
    /\ up /\ (k.reg \/ k.outW.t = "full" \/ k.outP.t = "full") =>
          m.reg \/ g.t = "full" \/ m.outW.t = "full" \/ m.outP.t = "full"
    /\ m.up \in {"read", "acquire"} => m.outP = None

LEMMA ClientSendsFrame ==
    ASSUME TInv, NEW c \in Conns, NEW g \in ClientFrames({c}), g.t # "ack",
           NEW m \in ClientRecords(c), C' = [C EXCEPT ![c] = m],
           \/ sess = "up" /\ Len(c2s) < LinkCap /\ c2s' = Append(c2s, g)
           \/ sess = "down" /\ c2s' = c2s,
           UNCHANGED <<S, streams, s2c, sess, srl, crl, crlOut>>,
           Sends(C[c], m, g, sess = "up")
    PROVE  TInv'
<1>1. \A t \in {"wu", "full"} :
         /\ Count(c2s', t, c) \in Nat
         /\ \/ sess = "up" /\ Count(c2s', t, c) = Count(c2s, t, c) + One(g.t = t)
            \/ sess = "down" /\ Count(c2s', t, c) = Count(c2s, t, c)
  BY ClientLinkFacts
<1>2. PICK n \in Nat, x \in Nat, w \in Nat, z \in Nat, w2 \in Nat, z2 \in Nat, p \in Nat :
           /\ n = Count(s2c, "data", c) /\ x = Item(c) /\ w = Count(c2s, "wu", c)
           /\ z = Count(c2s, "full", c) /\ w2 = Count(c2s', "wu", c) /\ z2 = Count(c2s', "full", c)
           /\ p = Chunks(C[c].q)
  BY <1>1, Amounts DEF TInv
<1>3. /\ One(m.outW.t = "wu") \in Nat /\ One(g.t = "wu") \in Nat /\ One(C[c].outW.t = "wu") \in Nat
      /\ g.t = "full" => One(g.t = "full") = 1
      /\ One(g.t = "full") \in Nat
  BY DEF One
<1>4. /\ sess = "up" => w2 = w + One(g.t = "wu") /\ z2 = z + One(g.t = "full")
      /\ sess # "up" => w2 = w
  BY <1>1, <1>2
<1>5. PICK e1 \in Nat, e2 \in Nat, e3 \in Nat :
         e1 = One(m.outW.t = "wu") /\ e2 = One(g.t = "wu") /\ e3 = One(C[c].outW.t = "wu")
  BY <1>3
<1>6. /\ n + x + p + e1 + w2 <= n + x + p + e3 + w
      /\ sess = "up" => n + x + p + e1 + w2 = n + x + p + e3 + w
  BY <1>4, <1>5, SMTT(30) DEF Sends
<1>7. sess = "up" => (z # 0 \/ g.t = "full" => z2 # 0)
  BY <1>3, <1>4
<1>8. ClientMoves(C[c], m, n, x, w, z, n, x, w2, z2, sess = "up" /\ S[c].hub)
  BY <1>2, <1>5, <1>6, <1>7 DEF ClientMoves, Sends
<1>9. ClientMoves(C[c], m, Count(s2c, "data", c), Item(c), Count(c2s, "wu", c),
                  Count(c2s, "full", c), Count(s2c, "data", c), Item(c), Count(c2s', "wu", c),
                  Count(c2s', "full", c), sess = "up" /\ S[c].hub)
  BY <1>2, <1>8
<1>10. QED BY <1>9, ClientSends

LEMMA WritePumpSendStep ==
    ASSUME TInv, NEW c \in Conns, WritePumpSend(c)
    PROVE  TInv'
<1>1. PICK k \in ClientRecords(c) : k = C[c]
  BY ClientFacts
<1>2. PICK g, m : g = k.outW /\ m = [k EXCEPT !.outW = None]
  OBVIOUS
<1>3. /\ g # None /\ C' = [C EXCEPT ![c] = m]
      /\ UNCHANGED <<S, streams, s2c, sess, srl, crl, crlOut>>
  BY <1>1, <1>2 DEF WritePumpSend, SetC, serverLoop, clientLoop
<1>4. \/ sess = "up" /\ Len(c2s) < LinkCap /\ c2s' = Append(c2s, g)
      \/ sess = "down" /\ c2s' = c2s
  BY <1>1, <1>2 DEF WritePumpSend, SendOK, SendErr
<1>5. g \in ClientFrames({c}) /\ g.t \in {"full", "wu"} /\ g.t # "ack"
  BY <1>2, <1>3 DEF ClientRecords, WriterFrames
<1>6. None \in WriterFrames(c) /\ None.t = "none"
  BY DEF WriterFrames, None
<1>7. /\ m \in ClientRecords(c) /\ m.up = k.up /\ m.conn = k.conn /\ m.q = k.q
      /\ m.outW = None /\ m.outP = k.outP /\ m.reg = k.reg /\ m.inQ = k.inQ
  BY <1>2, <1>6 DEF ClientRecords
<1>8. /\ C[c].conn # "none" /\ (C[c].reg => C[c].inQ)
      /\ C[c].up \in {"read", "acquire"} => C[c].outP = None
  BY <1>1, <1>2, <1>3, ClientFacts
<1>9. One(m.outW.t = "wu") + One(g.t = "wu") = One(C[c].outW.t = "wu")
  BY <1>1, <1>2, <1>6, <1>7 DEF One
<1>10. Sends(C[c], m, g, sess = "up")
  BY <1>1, <1>2, <1>7, <1>8, <1>9 DEF Sends
<1>11. QED BY <1>3, <1>4, <1>5, <1>7, <1>10, ClientSendsFrame

LEMMA PumpSendStep ==
    ASSUME TInv, NEW c \in Conns, PumpSend(c)
    PROVE  TInv'
<1>1. PICK k \in ClientRecords(c) : k = C[c]
  BY ClientFacts
<1>2. PICK g, r : g = k.outP /\ r = [k EXCEPT !.outP = None]
  OBVIOUS
<1>3. g # None /\ UNCHANGED <<S, streams, s2c, sess, srl, crl, crlOut>>
  BY <1>1, <1>2 DEF PumpSend, serverLoop, clientLoop
<1>4. \/ /\ SendOK(c2s, cAlive, g)
         /\ C' = [C EXCEPT ![c] = [r EXCEPT !.up = IF @ = "send" THEN "read" ELSE @]]
      \/ /\ SendErr(c2s)
         /\ C' = [C EXCEPT ![c] = IF r.up = "send" THEN [ConnClosed(c, r, "outP") EXCEPT !.up = "ended"]
                                  ELSE r]
  BY <1>1, <1>2 DEF PumpSend, SetC
<1>5. \/ sess = "up" /\ Len(c2s) < LinkCap /\ c2s' = Append(c2s, g)
      \/ sess = "down" /\ c2s' = c2s
  BY <1>4 DEF SendOK, SendErr
<1>6. g \in ClientFrames({c}) /\ g.t \in {"data", "half", "full"} /\ g.t # "ack"
  BY <1>2, <1>3 DEF ClientRecords, PumpFrames
<1>7. None \in PumpFrames(c) /\ None.t = "none"
  BY DEF PumpFrames, None
<1>8. /\ r \in ClientRecords(c) /\ r.up = k.up /\ r.conn = k.conn /\ r.q = k.q
      /\ r.outW = k.outW /\ r.outP = None /\ r.reg = k.reg /\ r.inQ = k.inQ
  BY <1>2, <1>7 DEF ClientRecords
<1>9. C[c].conn # "none" /\ (C[c].reg => C[c].inQ)
  BY <1>1, <1>2, <1>3, ClientFacts
<1>10. One(g.t = "wu") = 0 /\ One(C[c].outW.t = "wu") \in Nat
  BY <1>6 DEF One
<1>11. CASE C' = [C EXCEPT ![c] = [r EXCEPT !.up = IF @ = "send" THEN "read" ELSE @]]
  <2>1. PICK e \in {"off", "read", "acquire", "send", "finished", "ended"} :
           e = IF r.up = "send" THEN "read" ELSE r.up
    BY <1>8 DEF ClientRecords
  <2>2. PICK m : m = [r EXCEPT !.up = e]
    OBVIOUS
  <2>3. /\ m \in ClientRecords(c) /\ m.conn = r.conn /\ m.q = r.q
        /\ m.outW = r.outW /\ m.outP = r.outP /\ m.reg = r.reg /\ m.inQ = r.inQ
    BY <1>8, <2>2 DEF ClientRecords
  <2>4. C' = [C EXCEPT ![c] = m]
    BY <1>8, <1>11, <2>1, <2>2 DEF ClientRecords
  <2>5. One(m.outW.t = "wu") + One(g.t = "wu") = One(C[c].outW.t = "wu")
    BY <1>1, <1>8, <1>10, <2>3
  <2>6. Sends(C[c], m, g, sess = "up")
    BY <1>1, <1>2, <1>8, <1>9, <2>3, <2>5 DEF Sends
  <2>7. QED BY <1>3, <1>5, <1>6, <2>3, <2>4, <2>6, ClientSendsFrame
<1>12. CASE sess = "down" /\ C' = [C EXCEPT ![c] = r]
  <2>1. One(r.outW.t = "wu") + One(g.t = "wu") = One(C[c].outW.t = "wu")
    BY <1>1, <1>8, <1>10
  <2>2. Sends(C[c], r, g, sess = "up")
    BY <1>1, <1>2, <1>8, <1>9, <1>12, <2>1 DEF Sends
  <2>3. QED BY <1>3, <1>5, <1>6, <1>8, <1>12, <2>2, ClientSendsFrame
<1>13. CASE sess = "down" /\ C' = [C EXCEPT ![c] = [ConnClosed(c, r, "outP") EXCEPT !.up = "ended"]]
  <2>1. PICK y : y = ConnClosed(c, r, "outP")
    OBVIOUS
  <2>2. /\ y \in ClientRecords(c) /\ ~y.reg /\ y.q = r.q /\ y.outW = r.outW
        /\ y.conn = r.conn \/ y.conn = "closed"
    BY <1>8, <2>1, ConnClosedFacts
  <2>3. PICK m : m = [y EXCEPT !.up = "ended"]
    OBVIOUS
  <2>4. /\ m \in ClientRecords(c) /\ m.up = "ended" /\ m.conn = y.conn /\ m.q = y.q
        /\ m.outW = y.outW /\ m.reg = y.reg
    BY <2>2, <2>3 DEF ClientRecords
  <2>5. C' = [C EXCEPT ![c] = m]
    BY <1>13, <2>1, <2>3
  <2>6. One(m.outW.t = "wu") + One(g.t = "wu") = One(C[c].outW.t = "wu")
    BY <1>1, <1>8, <1>10, <2>2, <2>4
  <2>7. Sends(C[c], m, g, sess = "up")
    BY <1>1, <1>8, <1>9, <1>13, <2>2, <2>4, <2>6 DEF Sends
  <2>8. QED BY <1>3, <1>5, <1>6, <2>4, <2>5, <2>7, ClientSendsFrame
<1>14. QED
  BY <1>4, <1>11, <1>12, <1>13 DEF SendErr

-----------------------------------------------------------------------------
(* The client's read loop.                                                 *)

\* What the read loop has in hand, and for which connection.
LEMMA InHand ==
    ASSUME TunnelAssumption, NEW d \in Conns
    PROVE  /\ One(NoItem[1] = d /\ NoItem[2] # NilItem) = 0
           /\ \A c \in Conns, v \in Nat :
                 One(<<c, v>>[1] = d /\ <<c, v>>[2] # NilItem) = One(c = d /\ v # NilItem)
           /\ One(None.t = "ack" /\ None.c = d) = 0
<1>1. d # 0 /\ None.t # "ack" /\ NoItem[1] = 0
  BY DEF TunnelAssumption, None, NoItem
<1>2. QED BY <1>1 DEF One

\* Accepting answers on the link stay true.
LEMMA AcksKept ==
    ASSUME TInv, NEW c \in Conns, C[c].conn # "none" => C'[c].conn # "none",
           \A d \in Conns : d # c => C'[d] = C[d], c2s' = c2s
    PROVE  \A i \in 1 .. Len(c2s') :
              c2s'[i].t = "ack" /\ c2s'[i].v = 1 => C'[c2s'[i].c].conn # "none"
<1>1. ASSUME NEW i \in 1 .. Len(c2s), c2s[i].t = "ack", c2s[i].v = 1
      PROVE  C'[c2s[i].c].conn # "none"
  <2>1. c2s[i] \in ClientFrames(Conns)
    BY DEF TInv, Types
  <2>2. C[c2s[i].c].conn # "none" /\ c2s[i].c \in Conns
    BY <1>1, <2>1 DEF TInv, Types, ClientFrames
  <2>3. QED BY <2>2
<1>2. QED BY <1>1

\* What is left of the server's link when its first frame is taken.
LEMMA ArrivalFacts ==
    ASSUME TInv, s2c # <<>>
    PROVE  LET f == Head(s2c)
               l == Tail(s2c)
           IN  /\ f \in ServerFrames(Conns) /\ l \in Seq(ServerFrames(Conns)) /\ Len(l) <= LinkCap
               /\ \A d \in Conns : d # f.c =>
                     \A t \in {"open", "data", "full"} : Count(l, t, d) = Count(s2c, t, d)
               /\ \A t \in {"open", "data", "full"} :
                     /\ Count(l, t, f.c) \in Nat /\ Count(s2c, t, f.c) \in Nat
                     /\ Count(s2c, t, f.c) = Count(l, t, f.c) + One(f.t = t)
<1> DEFINE f == Head(s2c)
           l == Tail(s2c)
<1>1. s2c \in Seq(ServerFrames(Conns)) /\ Len(s2c) <= LinkCap
  BY DEF TInv, Types
<1>2. /\ f \in ServerFrames(Conns) /\ l \in Seq(ServerFrames(Conns)) /\ Len(l) = Len(s2c) - 1
      /\ Len(s2c) \in Nat
  BY <1>1, HeadTailProperties, LenProperties
<1>3. Len(l) <= LinkCap
  <2> HIDE DEF l
  <2>1. QED BY <1>1, <1>2, TunnelAssumption DEF TunnelAssumption
<1>4. ASSUME NEW d \in Conns, d # f.c, NEW t \in {"open", "data", "full"}
      PROVE  Count(l, t, d) = Count(s2c, t, d)
  BY <1>1, <1>4, OtherTail
<1>5. ASSUME NEW t \in {"open", "data", "full"}
      PROVE  /\ Count(l, t, f.c) \in Nat /\ Count(s2c, t, f.c) \in Nat
             /\ Count(s2c, t, f.c) = Count(l, t, f.c) + One(f.t = t)
  <2>1. /\ Count(l, t, f.c) \in Nat /\ Count(s2c, t, f.c) \in Nat
        /\ Count(s2c, t, f.c) = Count(l, t, f.c) + One(f.t = t /\ f.c = f.c)
    BY <1>1, CountTail
  <2>2. One(f.t = t /\ f.c = f.c) = One(f.t = t)
    BY DEF One
  <2>3. QED BY <2>1, <2>2
<1>6. QED BY <1>2, <1>3, <1>4, <1>5

\* A step that takes a frame about c from the server's link.
LEMMA ClientTakes ==
    ASSUME TInv, NEW c \in Conns, NEW m \in ClientRecords(c),
           s2c # <<>>, Head(s2c).c = c, s2c' = Tail(s2c),
           DOMAIN C' = Conns, C'[c] = m, \A d \in Conns : d # c => C'[d] = C[d],
           C[c].conn # "none" => m.conn # "none",
           UNCHANGED <<S, streams, c2s, sess, srl>>,
           crl' \in {crl, NoItem} \/ (crl' \in {c} \X Nat /\ m.conn # "none"),
           crlOut' \in AckFrames,
           \A d \in Conns : d # c => Answer(d)' = Answer(d) /\ Item(d)' = Item(d),
           ConnInv(S[c], m, Count(s2c', "open", c), Count(s2c', "data", c), Count(s2c', "full", c),
                   Answer(c)', Item(c)', Count(c2s, "wu", c), Count(c2s, "full", c), sess = "up")
    PROVE  TInv'
<1>1. /\ s2c' \in Seq(ServerFrames(Conns)) /\ Len(s2c') <= LinkCap
      /\ \A d \in Conns : d # c =>
            \A t \in {"open", "data", "full"} : Count(s2c', t, d) = Count(s2c, t, d)
  BY ArrivalFacts
<1>2. c2s' \in Seq(ClientFrames(Conns)) /\ Len(c2s') <= LinkCap
  BY DEF TInv, Types
<1>3. \A i \in 1 .. Len(c2s') :
         c2s'[i].t = "ack" /\ c2s'[i].v = 1 => C'[c2s'[i].c].conn # "none"
  BY AcksKept
<1>4. \A d \in Conns : d # c =>
              /\ \A t \in {"open", "data", "full"} : Count(s2c', t, d) = Count(s2c, t, d)
              /\ \A t \in {"wu", "full"} : Count(c2s', t, d) = Count(c2s, t, d)
              /\ Answer(d)' = Answer(d) /\ Item(d)' = Item(d)
  BY <1>1
<1>5. ConnInv(S[c], m, Count(s2c', "open", c), Count(s2c', "data", c), Count(s2c', "full", c),
              Answer(c)', Item(c)', Count(c2s', "wu", c), Count(c2s', "full", c), sess = "up")
  OBVIOUS
<1>6. QED BY <1>1, <1>2, <1>3, <1>4, <1>5, ClientTurn

\* A request that is passed on, or lost.
LEMMA RequestFits ==
    ASSUME NEW s, NEW k, NEW o \in Nat, NEW a \in Nat, NEW o2 \in Nat, NEW a2 \in Nat, NEW n, NEW f,
           NEW x, NEW w, NEW z, NEW live, ConnInv(s, k, o, n, f, a, x, w, z, live),
           o2 + a2 <= o + a
    PROVE  ConnInv(s, k, o2, n, f, a2, x, w, z, live)
<1>1. One(s.outU.t = "open") \in Nat
  BY DEF One
<1>2. /\ Opening(s, o2, a2) \in Nat /\ Opening(s, o, a) \in Nat
      /\ Opening(s, o2, a2) <= Opening(s, o, a)
  BY <1>1 DEF Opening
<1>3. QED BY <1>2 DEF ConnInv

\* A full close that the client takes: the server has given the connection up.
GivenUp(k, m) ==
    /\ ~m.reg /\ ~m.inQ /\ m.q = k.q /\ m.up = k.up /\ m.wp = k.wp
    /\ m.outW = k.outW /\ m.outP = k.outP
    /\ m.conn = k.conn \/ (k.reg /\ m.conn = "closed")

LEMMA FullCloseFits ==
    ASSUME NEW s, NEW k, NEW m, NEW o, NEW n, NEW f, NEW a, NEW x, NEW w, NEW z, NEW live,
           NEW f2, f # 0, ConnInv(s, k, o, n, f, a, x, w, z, live), GivenUp(k, m)
    PROVE  ConnInv(s, m, o, n, f2, a, x, w, z, live)
<1>1. ~s.hub /\ s.up \notin {"off", "picked"}
  BY DEF ConnInv
<1>2. Flight(s, m, n, x, w) = Flight(s, k, n, x, w)
  BY DEF Flight, GivenUp
<1>3. m.conn = "none" <=> k.conn = "none"
  BY DEF ConnInv, GivenUp
<1>4. QED BY <1>1, <1>2, <1>3 DEF ConnInv, GivenUp

\* The read loop handles a frame of the server.
LEMMA ClientReceiveStep ==
    ASSUME TunnelAssumption, TInv, ClientReceive
    PROVE  TInv'
<1>1. PICK g, c : g = Head(s2c) /\ c = g.c
  OBVIOUS
<1>2. /\ crl = NoItem /\ crlOut = None /\ s2c # <<>> /\ s2c' = Tail(s2c)
      /\ UNCHANGED <<S, streams, c2s, sess, srl>>
  BY DEF ClientReceive, serverLoop
<1>3. g \in ServerFrames(Conns) /\ c \in Conns /\ Head(s2c).c = c
  BY <1>1, <1>2, ArrivalFacts DEF ServerFrames
<1>4. PICK k \in ClientRecords(c) : k = C[c]
  BY <1>3, ClientFacts
<1>5. \A d \in Conns : Item(d) = 0 /\ Answer(d) = 0
  BY <1>2, InHand DEF Item, Answer
<1>6. /\ crl' = NoItem => \A d \in Conns : Item(d)' = 0
      /\ crlOut' = None => \A d \in Conns : Answer(d)' = 0
  BY InHand DEF Item, Answer
<1>7. DOMAIN C = Conns /\ S[c].out \in Int /\ None \in AckFrames
  BY <1>3, HandlerFacts DEF TInv, Types, ServerRecords, AckFrames
<1>8. PICK o \in Nat, n \in Nat, f \in Nat, o2 \in Nat, n2 \in Nat, f2 \in Nat :
         /\ o = Count(s2c, "open", c) /\ n = Count(s2c, "data", c) /\ f = Count(s2c, "full", c)
         /\ o2 = Count(s2c', "open", c) /\ n2 = Count(s2c', "data", c) /\ f2 = Count(s2c', "full", c)
  BY <1>1, <1>2, ArrivalFacts
<1>9. o = o2 + One(g.t = "open") /\ n = n2 + One(g.t = "data") /\ f = f2 + One(g.t = "full")
  BY <1>1, <1>2, <1>8, ArrivalFacts
<1>10. PICK w \in Nat, z \in Nat : w = Count(c2s, "wu", c) /\ z = Count(c2s, "full", c)
  BY <1>3, Amounts DEF TInv
<1>11. PICK b \in BOOLEAN : b = (sess = "up")
  OBVIOUS
<1>12. PICK s : s = S[c]
  OBVIOUS
<1>13. ConnInv(s, k, o, n, f, 0, 0, w, z, b) /\ Chunks(k.q) \in Nat
  <2>1. Together(c)
    BY <1>3 DEF TInv
  <2>2. Chunks(C[c].q) \in Nat
    BY <1>3, Amounts DEF TInv
  <2>3. QED BY <1>3, <1>4, <1>5, <1>8, <1>10, <1>11, <1>12, <2>1, <2>2 DEF Together
<1>14. ASSUME NEW m \in ClientRecords(c), NEW a \in Nat, NEW x \in Nat,
              DOMAIN C' = Conns, C'[c] = m, \A d \in Conns : d # c => C'[d] = C[d],
              C[c].conn # "none" => m.conn # "none",
              crl' = NoItem \/ (crl' \in {c} \X Nat /\ m.conn # "none"),
              crlOut' \in AckFrames,
              \A d \in Conns : d # c => Answer(d)' = 0 /\ Item(d)' = 0,
              Answer(c)' = a, Item(c)' = x, ConnInv(s, m, o2, n2, f2, a, x, w, z, b)
       PROVE  TInv'
  <2>1. ConnInv(S[c], m, Count(s2c', "open", c), Count(s2c', "data", c), Count(s2c', "full", c),
                Answer(c)', Item(c)', Count(c2s, "wu", c), Count(c2s, "full", c), sess = "up")
    BY <1>8, <1>10, <1>11, <1>12, <1>14
  <2>2. \A d \in Conns : d # c => Answer(d)' = Answer(d) /\ Item(d)' = Item(d)
    BY <1>5, <1>14
  <2>3. crl' \in {crl, NoItem} \/ (crl' \in {c} \X Nat /\ m.conn # "none")
    BY <1>14
  <2>4. QED BY <1>2, <1>3, <1>14, <2>1, <2>2, <2>3, ClientTakes
<1>15. CASE /\ g.t = "open" /\ UNCHANGED <<C, crl>>
            /\ \E ok \in {1} \union (IF "dialFail" \in Events THEN {0} ELSE {}) :
                  crlOut' = Frame("ack", c, ok)
  <2>1. PICK ok \in {0, 1} : crlOut' = Frame("ack", c, ok)
    BY <1>15
  <2>2. /\ crlOut' \in AckFrames /\ Answer(c)' = 1 /\ \A d \in Conns : d # c => Answer(d)' = 0
    BY <1>3, <2>1 DEF Frame, AckFrames, ClientFrames, Answer, One
  <2>3. One(g.t = "open") = 1 /\ One(g.t = "data") = 0 /\ One(g.t = "full") = 0
    BY <1>15 DEF One
  <2>4. o2 + 1 <= o + 0 /\ n2 = n /\ f2 = f
    BY <1>9, <2>3
  <2>5. ConnInv(s, k, o2, n2, f2, 1, 0, w, z, b)
    BY <1>13, <2>4, RequestFits
  <2>6. QED
    BY <1>2, <1>3, <1>4, <1>6, <1>7, <1>14, <1>15, <2>2, <2>5
<1>16. CASE g.t = "data" /\ crl' = (IF C[c].inQ THEN <<c, g.v>> ELSE NoItem) /\ UNCHANGED <<C, crlOut>>
  <2>1. One(g.t = "open") = 0 /\ One(g.t = "data") = 1 /\ One(g.t = "full") = 0
    BY <1>16 DEF One
  <2>2. o2 = o /\ n = n2 + 1 /\ f2 = f
    BY <1>9, <2>1
  <2>3. g.v \in Nat /\ g.v # NilItem
    BY <1>3, <1>16 DEF ServerFrames, NilItem
  <2>4. k.conn # "none"
    BY <1>13, <2>2 DEF ConnInv
  <2>5. /\ \A d \in Conns : d # c => Item(d)' = 0
        /\ Item(c)' = IF k.inQ THEN 1 ELSE 0
    <3>1. CASE k.inQ
      <4>1. crl' = <<c, g.v>>
        BY <1>4, <1>16, <3>1
      <4>2. \A d \in Conns : Item(d)' = One(c = d /\ g.v # NilItem)
        BY <1>3, <2>3, <4>1, InHand DEF Item
      <4>3. QED BY <1>3, <2>3, <3>1, <4>2 DEF One
    <3>2. CASE ~k.inQ
      BY <1>3, <1>4, <1>6, <1>16, <3>2
    <3>3. QED BY <3>1, <3>2
  <2>6. PICK x \in Nat : x = Item(c)'
    BY <2>5
  <2>7. PICK p \in Nat, e \in Nat : p = Chunks(k.q) /\ e = One(k.outW.t = "wu")
    BY <1>13, OneFacts DEF One
  <2>8. n2 + x + p + e + w <= n + 0 + p + e + w /\ (k.inQ => n2 + x + p + e + w = n + 0 + p + e + w)
    BY <2>2, <2>5, <2>6
  <2>9. k.up \in {"read", "acquire"} => k.outP = None
    BY <1>13 DEF ConnInv
  <2>10. k.reg => k.inQ
    BY <1>13 DEF ConnInv
  <2>11. ClientMoves(k, k, n, 0, w, z, n2, x, w, z, b /\ s.hub)
    BY <2>4, <2>7, <2>8, <2>9, <2>10 DEF ClientMoves
  <2>12. ConnInv(s, k, o, n2, f, 0, x, w, z, b)
    BY <1>7, <1>12, <1>13, <2>11, ClientMovesFit
  <2>13. crl' = NoItem \/ (crl' \in {c} \X Nat /\ k.conn # "none")
    BY <1>16, <2>3, <2>4
  <2>14. QED
    BY <1>2, <1>3, <1>4, <1>6, <1>7, <1>14, <1>16, <2>2, <2>5, <2>6, <2>12, <2>13
<1>17. CASE g.t = "half" /\ HalfCloseConn(c) /\ UNCHANGED crlOut
  <2>1. One(g.t = "open") = 0 /\ One(g.t = "data") = 0 /\ One(g.t = "full") = 0
    BY <1>17 DEF One
  <2>2. o2 = o /\ n2 = n /\ f2 = f
    BY <1>9, <2>1
  <2>3. C' = C /\ crl' = (IF k.inQ THEN <<c, NilItem>> ELSE NoItem)
    BY <1>4, <1>17 DEF HalfCloseConn
  <2>4. NilItem \in Nat
    BY DEF NilItem
  <2>5. \A d \in Conns : Item(d)' = 0
    <3>1. CASE k.inQ
      <4>1. crl' = <<c, NilItem>>
        BY <2>3, <3>1
      <4>2. \A d \in Conns : Item(d)' = One(c = d /\ NilItem # NilItem)
        BY <1>3, <2>4, <4>1, InHand DEF Item
      <4>3. QED BY <4>2 DEF One
    <3>2. CASE ~k.inQ
      BY <1>6, <2>3, <3>2
    <3>3. QED BY <3>1, <3>2
  <2>6. k.inQ => k.conn # "none"
    BY <1>13 DEF ConnInv
  <2>7. crl' = NoItem \/ (crl' \in {c} \X Nat /\ k.conn # "none")
    BY <2>3, <2>4, <2>6
  <2>8. QED
    BY <1>2, <1>3, <1>4, <1>6, <1>7, <1>13, <1>14, <1>17, <2>2, <2>3, <2>5, <2>7
<1>18. CASE /\ g.t = "full" /\ C' = [C EXCEPT ![c] = ConnClosed(c, C[c], "-")]
            /\ UNCHANGED <<crl, crlOut>>
  <2>1. One(g.t = "open") = 0 /\ One(g.t = "data") = 0 /\ One(g.t = "full") = 1
    BY <1>18 DEF One
  <2>2. o2 = o /\ n2 = n /\ f # 0
    BY <1>9, <2>1
  <2>3. PICK m : m = ConnClosed(c, k, "-")
    OBVIOUS
  <2>4. /\ m \in ClientRecords(c) /\ ~m.reg /\ ~m.inQ /\ m.q = k.q /\ m.up = k.up /\ m.wp = k.wp
        /\ m.conn = k.conn \/ (k.reg /\ m.conn = "closed")
        /\ m.outW = k.outW /\ m.outP = k.outP
    BY <1>3, <2>3, ConnClosedFacts
  <2>5. ConnInv(s, m, o, n, f2, 0, 0, w, z, b)
    <3>1. GivenUp(k, m)
      BY <2>4 DEF GivenUp
    <3>2. QED BY <1>13, <2>2, <3>1, FullCloseFits
  <2>6. DOMAIN C' = Conns /\ C'[c] = m /\ \A d \in Conns : d # c => C'[d] = C[d]
    BY <1>3, <1>4, <1>7, <1>18, <2>3
  <2>7. C[c].conn # "none" => m.conn # "none"
    BY <1>4, <2>4
  <2>8. QED
    BY <1>2, <1>3, <1>6, <1>7, <1>14, <1>18, <2>2, <2>4, <2>5, <2>6, <2>7
<1>19. CASE /\ g.t = "wu" /\ UNCHANGED <<crl, crlOut>>
            /\ C' = [C EXCEPT ![c] = IF g.v # Undecodable /\ C[c].reg
                                     THEN [C[c] EXCEPT !.out = @ - g.v] ELSE C[c]]
  <2>1. One(g.t = "open") = 0 /\ One(g.t = "data") = 0 /\ One(g.t = "full") = 0
    BY <1>19 DEF One
  <2>2. o2 = o /\ n2 = n /\ f2 = f
    BY <1>9, <2>1
  <2>3. g.v = Undecodable
    BY <1>3, <1>19 DEF ServerFrames
  <2>4. DOMAIN C' = Conns /\ C'[c] = k /\ \A d \in Conns : d # c => C'[d] = C[d]
    BY <1>3, <1>4, <1>7, <1>19, <2>3
  <2>5. QED
    BY <1>2, <1>3, <1>4, <1>6, <1>7, <1>13, <1>14, <1>19, <2>2, <2>4
<1>20. QED
  BY <1>1, <1>15, <1>16, <1>17, <1>18, <1>19 DEF ClientReceive, SetC

\* A request that the client has accepted becomes a connection of both ends.
LEMMA RegisteredFits ==
    ASSUME NEW s, NEW k, NEW m, NEW o \in Nat, NEW n, NEW f, NEW x, NEW w, NEW z, NEW live,
           ConnInv(s, k, o, n, f, 1, x, w, z, live),
           m.reg, m.inQ, m.conn = "open", m.up = "read", m.q = k.q, m.outW = k.outW, m.outP = k.outP
    PROVE  ConnInv(s, m, o, n, f, 0, x, w, z, live)
<1>1. One(s.outU.t = "open") \in {0, 1} /\ None.t = "none"
  BY DEF One, None
<1>2. o = 0 /\ One(s.outU.t = "open") = 0 /\ Opening(s, o, 0) = 0 /\ Opening(s, o, 1) = 1
  BY <1>1 DEF ConnInv, Opening
<1>3. /\ k.conn = "none" /\ s.up \notin {"off", "picked"}
  BY <1>2 DEF ConnInv
<1>4. /\ k.q = <<>> /\ k.outW = None /\ k.outP = None /\ n = 0 /\ x = 0 /\ w = 0
      /\ s.outU.t # "data" /\ (s.hub => s.up = "opening")
  BY <1>3 DEF ConnInv
<1>5. s.hub => s.out = 0
  BY <1>4 DEF ConnInv
<1>6. Flight(s, m, n, x, w) = 0
  <2>1. One(s.outU.t = "data") = 0 /\ One(m.outW.t = "wu") = 0 /\ Chunks(m.q) = 0
    BY <1>1, <1>4, NoChunks DEF One
  <2>2. QED BY <1>4, <2>1 DEF Flight
<1>7. QED BY <1>2, <1>3, <1>4, <1>5, <1>6 DEF ConnInv

\* handleConnOpen has sent its answer, or failed to.
LEMMA ClientAckedStep ==
    ASSUME TunnelAssumption, TInv, ClientAcked
    PROVE  TInv'
<1>1. PICK g, c : g = crlOut /\ c = g.c
  OBVIOUS
<1>2. /\ g # None /\ crlOut' = None
      /\ UNCHANGED <<S, streams, s2c, sess, srl, crl>>
  BY <1>1 DEF ClientAcked, serverLoop
<1>3. g \in ClientFrames({c}) /\ c \in Conns /\ g.t = "ack" /\ g.v \in {0, 1}
  BY <1>1, <1>2 DEF TInv, Types, AckFrames, ClientFrames
<1>4. \/ sess = "up" /\ Len(c2s) < LinkCap /\ c2s' = Append(c2s, g)
      \/ sess = "down" /\ c2s' = c2s
  BY <1>1 DEF ClientAcked, SendOK, SendErr
<1>5. PICK k \in ClientRecords(c) : k = C[c]
  BY <1>3, ClientFacts
<1>6. DOMAIN C = Conns /\ None \in AckFrames
  BY DEF TInv, Types, AckFrames
<1>7. /\ c2s' \in Seq(ClientFrames(Conns)) /\ Len(c2s') <= LinkCap
      /\ \A d \in Conns : \A t \in {"wu", "full"} : Count(c2s', t, d) = Count(c2s, t, d)
      /\ \A i \in 1 .. Len(c2s') : c2s'[i].t = "ack" /\ c2s'[i].v = 1 =>
            c2s'[i] = g \/ C[c2s'[i].c].conn # "none"
  <2>1. One(g.t = "wu") = 0 /\ One(g.t = "full") = 0
    BY <1>3 DEF One
  <2>2. \A t \in {"wu", "full"} : Count(c2s, t, c) \in Nat
    BY <1>3, Amounts DEF TInv
  <2>3. \A t \in {"wu", "full"} : Count(c2s', t, c) = Count(c2s, t, c)
    <3>1. \A t \in {"wu", "full"} :
             \/ Count(c2s', t, c) = Count(c2s, t, c) + One(g.t = t)
             \/ Count(c2s', t, c) = Count(c2s, t, c)
      BY <1>3, <1>4, ClientLinkFacts
    <3>2. QED BY <2>1, <2>2, <3>1
  <2>4. QED BY <1>3, <1>4, <2>3, ClientLinkFacts
<1>8. /\ Answer(c) = 1 /\ \A d \in Conns : d # c => Answer(d) = 0
      /\ \A d \in Conns : Answer(d)' = 0
  <2>1. \A d \in Conns : Answer(d) = One(c = d)
    BY <1>1, <1>3 DEF Answer, One
  <2>2. \A d \in Conns : Answer(d)' = 0
    BY <1>2, InHand DEF Answer
  <2>3. QED BY <1>3, <2>1, <2>2 DEF One
<1>9. \A d \in Conns : Item(d)' = Item(d)
  BY <1>2 DEF Item
<1>10. PICK o, n, f, x, w, z, s :
          /\ o \in Nat /\ o = Count(s2c, "open", c) /\ n = Count(s2c, "data", c) /\ f = Count(s2c, "full", c)
          /\ x = Item(c) /\ w = Count(c2s, "wu", c) /\ z = Count(c2s, "full", c) /\ s = S[c]
  BY <1>3, Amounts DEF TInv
<1>11. ConnInv(s, k, o, n, f, 1, x, w, z, sess = "up")
  BY <1>3, <1>5, <1>8, <1>10 DEF TInv, Together
<1>12. ASSUME NEW m \in ClientRecords(c),
              DOMAIN C' = Conns, C'[c] = m, \A d \in Conns : d # c => C'[d] = C[d],
              C[c].conn # "none" => m.conn # "none",
              c2s' = c2s \/ g.v # 1 \/ m.conn # "none",
              ConnInv(s, m, o, n, f, 0, x, w, z, sess = "up")
       PROVE  TInv'
  <2>1. ConnInv(S[c], m, Count(s2c', "open", c), Count(s2c', "data", c), Count(s2c', "full", c),
                Answer(c)', Item(c)', Count(c2s', "wu", c), Count(c2s', "full", c), sess = "up")
    <3>1. Answer(c)' = 0 /\ Item(c)' = x /\ Count(c2s', "wu", c) = w /\ Count(c2s', "full", c) = z
      BY <1>3, <1>7, <1>8, <1>9, <1>10
    <3>2. Count(s2c', "open", c) = o /\ Count(s2c', "data", c) = n /\ Count(s2c', "full", c) = f
      BY <1>2, <1>10
    <3>3. QED BY <1>10, <1>12, <3>1, <3>2
  <2>2. \A d \in Conns : d # c =>
              /\ \A t \in {"open", "data", "full"} : Count(s2c', t, d) = Count(s2c, t, d)
              /\ \A t \in {"wu", "full"} : Count(c2s', t, d) = Count(c2s, t, d)
              /\ Answer(d)' = Answer(d) /\ Item(d)' = Item(d)
    BY <1>2, <1>7, <1>8, <1>9
  <2>3. \A i \in 1 .. Len(c2s') :
           c2s'[i].t = "ack" /\ c2s'[i].v = 1 => C'[c2s'[i].c].conn # "none"
    <3>1. CASE c2s' = c2s
      BY <1>3, <1>12, <3>1, AcksKept
    <3>2. CASE g.v # 1 \/ m.conn # "none"
      <4>1. ASSUME NEW i \in 1 .. Len(c2s'), c2s'[i].t = "ack", c2s'[i].v = 1
            PROVE  C'[c2s'[i].c].conn # "none"
        <5>1. c2s'[i].c \in Conns
          <6>1. c2s'[i] \in ClientFrames(Conns)
            BY <1>7
          <6>2. QED BY <6>1 DEF ClientFrames
        <5>2. CASE c2s'[i] = g
          BY <1>1, <1>12, <3>2, <4>1, <5>2
        <5>3. CASE C[c2s'[i].c].conn # "none"
          BY <1>12, <5>1, <5>3
        <5>4. QED BY <1>7, <4>1, <5>2, <5>3
      <4>2. QED BY <4>1
    <3>3. QED BY <1>12, <3>1, <3>2
  <2>4. s2c' \in Seq(ServerFrames(Conns)) /\ Len(s2c') <= LinkCap
    BY <1>2 DEF TInv, Types
  <2>5. crl' \in {crl, NoItem} /\ crlOut' \in AckFrames
    BY <1>2, <1>6
  <2>6. QED BY <1>2, <1>3, <1>7, <1>12, <2>1, <2>2, <2>3, <2>4, <2>5, ClientTurn
<1>13. CASE /\ C' = C \/ C' = [C EXCEPT ![c] = C[c]]
            /\ c2s' = c2s \/ g.v = 0
  <2>1. DOMAIN C' = Conns /\ C'[c] = k /\ \A d \in Conns : d # c => C'[d] = C[d]
    BY <1>3, <1>5, <1>6, <1>13
  <2>2. ConnInv(s, k, o, n, f, 0, x, w, z, sess = "up")
    BY <1>10, <1>11, RequestFits
  <2>3. QED BY <1>5, <1>12, <1>13, <2>1, <2>2
<1>14. CASE C' = [C EXCEPT ![c] = [C[c] EXCEPT !.reg = TRUE, !.inQ = TRUE, !.conn = "open",
                                               !.wp = "run", !.up = "read"]]
  <2>1. PICK m : m = [k EXCEPT !.reg = TRUE, !.inQ = TRUE, !.conn = "open", !.wp = "run", !.up = "read"]
    OBVIOUS
  <2>2. /\ m \in ClientRecords(c) /\ m.reg /\ m.inQ /\ m.conn = "open" /\ m.up = "read" /\ m.q = k.q
        /\ m.outW = k.outW /\ m.outP = k.outP
    BY <2>1 DEF ClientRecords
  <2>3. DOMAIN C' = Conns /\ C'[c] = m /\ \A d \in Conns : d # c => C'[d] = C[d]
    BY <1>3, <1>5, <1>6, <1>14, <2>1
  <2>4. ConnInv(s, m, o, n, f, 0, x, w, z, sess = "up")
    BY <1>10, <1>11, <2>2, RegisteredFits
  <2>5. QED BY <1>12, <2>2, <2>3, <2>4
<1>15. QED
  <2>1. CASE SendErr(c2s) /\ UNCHANGED C
    BY <1>13, <2>1 DEF SendErr
  <2>2. CASE C' = [C EXCEPT ![c] = IF g.v = 0 THEN C[c]
                     ELSE [C[c] EXCEPT !.reg = TRUE, !.inQ = TRUE,
                                       !.conn = "open", !.wp = "run",
                                       !.up = "read"]]
    BY <1>13, <1>14, <2>2
  <2>3. QED BY <1>1, <2>1, <2>2 DEF ClientAcked, SetC

\* The read loop puts what it has in hand into the queue.
LEMMA ClientEnqueueStep ==
    ASSUME TunnelAssumption, TInv, ClientEnqueue
    PROVE  TInv'
<1>1. PICK c \in Conns, v \in Nat : crl = <<c, v>>
  BY DEF ClientEnqueue, TInv, Types
<1>2. PICK k \in ClientRecords(c) : k = C[c]
  BY ClientFacts
<1>3. PICK q : q = Append(k.q, v)
  OBVIOUS
<1>4. PICK m : m = [k EXCEPT !.q = q]
  OBVIOUS
<1>5. /\ Len(k.q) < QCap /\ C' = [C EXCEPT ![c] = m] /\ crl' = NoItem
      /\ UNCHANGED <<S, streams, s2c, c2s, sess, srl, crlOut>>
  BY <1>1, <1>2, <1>3, <1>4 DEF ClientEnqueue, SetC, links, serverLoop
<1>6. crl # NoItem /\ crl[1] = c
  BY <1>1 DEF ClientEnqueue
<1>7. k.conn # "none" /\ DOMAIN C = Conns /\ S[c].out \in Int
  BY <1>2, <1>6, HandlerFacts DEF TInv, Types, ServerRecords
<1>8. q \in UpTo(QCap) /\ Chunks(k.q) \in Nat /\ Chunks(q) = Chunks(k.q) + One(v # NilItem)
  <2>1. k.q \in Seq(Nat)
    BY DEF ClientRecords, UpTo
  <2>2. q \in Seq(Nat) /\ Len(q) = Len(k.q) + 1 /\ Len(k.q) \in Nat
    BY <1>3, <2>1, AppendProperties, LenProperties
  <2>3. QCap \in Nat
    BY DEF TunnelAssumption
  <2>4. Len(q) <= QCap
    BY <1>5, <2>2, <2>3
  <2>5. QED BY <1>3, <2>1, <2>2, <2>4, ChunksAppend DEF UpTo
<1>9. /\ m \in ClientRecords(c) /\ m.up = k.up /\ m.conn = k.conn /\ m.q = q
      /\ m.outW = k.outW /\ m.outP = k.outP /\ m.reg = k.reg /\ m.inQ = k.inQ
  BY <1>4, <1>8 DEF ClientRecords
<1>10. DOMAIN C' = Conns /\ C'[c] = m /\ \A d \in Conns : d # c => C'[d] = C[d]
  BY <1>5, <1>7
<1>11. /\ Item(c) = One(v # NilItem) /\ \A d \in Conns : d # c => Item(d) = 0
       /\ \A d \in Conns : Item(d)' = 0
       /\ \A d \in Conns : Answer(d)' = Answer(d)
  <2>1. \A d \in Conns : Item(d) = One(c = d /\ v # NilItem)
    BY <1>1, InHand DEF Item
  <2>2. \A d \in Conns : Item(d)' = 0
    BY <1>5, InHand DEF Item
  <2>3. \A d \in Conns : Answer(d)' = Answer(d)
    BY <1>5 DEF Answer
  <2>4. QED BY <2>1, <2>2, <2>3 DEF One
<1>12. PICK o \in Nat, n \in Nat, f \in Nat, a \in Nat, w \in Nat, z \in Nat :
          /\ o = Count(s2c, "open", c) /\ n = Count(s2c, "data", c) /\ f = Count(s2c, "full", c)
          /\ a = Answer(c) /\ w = Count(c2s, "wu", c) /\ z = Count(c2s, "full", c)
  BY Amounts DEF TInv
<1>13. PICK x \in Nat, p \in Nat, p2 \in Nat, e \in Nat :
          x = Item(c) /\ p = Chunks(k.q) /\ p2 = Chunks(q) /\ e = One(k.outW.t = "wu")
  <2>1. One(v # NilItem) \in Nat /\ One(k.outW.t = "wu") \in Nat
    BY DEF One
  <2>2. Chunks(q) \in Nat
    BY <1>8, <2>1
  <2>3. QED BY <1>8, <1>11, <2>1, <2>2
<1>14. PICK b \in BOOLEAN : b = (sess = "up")
  OBVIOUS
<1>15. PICK s : s = S[c]
  OBVIOUS
<1>16. ConnInv(s, k, o, n, f, a, x, w, z, b)
  BY <1>2, <1>12, <1>13, <1>14, <1>15 DEF TInv, Together
<1>17. p2 = p + x
  BY <1>8, <1>11, <1>13
<1>18. n + 0 + p2 + e + w = n + x + p + e + w /\ n + 0 + p2 + e + w <= n + x + p + e + w
  BY <1>17
<1>19. (k.reg => k.inQ) /\ (k.up \in {"read", "acquire"} => k.outP = None)
  BY <1>16 DEF ConnInv
<1>20. ClientMoves(k, m, n, x, w, z, n, 0, w, z, b /\ s.hub)
  BY <1>7, <1>9, <1>13, <1>18, <1>19 DEF ClientMoves
<1>21. ConnInv(s, m, o, n, f, a, 0, w, z, b)
  BY <1>7, <1>15, <1>16, <1>20, ClientMovesFit
<1>22. ConnInv(S[c], m, Count(s2c', "open", c), Count(s2c', "data", c), Count(s2c', "full", c),
               Answer(c)', Item(c)', Count(c2s', "wu", c), Count(c2s', "full", c), sess = "up")
  BY <1>5, <1>11, <1>12, <1>14, <1>15, <1>21
<1>23. \A d \in Conns : d # c =>
              /\ \A t \in {"open", "data", "full"} : Count(s2c', t, d) = Count(s2c, t, d)
              /\ \A t \in {"wu", "full"} : Count(c2s', t, d) = Count(c2s, t, d)
              /\ Answer(d)' = Answer(d) /\ Item(d)' = Item(d)
  BY <1>5, <1>11
<1>24. C[c].conn # "none" => m.conn # "none"
  BY <1>2, <1>9
<1>25. \A i \in 1 .. Len(c2s') :
         c2s'[i].t = "ack" /\ c2s'[i].v = 1 => C'[c2s'[i].c].conn # "none"
  BY <1>5, <1>10, <1>24, AcksKept
<1>26. /\ s2c' \in Seq(ServerFrames(Conns)) /\ Len(s2c') <= LinkCap
       /\ c2s' \in Seq(ClientFrames(Conns)) /\ Len(c2s') <= LinkCap /\ crlOut' \in AckFrames
  BY <1>5 DEF TInv, Types
<1>27. QED
  BY <1>5, <1>9, <1>10, <1>22, <1>23, <1>24, <1>25, <1>26, ClientTurn

-----------------------------------------------------------------------------
(* The session ends.                                                       *)

\* Once the session is broken nothing has to reach the other end any more.
LEMMA BrokenFits ==
    ASSUME NEW s, NEW k, NEW o, NEW n, NEW f, NEW a, NEW x, NEW w, NEW z, NEW live,
           ConnInv(s, k, o, n, f, a, x, w, z, live)
    PROVE  ConnInv(s, k, o, n, f, a, x, w, z, FALSE)
BY DEF ConnInv

LEMMA SessionDropStep ==
    ASSUME TInv, SessionDrop
    PROVE  TInv'
<1>1. /\ UNCHANGED <<S, C, streams, s2c, c2s, srl, crl, crlOut>> /\ sess' = "down"
  BY DEF SessionDrop, serverLoop, clientLoop
<1>2. Types'
  BY <1>1 DEF TInv, Types
<1>3. ASSUME NEW d \in Conns PROVE Together(d)'
  <2>1. Answer(d)' = Answer(d) /\ Item(d)' = Item(d) /\ (sess' = "up") = FALSE
    BY <1>1 DEF Answer, Item
  <2>2. ConnInv(S[d], C[d], Count(s2c, "open", d), Count(s2c, "data", d), Count(s2c, "full", d),
                Answer(d), Item(d), Count(c2s, "wu", d), Count(c2s, "full", d), FALSE)
    BY BrokenFits DEF TInv, Together
  <2>3. QED BY <1>1, <2>1, <2>2 DEF Together
<1>4. QED BY <1>2, <1>3 DEF TInv

\* On a broken session an end may drop what it has, and its pumps may stop.
Dropped(k, m) ==
    /\ m.conn = "none" <=> k.conn = "none"
    /\ ~m.reg \/ m.reg = k.reg
    /\ m.inQ = k.inQ /\ m.q = k.q
    /\ m.outW \in {k.outW, None}
    /\ m.outP \in {k.outP, None} /\ m.up \in {k.up, "ended"} /\ m.wp \in {k.wp, "ended"}

LEMMA DroppedFits ==
    ASSUME NEW s, NEW k, NEW m, NEW o, NEW n \in Nat, NEW f, NEW a, NEW x \in Nat, NEW w \in Nat,
           NEW z, NEW x2 \in 0 .. x, s.out \in Int, Chunks(k.q) \in Nat,
           ConnInv(s, k, o, n, f, a, x, w, z, FALSE), Dropped(k, m)
    PROVE  ConnInv(s, m, o, n, f, a, x2, w, z, FALSE)
<1>1. /\ One(s.outU.t = "data") \in Nat /\ One(k.outW.t = "wu") \in Nat
      /\ One(m.outW.t = "wu") \in Nat /\ One(m.outW.t = "wu") <= One(k.outW.t = "wu")
  BY DEF One, Dropped, None
<1>2. /\ Flight(s, m, n, x2, w) \in Nat /\ Flight(s, k, n, x, w) \in Nat
      /\ Flight(s, m, n, x2, w) <= Flight(s, k, n, x, w)
  BY <1>1 DEF Flight, Dropped
<1>3. s.hub => Flight(s, m, n, x2, w) <= s.out
  BY <1>2 DEF ConnInv
<1>4. k.conn = "none" => x2 = 0
  BY DEF ConnInv
<1>5. QED BY <1>3, <1>4 DEF ConnInv, Dropped

\* The client's process ends, or its session does.
LEMMA ClientEndsStep ==
    ASSUME TunnelAssumption, TInv, sess' = "down", DOMAIN C' = Conns, crl' \in {crl, NoItem},
           \A d \in Conns : C'[d] \in ClientRecords(d) /\ Dropped(C[d], C'[d]),
           UNCHANGED <<S, streams, s2c, c2s, srl, crlOut>>
    PROVE  TInv'
<1>1. \A d \in Conns : C[d].conn # "none" => C'[d].conn # "none"
  BY DEF Dropped
<1>2. \A i \in 1 .. Len(c2s') :
         c2s'[i].t = "ack" /\ c2s'[i].v = 1 => C'[c2s'[i].c].conn # "none"
  <2>1. ASSUME NEW i \in 1 .. Len(c2s), c2s[i].t = "ack", c2s[i].v = 1
        PROVE  C'[c2s[i].c].conn # "none"
    <3>1. c2s[i] \in ClientFrames(Conns)
      BY DEF TInv, Types
    <3>2. C[c2s[i].c].conn # "none" /\ c2s[i].c \in Conns
      BY <2>1, <3>1 DEF TInv, Types, ClientFrames
    <3>3. QED BY <1>1, <3>2
  <2>2. QED BY <2>1
<1>3. crl' \in (Conns \X Nat) \cup {NoItem} /\ (crl' # NoItem => C'[crl'[1]].conn # "none")
  <2>1. CASE crl' = NoItem
    BY <2>1
  <2>2. CASE crl' = crl /\ crl # NoItem
    <3>1. crl \in Conns \X Nat /\ C[crl[1]].conn # "none"
      BY <2>2 DEF TInv, Types
    <3>2. QED BY <1>1, <2>2, <3>1
  <2>3. QED BY <2>1, <2>2
<1>4. Types'
  BY <1>2, <1>3 DEF TInv, Types
<1>5. ASSUME NEW d \in Conns PROVE Together(d)'
  <2>1. PICK m : m = C'[d]
    OBVIOUS
  <2>2. PICK n \in Nat, x \in Nat, w \in Nat :
           n = Count(s2c, "data", d) /\ x = Item(d) /\ w = Count(c2s, "wu", d)
    BY Amounts DEF TInv
  <2>3. Chunks(C[d].q) \in Nat /\ S[d].out \in Int
    BY Amounts, HandlerFacts DEF TInv, ServerRecords
  <2>4. ConnInv(S[d], C[d], Count(s2c, "open", d), n, Count(s2c, "full", d),
                Answer(d), x, w, Count(c2s, "full", d), FALSE)
    BY <2>2, BrokenFits DEF TInv, Together
  <2>5. PICK x2 \in 0 .. x : x2 = Item(d)'
    <3>1. CASE crl' = NoItem
      <4>1. Item(d)' = 0
        BY <3>1, InHand DEF Item
      <4>2. 0 \in 0 .. x
        OBVIOUS
      <4>3. QED BY <4>1, <4>2
    <3>2. CASE crl' = crl
      <4>1. Item(d)' = x
        BY <2>2, <3>2 DEF Item
      <4>2. x \in 0 .. x
        OBVIOUS
      <4>3. QED BY <4>1, <4>2
    <3>3. QED BY <3>1, <3>2
  <2>6. Dropped(C[d], m)
    BY <2>1
  <2>7. ConnInv(S[d], m, Count(s2c, "open", d), n, Count(s2c, "full", d),
                Answer(d), x2, w, Count(c2s, "full", d), FALSE)
    BY <2>3, <2>4, <2>6, DroppedFits
  <2>8. Answer(d)' = Answer(d) /\ (sess' = "up") = FALSE
    BY DEF Answer
  <2>9. QED BY <2>1, <2>2, <2>5, <2>7, <2>8 DEF Together
<1>6. QED BY <1>4, <1>5 DEF TInv

LEMMA ClientPanicStep ==
    ASSUME TunnelAssumption, TInv, ClientPanic
    PROVE  TInv'
<1>1. /\ sess' = "down" /\ DOMAIN C' = Conns /\ crl' = NoItem
      /\ UNCHANGED <<S, streams, s2c, c2s, srl, crlOut>>
  BY DEF ClientPanic, serverLoop
<1>2. ASSUME NEW d \in Conns PROVE C'[d] \in ClientRecords(d) /\ Dropped(C[d], C'[d])
  <2>1. PICK k \in ClientRecords(d) : k = C[d]
    BY ClientFacts
  <2>2. PICK u, e : /\ u = IF k.up = "finished" THEN k.up ELSE "ended"
                    /\ e = IF k.conn = "open" THEN "closed" ELSE k.conn
    OBVIOUS
  <2>3. u \in {"finished", "ended"} /\ e \in {"none", "open", "closed"} /\ (e = "none" <=> k.conn = "none")
    BY <2>2 DEF ClientRecords
  <2>4. PICK m : m = [k EXCEPT !.reg = FALSE, !.wp = "ended", !.up = u, !.outW = None, !.outP = None,
                               !.conn = e]
    OBVIOUS
  <2>5. C'[d] = m
    BY <2>1, <2>2, <2>4 DEF ClientPanic, ClientRecords
  <2>6. None \in WriterFrames(d) /\ None \in PumpFrames(d)
    BY DEF WriterFrames, PumpFrames
  <2>7. /\ m \in ClientRecords(d) /\ ~m.reg /\ m.inQ = k.inQ /\ m.q = k.q /\ m.wp = "ended" /\ m.up = u
        /\ m.outW = None /\ m.outP = None /\ m.conn = e
    BY <2>3, <2>4, <2>6 DEF ClientRecords
  <2>8. Dropped(k, m)
    BY <2>2, <2>3, <2>7 DEF Dropped
  <2>9. QED BY <2>1, <2>5, <2>7, <2>8
<1>3. QED BY <1>1, <1>2, ClientEndsStep

LEMMA ClientSessionEndStep ==
    ASSUME TunnelAssumption, TInv, ClientSessionEnd
    PROVE  TInv'
<1>1. /\ sess' = "down" /\ DOMAIN C' = Conns /\ crl' = crl
      /\ UNCHANGED <<S, streams, s2c, c2s, srl, crlOut>>
  BY DEF ClientSessionEnd, links, serverLoop
<1>2. ASSUME NEW d \in Conns PROVE C'[d] \in ClientRecords(d) /\ Dropped(C[d], C'[d])
  <2>1. PICK k \in ClientRecords(d) : k = C[d]
    BY ClientFacts
  <2>2. PICK m : m = [k EXCEPT !.reg = FALSE, !.conn = "closed", !.winClosed = TRUE]
    OBVIOUS
  <2>3. C'[d] = IF k.reg THEN m ELSE k
    BY <2>1, <2>2 DEF ClientSessionEnd
  <2>4. /\ m \in ClientRecords(d) /\ ~m.reg /\ m.inQ = k.inQ /\ m.q = k.q /\ m.wp = k.wp
        /\ m.up = k.up /\ m.outW = k.outW /\ m.outP = k.outP /\ m.conn = "closed"
    BY <2>2 DEF ClientRecords
  <2>5. k.reg => k.conn # "none"
    BY <2>1, ClientFacts
  <2>6. Dropped(k, k) /\ (k.reg => Dropped(k, m))
    BY <2>4, <2>5 DEF Dropped
  <2>7. QED BY <2>1, <2>3, <2>4, <2>6
<1>3. QED BY <1>1, <1>2, ClientEndsStep

-----------------------------------------------------------------------------
(* The invariant holds.                                                    *)

LEMMA EmptyLink == \A t, c : Count(<<>>, t, c) = 0
<1>1. \A t, c : {i \in DOMAIN <<>> : <<>>[i].t = t /\ <<>>[i].c = c} = {}
  OBVIOUS
<1>2. QED BY <1>1, FS_EmptySet DEF Count

LEMMA TInit ==
    ASSUME TunnelAssumption, Init
    PROVE  TInv
<1>1. /\ Win \in Nat /\ Batch \in Nat \ {0} /\ QCap \in Nat /\ SinkCap \in Nat /\ LinkCap \in Nat
  BY DEF TunnelAssumption
<1>2. /\ s2c = <<>> /\ c2s = <<>> /\ sess = "up" /\ srl = NoItem /\ crl = NoItem /\ crlOut = None
      /\ streams = StreamIDs /\ DOMAIN S = Conns /\ DOMAIN C = Conns
      /\ \A c \in Conns : S[c] = ServerConn /\ C[c] = ClientConn
  BY DEF Init
<1>3. <<>> \in Seq(Nat) /\ Len(<<>>) = 0 /\ <<>> \in Seq(ServerFrames(Conns))
      /\ <<>> \in Seq(ClientFrames(Conns))
  BY EmptySeq
<1>4. <<>> \in UpTo(SinkCap) /\ <<>> \in UpTo(QCap)
  BY <1>1, <1>3 DEF UpTo
<1>5. PICK e, v : e = <<>> /\ v = None
  OBVIOUS
<1>6. ASSUME NEW c \in Conns PROVE ServerConn \in ServerRecords(c)
  <2>1. v \in UplinkFrames(c) /\ v \in DownlinkFrames(c)
    BY <1>5 DEF UplinkFrames, DownlinkFrames
  <2>2. e \in UpTo(SinkCap) /\ e \in Seq(Nat) /\ 0 \in 0 .. Win /\ 0 \in 0 .. Batch - 1
    BY <1>1, <1>3, <1>4, <1>5
  <2>3. ServerConn = [up |-> "off", stream |-> 0, waiting |-> FALSE, ack |-> "none",
     hub |-> FALSE, sink |-> e, done |-> FALSE, remoteClosed |-> FALSE,
     out |-> 0, winClosed |-> FALSE, upDone |-> FALSE, downDone |-> FALSE,
     down |-> "off", torn |-> FALSE, mcClosed |-> FALSE, pending |-> 0,
     outU |-> v, outD |-> v, sent |-> 0, got |-> e]
    BY <1>5 DEF ServerConn
  <2>4. QED BY <2>1, <2>2, <2>3 DEF ServerRecords
<1>7. ASSUME NEW c \in Conns PROVE ClientConn \in ClientRecords(c)
  <2>1. v \in WriterFrames(c) /\ v \in PumpFrames(c)
    BY <1>5 DEF WriterFrames, PumpFrames
  <2>2. e \in UpTo(QCap) /\ e \in Seq(Nat) /\ 0 \in 0 .. Win
    BY <1>1, <1>3, <1>4, <1>5
  <2>3. ClientConn = [reg |-> FALSE, inQ |-> FALSE, q |-> e, qClosed |-> FALSE,
     out |-> 0, winClosed |-> FALSE, wp |-> "off", up |-> "off",
     conn |-> "none", eof |-> FALSE, outW |-> v, outP |-> v,
     sent |-> 0, got |-> e]
    BY <1>5 DEF ClientConn
  <2>4. QED BY <2>1, <2>2, <2>3 DEF ClientRecords
<1>8. Types
  <2>1. Len(s2c) <= LinkCap /\ Len(c2s) <= LinkCap
    BY <1>1, <1>2, <1>3
  <2>2. None \in AckFrames
    BY DEF AckFrames
  <2>3. \A i \in 1 .. Len(c2s) : c2s[i].t = "ack" /\ c2s[i].v = 1 => C[c2s[i].c].conn # "none"
    BY <1>2, <1>3
  <2>4. \A c \in Conns : S[c] \in ServerRecords(c) /\ C[c] \in ClientRecords(c)
    BY <1>2, <1>6, <1>7
  <2>5. QED BY <1>2, <1>3, <2>1, <2>2, <2>3, <2>4 DEF Types
<1>9. ASSUME NEW c \in Conns PROVE Together(c)
  <2>1. Item(c) = 0 /\ Answer(c) = 0
    BY <1>2, InHand DEF Item, Answer
  <2>2. PICK s, k : s = ServerConn /\ k = ClientConn
    OBVIOUS
  <2>3. /\ s.up = "off" /\ ~s.hub /\ s.outU = None /\ s.outD = None /\ s.down = "off" /\ s.out = 0
        /\ s.ack = "none"
    BY <2>2 DEF ServerConn
  <2>4. /\ ~k.reg /\ ~k.inQ /\ k.q = <<>> /\ k.up = "off" /\ k.wp = "off" /\ k.conn = "none"
        /\ k.outW = None /\ k.outP = None
    BY <2>2 DEF ClientConn
  <2>5. Opening(s, 0, 0) = 0 /\ None.t = "none"
    BY <2>3 DEF Opening, One, None
  <2>6. ConnInv(s, k, 0, 0, 0, 0, 0, 0, 0, sess = "up")
    BY <2>3, <2>4, <2>5 DEF ConnInv
  <2>7. QED BY <1>2, <2>1, <2>2, <2>6, EmptyLink DEF Together
<1>10. QED BY <1>8, <1>9 DEF TInv

LEMMA TStutter ==
    ASSUME TInv, UNCHANGED vars
    PROVE  TInv'
<1>1. UNCHANGED <<S, C, streams, s2c, c2s, sess, srl, crl, crlOut>>
  BY DEF vars
<1>2. srl' \in (Conns \X Nat) \cup {NoItem}
  BY <1>1 DEF TInv, Types
<1>3. QED BY <1>1, <1>2, NothingMoves

LEMMA TStep ==
    ASSUME TInv, [Next]_vars
    PROVE  TInv'
<1> USE TunnelAssumption
<1>1. ASSUME NEW c \in Conns, Environment(c) PROVE TInv'
  BY <1>1, PickStep, UserStep, UserErrorStep, OpenAnsweredStep, BackendStep, WritePumpStep
     DEF Environment
<1>2. ASSUME NEW c \in Conns, ServerConnStep(c) PROVE TInv'
  BY <1>2, OpenConnStep, OpenAnsweredStep, AcquireSendStep, UplinkSendStep, UserStep
     DEF ServerConnStep
<1>3. ASSUME NEW c \in Conns, DownlinkStep(c) PROVE TInv'
  BY <1>3, DownlinkStepFits, DownlinkSendStep DEF DownlinkStep
<1>4. ASSUME NEW c \in Conns, ClientUplinkStep(c) \/ WritePump(c) \/ WritePumpSend(c) PROVE TInv'
  BY <1>4, ClientAcquireStep, PumpSendStep, WritePumpStep, WritePumpSendStep DEF ClientUplinkStep
<1>5. CASE ServerLoopStep
  BY <1>5, ServerReceiveStep, DownlinkLoopStep, ServerSessionEndStep DEF ServerLoopStep
<1>6. CASE ClientLoopStep
  BY <1>6, ClientReceiveStep, ClientAckedStep, ClientEnqueueStep, ClientPanicStep,
     ClientSessionEndStep DEF ClientLoopStep
<1>7. CASE SessionDrop
  BY <1>7, SessionDropStep
<1>8. CASE UNCHANGED vars
  BY <1>8, TStutter
<1>9. QED
  BY <1>1, <1>2, <1>3, <1>4, <1>5, <1>6, <1>7, <1>8 DEF Next

\* The two ends of every connection stay together, on every path of the program.
THEOREM TunnelInvariant == Spec => []TInv
<1>1. Init => TInv
  BY TunnelAssumption, TInit
<1>2. TInv /\ [Next]_vars => TInv'
  BY TStep
<1>3. QED BY <1>1, <1>2, PTL DEF Spec

-----------------------------------------------------------------------------
(* What follows from it.                                                   *)

\* No credit leaks and none is invented: while both ends know a connection,
\* AcquireSend's account is exactly the chunks under way and the window updates
\* on their way back, whichever goroutines of the hub, the two read loops and the
\* pumps interleave.
THEOREM CreditIsConserved == Spec => []CreditConserved
<1>1. TInv => CreditConserved
  <2>1. ASSUME TInv, NEW c \in Conns, sess = "up", S[c].hub, C[c].reg
        PROVE  S[c].out = InTransit(c) + One(C[c].outW.t = "wu") + Count(c2s, "wu", c)
    <3>1. Flight(S[c], C[c], Count(s2c, "data", c), Item(c), Count(c2s, "wu", c)) = S[c].out
      BY <2>1 DEF TInv, Together, ConnInv
    <3>2. QED BY <3>1 DEF Flight, InTransit, Item, Chunks
  <2>2. QED BY <2>1 DEF CreditConserved
<1>2. QED BY <1>1, TunnelInvariant, PTL

\* The server never keeps using a connection that the client has given up, unless
\* the full close that closeConn announces is under way.
THEOREM ServerHearsOfIt == Spec => []ServerIsTold
<1>1. TInv => ServerIsTold
  <2>1. ASSUME TInv, NEW c \in Conns, sess = "up", S[c].hub,
               S[c].up \notin {"off", "picked", "opening"}
        PROVE  C[c].reg \/ CloseUnderWay(c)
    <3>1. PICK z \in Nat : z = Count(c2s, "full", c)
      BY <2>1, Amounts DEF TInv
    <3>2. C[c].reg \/ z # 0 \/ C[c].outW.t = "full" \/ C[c].outP.t = "full"
      BY <2>1, <3>1 DEF TInv, Together, ConnInv
    <3>3. QED BY <3>1, <3>2 DEF CloseUnderWay
  <2>2. QED BY <2>1 DEF ServerIsTold
<1>2. QED BY <1>1, TunnelInvariant, PTL

\* Every queue, sink, link and window keeps within its capacity, and every
\* goroutine is in one of its states.
THEOREM TunnelTypes == Spec => []TypeOK
<1>1. TInv => TypeOK
  <2> SUFFICES ASSUME TInv PROVE TypeOK
    OBVIOUS
  <2>1. None \in Frames
    BY DEF None, Frames
  <2>2. \A cs \in SUBSET Conns : ServerFrames(cs) \subseteq Frames /\ ClientFrames(cs) \subseteq Frames
    BY DEF ServerFrames, ClientFrames, Frames
  <2>3. ASSUME NEW c \in Conns
        PROVE  /\ UplinkFrames(c) \subseteq Frames /\ DownlinkFrames(c) \subseteq Frames
               /\ WriterFrames(c) \subseteq Frames /\ PumpFrames(c) \subseteq Frames
    BY <2>1, <2>2 DEF UplinkFrames, DownlinkFrames, WriterFrames, PumpFrames
  <2>4. ASSUME NEW c \in Conns
        PROVE  /\ S[c].up \in {"off", "picked", "opening", "read", "acquire", "send",
                               "eof", "wait", "ended"}
               /\ S[c].down \in {"off", "run", "drain", "quiet", "ended"}
               /\ S[c].ack \in {"none", "ok", "nack"}
               /\ Len(S[c].sink) <= SinkCap
               /\ S[c].out \in 0..Win
               /\ S[c].pending \in 0..(Batch - 1)
               /\ {S[c].outU, S[c].outD} \subseteq Frames
    <3>1. S[c] \in ServerRecords(c)
      BY DEF TInv, Types
    <3>2. QED BY <2>3, <3>1 DEF ServerRecords, UpTo
  <2>5. ASSUME NEW c \in Conns
        PROVE  /\ C[c].wp \in {"off", "run", "ended"}
               /\ C[c].up \in {"off", "read", "acquire", "send", "finished", "ended"}
               /\ C[c].conn \in {"none", "open", "closed"}
               /\ Len(C[c].q) <= QCap
               /\ C[c].out \in 0..Win
               /\ {C[c].outW, C[c].outP} \subseteq Frames
    <3>1. C[c] \in ClientRecords(c)
      BY DEF TInv, Types
    <3>2. QED BY <2>3, <3>1 DEF ClientRecords, UpTo
  <2>6. ASSUME NEW l \in {s2c, c2s}
        PROVE  Len(l) <= LinkCap /\ \A i \in DOMAIN l : l[i] \in Frames
    <3>1. s2c \in Seq(ServerFrames(Conns)) /\ c2s \in Seq(ClientFrames(Conns))
          /\ Len(s2c) <= LinkCap /\ Len(c2s) <= LinkCap
      BY DEF TInv, Types
    <3>2. ServerFrames(Conns) \subseteq Frames /\ ClientFrames(Conns) \subseteq Frames
      BY <2>2
    <3>3. /\ \A i \in DOMAIN s2c : s2c[i] \in ServerFrames(Conns)
          /\ \A i \in DOMAIN c2s : c2s[i] \in ClientFrames(Conns)
      BY <3>1, ElementOfSeq, LenProperties
    <3>4. QED BY <3>1, <3>2, <3>3
  <2>7. streams \subseteq StreamIDs /\ sess \in {"up", "down"}
    BY DEF TInv, Types
  <2>8. QED BY <2>4, <2>5, <2>6, <2>7 DEF TypeOK
<1>2. QED BY <1>1, TunnelInvariant, PTL
=============================================================================
