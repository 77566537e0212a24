--------------------------- MODULE RegistryProofs ---------------------------
(* What TLAPS proves about Registry, for every set of sessions, names,     *)
(* services and passwords, every list of credentials and every function    *)
(* from (name, service) to keys, injective or not.                         *)
EXTENDS Registry, WellFoundedInduction, SequenceTheorems, TLAPS

\* Numbers are never used twice: whatever names a stream or a connection names
\* one that was handed out, and the entry a handler has picked still has the
\* session it had when it was picked.
NumbersAreFresh ==
    /\ \A i \in DOMAIN byID : i <= seq
    /\ \A e \in picked : /\ e.id <= seq
                         /\ e.id \in DOMAIN byID => byID[e.id].client = e.client
    /\ \A c \in DOMAIN conns : c <= connSeq /\ conns[c].stream <= seq
    /\ \A s \in Sessions : \A c \in held[s] \union toServer[s] : c <= connSeq

\* The inductive invariant, in the parts that different actions disturb.
TableInv == TableConsistent /\ NoStreamOfEndedSession /\ IdentityRespected
ConnInv == CloseFindsOwnConns /\ NoForeignClose /\ NumbersAreFresh
IInv == TypeOK /\ TableInv /\ ConnInv

-----------------------------------------------------------------------------
\* The least-number principle, from the well-foundedness of < on Nat.
LEMMA LeastOf ==
    ASSUME NEW R, R = {p \in Nat \X Nat : p[1] < p[2]}, IsWellFoundedOn(R, Nat),
           NEW T, T \subseteq Nat, T # {}
    PROVE  \E x \in T : \A y \in T : x <= y
<1>1. PICK x \in T : \A y \in T : ~ (<<y, x>> \in R)
  BY WFMin
<1>2. ASSUME NEW y \in T PROVE x <= y
  <2>1. x \in Nat /\ y \in Nat OBVIOUS
  <2>2. ~ (<<y, x>> \in R) BY <1>1
  <2>3. <<y, x>> \in Nat \X Nat /\ <<y, x>>[1] = y /\ <<y, x>>[2] = x BY <2>1
  <2>4. ~ (y < x) BY <2>2, <2>3
  <2>5. QED BY <2>1, <2>4
<1>3. QED BY <1>2

LEMMA LeastNumber ==
    ASSUME NEW T, T \subseteq Nat, T # {}
    PROVE  \E x \in T : \A y \in T : x <= y
<1>1. IsWellFoundedOn(OpToRel(<, Nat), Nat) BY NatLessThanWellFounded
<1> DEFINE R == OpToRel(<, Nat)
<1>2. R = {p \in Nat \X Nat : p[1] < p[2]} BY Zenon DEF OpToRel
<1>3. IsWellFoundedOn(R, Nat) BY <1>1
<1> HIDE DEF R
<1>4. QED BY <1>2, <1>3, LeastOf

\* A non-empty set of positions of a sequence has a last one.
LEMMA LastPosition ==
    ASSUME NEW n \in Nat, NEW I, I \subseteq 1 .. n, I # {}
    PROVE  \E i \in I : \A j \in I : j <= i
<1> DEFINE T == {n - i : i \in I}
<1>1. T \subseteq Nat /\ T # {}
  <2>1. \A i \in I : i \in Nat /\ i <= n /\ n - i \in Nat OBVIOUS
  <2>2. PICK i \in I : TRUE OBVIOUS
  <2>3. n - i \in T OBVIOUS
  <2>4. QED BY <2>1, <2>3
<1>2. PICK x \in T : \A y \in T : x <= y BY <1>1, LeastNumber
<1>3. PICK i \in I : x = n - i OBVIOUS
<1>4. ASSUME NEW j \in I PROVE j <= i
  <2>1. n - i <= n - j BY <1>2, <1>3
  <2>2. i \in Nat /\ j \in Nat OBVIOUS
  <2>3. QED BY <2>1, <2>2
<1>5. QED BY <1>4

\* creds() maps every password to an identity.
LEMMA CredsType ==
    ASSUME TypeOK
    PROVE  \A w \in DOMAIN Creds : Creds[w] \in Identities
<1> SUFFICES ASSUME NEW w \in DOMAIN Creds PROVE Creds[w] \in Identities
  OBVIOUS
<1> DEFINE I == {i \in DOMAIN proxies : proxies[i].password = w}
<1>1. DOMAIN proxies = 1 .. Len(proxies) /\ Len(proxies) \in Nat
  BY DEF TypeOK
<1>2. CASE w \in AdminPasswords
  BY <1>2 DEF Creds, Identities
<1>3. CASE w \notin AdminPasswords
  <2>1. I \subseteq 1 .. Len(proxies) /\ I # {} BY <1>1, <1>3 DEF Creds
  <2>2. \E i \in I : \A j \in I : j <= i BY <1>1, <2>1, LastPosition
  <2> DEFINE L == CHOOSE i \in DOMAIN proxies :
                     /\ proxies[i].password = w
                     /\ \A j \in DOMAIN proxies : proxies[j].password = w => j <= i
  <2>3. L \in DOMAIN proxies BY <2>2
  <2>4. proxies[L].name \in Names
    <3> HIDE DEF L
    <3>1. proxies[L] \in Proxy BY <2>3, <1>1 DEF TypeOK
    <3>2. QED BY <3>1, RegistryAssumption
  <2>5. Creds[w] = proxies[L].name BY <1>3 DEF Creds
  <2>6. QED BY <2>4, <2>5 DEF Identities
<1>4. QED BY <1>2, <1>3
-----------------------------------------------------------------------------
\* The initial state.
LEMMA InitInv == RegistryAssumption /\ Init => IInv
<1> SUFFICES ASSUME RegistryAssumption, Init PROVE IInv OBVIOUS
<1>1. TypeOK
  BY DEF RegistryAssumption, Init, NoCreds, TypeOK, States, Identities
<1>2. TableInv /\ ConnInv
  BY DEF Init, TableInv, ConnInv, TableConsistent, NoStreamOfEndedSession,
     IdentityRespected, CloseFindsOwnConns, NoForeignClose, NumbersAreFresh
<1>3. QED BY <1>1, <1>2 DEF IInv

\* Removing an element from a sequence leaves a sequence.
LEMMA RemoveAtType ==
    ASSUME NEW S, NEW q \in Seq(S), NEW i \in DOMAIN q
    PROVE  SubSeq(q, 1, i - 1) \o SubSeq(q, i + 1, Len(q)) \in Seq(S)
<1>1. SubSeq(q, 1, i - 1) \in Seq(S) /\ SubSeq(q, i + 1, Len(q)) \in Seq(S)
  BY SubSeqProperties
<1>2. QED BY <1>1, ConcatProperties

\* The type invariant is preserved by every step.
LEMMA TypeStep ==
    ASSUME TypeOK, [Next]_vars
    PROVE  TypeOK'
<1> USE DEF TypeOK, States, sessions, table, connections
<1>1. ASSUME NEW s \in Sessions, Accept(s) PROVE TypeOK'
  <2>1. \A w \in DOMAIN Creds : Creds[w] \in Identities BY CredsType
  <2>2. \A t \in Sessions : \A w \in DOMAIN snap'[t] : snap'[t][w] \in Identities
    BY <1>1, <2>1 DEF Accept
  <2>3. DOMAIN snap' = Sessions /\ st' \in [Sessions -> States]
    BY <1>1 DEF Accept
  <2>4. QED BY <1>1, <2>2, <2>3 DEF Accept
<1>2. ASSUME NEW s \in Sessions, NEW w \in Passwords, Handshake(s, w) PROVE TypeOK'
  BY <1>2 DEF Handshake, NoCreds
<1>3. ASSUME NEW s \in Sessions, AddClient(s) PROVE TypeOK'
  BY <1>3 DEF AddClient
<1>4. ASSUME NEW s \in Sessions, NEW name \in Names, NEW service \in Services,
             RegisterStream(s, name, service) PROVE TypeOK'
  <2> DEFINE e == [id |-> NewID, name |-> name, service |-> service, client |-> s]
  <2>1. e \in Entry BY DEF Entry, NewID
  <2>2. byID' = With(byID, e.id, e) /\ byStreamID' = With(byStreamID, KeyOf(e), e)
    BY <1>4 DEF RegisterStream
  <2>3. e.id \in Nat BY DEF NewID
  <2> HIDE DEF e
  <2>4. DOMAIN byID' \subseteq Nat /\ (\A i \in DOMAIN byID' : byID'[i] \in Entry)
    BY <2>1, <2>2, <2>3 DEF With
  <2>5. \A k \in DOMAIN byStreamID' : byStreamID'[k] \in Entry
    BY <2>1, <2>2 DEF With
  <2>6. QED BY <1>4, <2>4, <2>5 DEF RegisterStream
<1>5. ASSUME NEW s \in Sessions, NEW c \in held[s], ClientCloses(s, c) PROVE TypeOK'
  BY <1>5 DEF ClientCloses
<1>6. ASSUME NEW s \in Sessions, NEW c \in toServer[s], HandleClose(s, c) PROVE TypeOK'
  BY <1>6 DEF HandleClose, RemoveIDs, Without
<1>7. ASSUME NEW s \in Sessions, SessionEnds(s) PROVE TypeOK'
  BY <1>7 DEF SessionEnds
<1>8. ASSUME NEW s \in Sessions, DeleteClient(s) PROVE TypeOK'
  BY <1>8 DEF DeleteClient
<1>9. ASSUME NEW s \in Sessions, CloseConnsByClient(s) PROVE TypeOK'
  BY <1>9 DEF CloseConnsByClient, Without
<1>10. ASSUME NEW s \in Sessions, RemoveByClient(s) PROVE TypeOK'
  BY <1>10 DEF RemoveByClient, RemoveIDs, Without
<1>11. ASSUME NEW p \in Proxy, AddClientProxy(p) PROVE TypeOK'
  <2>1. proxies' \in Seq(Proxy) BY <1>11 DEF AddClientProxy
  <2>2. QED BY <1>11, <2>1 DEF AddClientProxy
<1>12. ASSUME NEW i \in DOMAIN proxies, RemoveClientProxy(i) PROVE TypeOK'
  <2>1. proxies' \in Seq(Proxy) BY <1>12, RemoveAtType DEF RemoveClientProxy
  <2>2. QED BY <1>12, <2>1 DEF RemoveClientProxy
<1>13. ASSUME NEW name \in Identities, Kick(name) PROVE TypeOK'
  BY <1>13 DEF Kick
<1>14. ASSUME NEW id \in DOMAIN byID, PickEntry(id) PROVE TypeOK'
  BY <1>14 DEF PickEntry
<1>15. ASSUME NEW e \in picked, NEW ok \in BOOLEAN, OpenConn(e, ok) PROVE TypeOK'
  <2>1. e.id \in Nat /\ e.client \in Sessions BY DEF Entry
  <2>2. NewConn \in Nat BY DEF NewConn
  <2>3. DOMAIN conns' \subseteq Nat
        /\ \A c \in DOMAIN conns' : conns'[c] \in [stream : Nat, client : Sessions]
    BY <1>15, <2>1, <2>2 DEF OpenConn, With
  <2>4. held' \in [Sessions -> SUBSET Nat] BY <1>15, <2>1, <2>2 DEF OpenConn
  <2>5. QED BY <1>15, <2>3, <2>4 DEF OpenConn
<1>16. ASSUME NEW c \in DOMAIN conns, NEW told \in BOOLEAN, ServerCloses(c, told)
       PROVE TypeOK'
  BY <1>16 DEF ServerCloses, Without
<1>17. CASE UNCHANGED vars
  BY <1>17 DEF vars
<1>18. QED
  BY <1>1, <1>2, <1>3, <1>4, <1>5, <1>6, <1>7, <1>8, <1>9, <1>10, <1>11, <1>12,
     <1>13, <1>14, <1>15, <1>16, <1>17
  DEF Next, SessionStep
-----------------------------------------------------------------------------
\* Remove and RemoveByClient take the same entries out of both maps.
LEMMA RemoveFacts ==
    ASSUME TableConsistent, NEW D, D \subseteq DOMAIN byID, RemoveIDs(D)
    PROVE  /\ TableConsistent'
           /\ DOMAIN byID' = DOMAIN byID \ D
           /\ \A i \in DOMAIN byID' : byID'[i] = byID[i]
           /\ seq' = seq
<1> USE DEF RemoveIDs, Without, KeyOf
<1> DEFINE K == {KeyOf(byID[i]) : i \in D}
<1>1. DOMAIN byID' = DOMAIN byID \ D /\ \A i \in DOMAIN byID' : byID'[i] = byID[i]
  OBVIOUS
<1>2. /\ DOMAIN byStreamID' = DOMAIN byStreamID \ K
      /\ \A k \in DOMAIN byStreamID' : byStreamID'[k] = byStreamID[k]
  OBVIOUS
<1>3. ASSUME NEW i \in DOMAIN byID'
      PROVE  /\ byID'[i].id = i
             /\ KeyOf(byID'[i]) \in DOMAIN byStreamID'
             /\ byStreamID'[KeyOf(byID'[i])] = byID'[i]
  <2>1. KeyOf(byID[i]) \notin K
    <3> SUFFICES ASSUME NEW j \in D, KeyOf(byID[i]) = KeyOf(byID[j]) PROVE FALSE
      OBVIOUS
    <3>1. byID[i] = byID[j] BY <1>1 DEF TableConsistent
    <3>2. QED BY <1>1, <3>1 DEF TableConsistent
  <2>2. QED BY <1>1, <1>2, <2>1 DEF TableConsistent
<1>4. ASSUME NEW k \in DOMAIN byStreamID'
      PROVE  /\ KeyOf(byStreamID'[k]) = k
             /\ byStreamID'[k].id \in DOMAIN byID'
             /\ byID'[byStreamID'[k].id] = byStreamID'[k]
  <2>1. byStreamID[k].id \notin D
    BY <1>2 DEF TableConsistent
  <2>2. QED BY <1>1, <1>2, <2>1 DEF TableConsistent
<1>5. QED BY <1>1, <1>3, <1>4 DEF TableConsistent

\* Registering a stream under a free key and a fresh number.
LEMMA RegisterFacts ==
    ASSUME TypeOK, TableConsistent, NumbersAreFresh,
           NEW s \in Sessions, NEW name \in Names, NEW service \in Services,
           RegisterStream(s, name, service)
    PROVE  /\ TableConsistent'
           /\ DOMAIN byID' = DOMAIN byID \union {seq + 1}
           /\ \A i \in DOMAIN byID : i # seq + 1 /\ byID'[i] = byID[i]
           /\ byID'[seq + 1].client = s /\ byID'[seq + 1].name = name
<1> DEFINE e == [id |-> seq + 1, name |-> name, service |-> service, client |-> s]
<1>1. /\ byID' = With(byID, e.id, e)
      /\ byStreamID' = With(byStreamID, KeyOf(e), e)
      /\ KeyOf(e) \notin DOMAIN byStreamID
  BY DEF RegisterStream, NewID, Free, KeyOf
<1>2. seq + 1 \notin DOMAIN byID BY DEF NumbersAreFresh, TypeOK
<1>3. e.id = seq + 1 /\ e.client = s /\ e.name = name OBVIOUS
<1> HIDE DEF e
<1>4. /\ DOMAIN byID' = DOMAIN byID \union {seq + 1}
      /\ byID'[seq + 1] = e
      /\ \A i \in DOMAIN byID : i # seq + 1 /\ byID'[i] = byID[i]
  BY <1>1, <1>2, <1>3 DEF With
<1>5. /\ DOMAIN byStreamID' = DOMAIN byStreamID \union {KeyOf(e)}
      /\ byStreamID'[KeyOf(e)] = e
      /\ \A k \in DOMAIN byStreamID : k # KeyOf(e) /\ byStreamID'[k] = byStreamID[k]
  BY <1>1 DEF With
<1>6. TableConsistent'
  <2>1. ASSUME NEW i \in DOMAIN byID'
        PROVE  /\ byID'[i].id = i
               /\ KeyOf(byID'[i]) \in DOMAIN byStreamID'
               /\ byStreamID'[KeyOf(byID'[i])] = byID'[i]
    BY <1>3, <1>4, <1>5 DEF TableConsistent, KeyOf
  <2>2. ASSUME NEW k \in DOMAIN byStreamID'
        PROVE  /\ KeyOf(byStreamID'[k]) = k
               /\ byStreamID'[k].id \in DOMAIN byID'
               /\ byID'[byStreamID'[k].id] = byStreamID'[k]
    BY <1>3, <1>4, <1>5 DEF TableConsistent, KeyOf
  <2>3. QED BY <2>1, <2>2 DEF TableConsistent, KeyOf
<1>7. QED BY <1>3, <1>4, <1>6

\* The stream table and the identities, under every step.
LEMMA TableStep ==
    ASSUME TypeOK, TableInv, NumbersAreFresh, [Next]_vars
    PROVE  TableInv'
<1> USE DEF TableInv, NoStreamOfEndedSession, IdentityRespected, Serving,
            sessions, table, connections
<1>a. \A i \in DOMAIN byID : byID[i].client \in Sessions
  BY DEF TypeOK, Entry
<1>b. st \in [Sessions -> States] /\ ident \in [Sessions -> Identities]
  BY DEF TypeOK
<1>1. ASSUME NEW s \in Sessions, Accept(s) PROVE TableInv'
  <2>1. TableConsistent' BY <1>1 DEF Accept, TableConsistent, KeyOf
  <2>2. QED BY <1>1, <1>a, <1>b, <2>1 DEF Accept
<1>2. ASSUME NEW s \in Sessions, NEW w \in Passwords, Handshake(s, w) PROVE TableInv'
  <2>1. TableConsistent' BY <1>2 DEF Handshake, TableConsistent, KeyOf
  <2>2. \A i \in DOMAIN byID : byID[i].client # s BY <1>2 DEF Handshake
  <2>3. QED BY <1>2, <1>a, <1>b, <2>1, <2>2 DEF Handshake
<1>3. ASSUME NEW s \in Sessions, AddClient(s) PROVE TableInv'
  <2>1. TableConsistent' BY <1>3 DEF AddClient, TableConsistent, KeyOf
  <2>2. QED BY <1>3, <1>a, <1>b, <2>1 DEF AddClient
<1>4. ASSUME NEW s \in Sessions, NEW name \in Names, NEW service \in Services,
             RegisterStream(s, name, service) PROVE TableInv'
  <2>1. /\ TableConsistent'
        /\ DOMAIN byID' = DOMAIN byID \union {seq + 1}
        /\ \A i \in DOMAIN byID : i # seq + 1 /\ byID'[i] = byID[i]
        /\ byID'[seq + 1].client = s /\ byID'[seq + 1].name = name
    BY <1>4, RegisterFacts
  <2>2. st' = st /\ ident' = ident /\ st[s] = "live" /\ ident[s] \in {Anyone, name}
    BY <1>4 DEF RegisterStream, Allowed
  <2>3. QED BY <2>1, <2>2
<1>5. ASSUME NEW s \in Sessions, NEW c \in toServer[s], HandleClose(s, c)
      PROVE TableInv'
  <2>1. st' = st /\ ident' = ident BY <1>5 DEF HandleClose
  <2>2. CASE RemoveIDs({c} \intersect DOMAIN byID)
    <3>1. /\ TableConsistent'
          /\ DOMAIN byID' \subseteq DOMAIN byID
          /\ \A i \in DOMAIN byID' : byID'[i] = byID[i]
      BY <2>2, RemoveFacts
    <3>2. QED BY <2>1, <3>1
  <2>3. CASE UNCHANGED table
    BY <2>1, <2>3 DEF TableConsistent, KeyOf
  <2>4. QED BY <1>5, <2>2, <2>3 DEF HandleClose
<1>6. ASSUME NEW s \in Sessions, RemoveByClient(s) PROVE TableInv'
  <2> DEFINE D == {i \in DOMAIN byID : byID[i].client = s}
  <2>1. /\ TableConsistent'
        /\ DOMAIN byID' = DOMAIN byID \ D
        /\ \A i \in DOMAIN byID' : byID'[i] = byID[i]
    BY <1>6, RemoveFacts DEF RemoveByClient
  <2>2. ident' = ident /\ \A t \in Sessions : t # s => st'[t] = st[t]
    BY <1>6, <1>b DEF RemoveByClient
  <2>3. QED BY <1>a, <2>1, <2>2
<1>7. ASSUME NEW s \in Sessions,
             SessionEnds(s) \/ DeleteClient(s) \/ CloseConnsByClient(s) PROVE TableInv'
  <2>1. UNCHANGED table /\ ident' = ident
    BY <1>7 DEF SessionEnds, DeleteClient, CloseConnsByClient
  <2>2. TableConsistent' BY <2>1 DEF TableConsistent, KeyOf
  <2>3. \A t \in Sessions : st[t] \in Serving => st'[t] \in Serving
    BY <1>7, <1>b DEF SessionEnds, DeleteClient, CloseConnsByClient
  <2>4. QED BY <1>a, <2>1, <2>2, <2>3
<1>8. CASE UNCHANGED <<st, ident, byID, byStreamID>>
  BY <1>8 DEF TableConsistent, KeyOf
<1>9. QED
  <2>1. CASE UNCHANGED vars BY <2>1, <1>8 DEF vars
  <2>2. ASSUME NEW s \in Sessions, SessionStep(s) PROVE TableInv'
    <3>1. ASSUME NEW c \in held[s], ClientCloses(s, c) PROVE TableInv'
      BY <3>1, <1>8 DEF ClientCloses
    <3>2. QED
      BY <2>2, <3>1, <1>1, <1>2, <1>3, <1>4, <1>5, <1>6, <1>7 DEF SessionStep
  <2>3. CASE ~ \E s \in Sessions : SessionStep(s)
    BY <2>1, <2>3, <1>8 DEF Next, AddClientProxy, RemoveClientProxy, Kick, PickEntry,
       OpenConn, ServerCloses
  <2>4. QED BY <2>2, <2>3
-----------------------------------------------------------------------------
\* Connections and numbers, under every step.
LEMMA ConnStep ==
    ASSUME TypeOK, TableConsistent, ConnInv, [Next]_vars
    PROVE  ConnInv'
<1> USE DEF ConnInv, CloseFindsOwnConns, NoForeignClose, NumbersAreFresh,
            sessions, table, connections
<1>a. /\ seq \in Nat /\ connSeq \in Nat
      /\ DOMAIN byID \subseteq Nat /\ DOMAIN conns \subseteq Nat
      /\ held \in [Sessions -> SUBSET Nat] /\ toServer \in [Sessions -> SUBSET Nat]
      /\ \A c \in DOMAIN conns : conns[c].stream \in Nat /\ conns[c].client \in Sessions
      /\ \A e \in picked : e.id \in Nat /\ e.client \in Sessions
  BY DEF TypeOK, Entry
\* Removing streams and connections cannot break any part.
<1>b. ASSUME /\ DOMAIN byID' \subseteq DOMAIN byID
             /\ \A i \in DOMAIN byID' : byID'[i] = byID[i]
             /\ DOMAIN conns' \subseteq DOMAIN conns
             /\ \A c \in DOMAIN conns' : conns'[c] = conns[c]
             /\ \A s \in Sessions : held'[s] \union toServer'[s]
                                     \subseteq held[s] \union toServer[s]
             /\ UNCHANGED <<seq, connSeq, picked>>
      PROVE  ConnInv'
  BY <1>b, <1>a
<1>1. ASSUME NEW s \in Sessions, NEW name \in Names, NEW service \in Services,
             RegisterStream(s, name, service) PROVE ConnInv'
  <2>1. /\ DOMAIN byID' = DOMAIN byID \union {seq + 1}
        /\ \A i \in DOMAIN byID : i # seq + 1 /\ byID'[i] = byID[i]
    BY <1>1, RegisterFacts
  <2>2. seq' = seq + 1 /\ UNCHANGED connections BY <1>1 DEF RegisterStream
  <2>3. \A n \in Nat : n <= seq => n # seq + 1 /\ n <= seq + 1 BY <1>a
  <2>4. CloseFindsOwnConns' BY <1>a, <2>1, <2>2, <2>3
  <2>5. NoForeignClose' BY <2>2
  <2>6. NumbersAreFresh' BY <1>a, <2>1, <2>2, <2>3
  <2>7. QED BY <2>4, <2>5, <2>6
<1>2. ASSUME NEW s \in Sessions, NEW c \in toServer[s], HandleClose(s, c) PROVE ConnInv'
  <2>1. CASE RemoveIDs({c} \intersect DOMAIN byID) /\ UNCHANGED conns
    <3>1. /\ DOMAIN byID' \subseteq DOMAIN byID
          /\ \A i \in DOMAIN byID' : byID'[i] = byID[i]
          /\ seq' = seq
      BY <2>1, RemoveFacts
    <3>2. QED BY <1>2, <1>a, <1>b, <2>1, <3>1 DEF HandleClose
  <2>2. CASE conns' = Without(conns, {c}) /\ UNCHANGED table
    BY <1>2, <1>a, <1>b, <2>2 DEF HandleClose, Without
  <2>3. QED BY <1>2, <2>1, <2>2 DEF HandleClose
<1>3. ASSUME NEW s \in Sessions, RemoveByClient(s) PROVE ConnInv'
  <2>1. /\ DOMAIN byID' \subseteq DOMAIN byID
        /\ \A i \in DOMAIN byID' : byID'[i] = byID[i]
        /\ seq' = seq
    BY <1>3, RemoveFacts DEF RemoveByClient
  <2>2. QED BY <1>3, <1>b, <2>1 DEF RemoveByClient
<1>4. ASSUME NEW s \in Sessions, CloseConnsByClient(s) PROVE ConnInv'
  BY <1>4, <1>b DEF CloseConnsByClient, Without
<1>5. ASSUME NEW s \in Sessions, NEW c \in held[s], ClientCloses(s, c) PROVE ConnInv'
  BY <1>5, <1>a, <1>b DEF ClientCloses
<1>6. ASSUME NEW id \in DOMAIN byID, PickEntry(id) PROVE ConnInv'
  <2>1. byID[id].id = id BY DEF TableConsistent
  <2>2. QED BY <1>6, <1>a, <2>1 DEF PickEntry
<1>7. ASSUME NEW e \in picked, NEW ok \in BOOLEAN, OpenConn(e, ok) PROVE ConnInv'
  <2> DEFINE n == connSeq + 1
  <2>1. /\ DOMAIN conns' = DOMAIN conns \union {n}
        /\ conns'[n].stream = e.id /\ conns'[n].client = e.client
        /\ \A c \in DOMAIN conns : c # n /\ conns'[c] = conns[c]
    BY <1>7, <1>a DEF OpenConn, NewConn, With
  <2>2. /\ connSeq' = n /\ UNCHANGED <<table, toServer>>
        /\ picked' \subseteq picked
    BY <1>7 DEF OpenConn
  <2>3. \A s \in Sessions : held'[s] \subseteq held[s]
                             \union (IF s = e.client THEN {n} ELSE {})
    BY <1>7, <1>a DEF OpenConn, NewConn
  <2>4. \A s \in Sessions : n \notin held[s] \union toServer[s]
    BY <1>a
  <2>5. CloseFindsOwnConns' BY <1>a, <2>1, <2>2
  <2>6. NoForeignClose' BY <1>a, <2>1, <2>2, <2>3, <2>4
  <2>7. NumbersAreFresh' BY <1>a, <2>1, <2>2, <2>3
  <2>8. QED BY <2>5, <2>6, <2>7
<1>8. ASSUME NEW c \in DOMAIN conns, NEW told \in BOOLEAN, ServerCloses(c, told)
      PROVE ConnInv'
  <2>1. \A s \in Sessions : held'[s] \subseteq held[s]
    BY <1>8, <1>a DEF ServerCloses
  <2>2. QED BY <1>8, <1>b, <2>1 DEF ServerCloses, Without
<1>9. CASE UNCHANGED <<table, connections>>
  BY <1>9
<1>10. QED
  <2>1. CASE UNCHANGED vars BY <2>1, <1>9 DEF vars
  <2>2. ASSUME NEW s \in Sessions, SessionStep(s) PROVE ConnInv'
    <3>1. ASSUME \/ Accept(s) \/ AddClient(s) \/ SessionEnds(s) \/ DeleteClient(s)
                 \/ \E w \in Passwords : Handshake(s, w)
          PROVE  ConnInv'
      BY <3>1, <1>9 DEF Accept, AddClient, SessionEnds, DeleteClient, Handshake
    <3>2. QED BY <2>2, <3>1, <1>1, <1>2, <1>3, <1>4, <1>5 DEF SessionStep
  <2>3. ASSUME \/ \E p \in Proxy : AddClientProxy(p)
               \/ \E i \in DOMAIN proxies : RemoveClientProxy(i)
               \/ \E name \in Identities : Kick(name)
        PROVE  ConnInv'
    BY <2>3, <1>9 DEF AddClientProxy, RemoveClientProxy, Kick
  <2>4. QED BY <2>1, <2>2, <2>3, <1>6, <1>7, <1>8 DEF Next

-----------------------------------------------------------------------------
\* The inductive invariant holds in every reachable state.
THEOREM InductiveInvariant == Spec => []IInv
<1>1. Init => IInv BY InitInv, RegistryAssumption
<1>2. IInv /\ [Next]_vars => IInv'
  BY TypeStep, TableStep, ConnStep DEF IInv, TableInv, ConnInv
<1>3. QED BY <1>1, <1>2, PTL DEF Spec

\* The type invariant holds in every reachable state, so a handshake only ever
\* yields a configured name or the administrator's identity.
THEOREM TypeCorrect == Spec => []TypeOK
  BY InductiveInvariant, PTL DEF IInv

\* byID and byStreamID of StreamTable stay two indexes of one set of entries,
\* whatever streamKey does.
THEOREM TableStaysConsistent == Spec => []TableConsistent
  BY InductiveInvariant, PTL DEF IInv, TableInv

\* When handleConn's cleanup is over, no stream of the session is left.
THEOREM StreamsEndWithSession == Spec => []NoStreamOfEndedSession
  BY InductiveInvariant, PTL DEF IInv, TableInv

\* A session registers streams only under the name its credential carried.
THEOREM IdentityIsRespected == Spec => []IdentityRespected
  BY InductiveInvariant, PTL DEF IInv, TableInv

\* CloseConnsByClient never closes another session's connection.
THEOREM CleanupClosesOwnConns == Spec => []CloseFindsOwnConns
  BY InductiveInvariant, PTL DEF IInv, ConnInv

\* A late full close never closes another session's connection.
THEOREM ForeignConnsAreSafe == Spec => []NoForeignClose
  BY InductiveInvariant, PTL DEF IInv, ConnInv
=============================================================================
