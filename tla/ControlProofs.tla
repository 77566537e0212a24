---------------------------- MODULE ControlProofs ---------------------------
(* What TLAPS proves about the control plane, for any number of requests,  *)
(* listeners, sessions, values, inodes, rules and connections.             *)
EXTENDS Control, FiniteSetTheorems, SequenceTheorems, TLAPS

-----------------------------------------------------------------------------
(* Zones and the file store.  As long as no two requests have shared the   *)
(* temporary file, the one that is under way owns it: its descriptor is    *)
(* the temporary file, which is not the file that Get reads.               *)

\* A request that is under way.
Busy(p) == put[p].pc \in {"open", "write", "rename"}

\* Types, and what a request that writes has in hand.
PutTypeOK ==
    /\ file \in Inodes \cup {0} /\ tmp \in Inodes \cup {0}
    /\ bytes \in [Inodes -> Contents]
    /\ mtime \in [Inodes -> Nat] /\ clock \in Nat
    /\ put \in [Puts -> [val : Values \cup {Nothing},
                         pc : {"idle", "open", "write", "rename", "done"},
                         fd : Inodes \cup {0}]]
    /\ \A p \in Puts : /\ Busy(p) => put[p].val \in Values
                       /\ put[p].pc = "write" => put[p].fd \in Inodes
    /\ shared \in BOOLEAN /\ lost \in BOOLEAN

\* The file that is served is whole, and not the one that is written.
FileApart ==
    /\ file # 0 => bytes[file] \in Values
    /\ tmp # 0 => tmp # file

\* The one request under way: what it serves, and what it has done to the file.
OnePut ==
    /\ \A p, q \in Puts : Busy(p) /\ Busy(q) => p = q
    /\ \A p \in Puts :
          /\ Busy(p) => lost /\ zones = Normal[put[p].val]
          /\ put[p].pc = "write" => tmp # 0 /\ put[p].fd = tmp /\ bytes[tmp] = "empty"
          /\ put[p].pc = "rename" => tmp # 0 /\ bytes[tmp] = put[p].val

\* When nothing is under way and nothing was lost, file and memory agree.
Agree == NoPuts /\ ~lost => file # 0 /\ Normal[bytes[file]] = zones

ZonesInv == PutTypeOK /\ (~shared => FileApart /\ OnePut /\ Agree)

\* A change of an inode keeps the types and changes the contents of that inode.
LEMMA TouchFacts ==
    ASSUME StoreAssumption, PutTypeOK, NEW i \in Inodes, NEW b \in Contents, Touch(i, b)
    PROVE  /\ bytes' = [bytes EXCEPT ![i] = b]
           /\ bytes' \in [Inodes -> Contents]
           /\ mtime' \in [Inodes -> Nat] /\ clock' \in Nat
<1>1. PICK step \in {0, 1} : /\ clock' = clock + step
                             /\ mtime' = [mtime EXCEPT ![i] = clock + step]
                             /\ bytes' = [bytes EXCEPT ![i] = b]
  BY DEF Touch
<1>2. QED
  BY <1>1 DEF PutTypeOK

\* Every step of a PUT, of a restart and of Watch keeps the invariant.
LEMMA ZonesStep ==
    ASSUME StoreAssumption, ZonesAssumption, ZonesInv, ZonesNext
    PROVE  ZonesInv'
<1> USE DEF ZonesInv, Busy, NoPuts, Nothing, Contents
<1>0. Nothing \notin Values /\ 0 \notin Inodes /\ "empty" \in Contents /\ "torn" \in Contents
      /\ "empty" \notin Values /\ "torn" \notin Values
  BY StoreAssumption DEF StoreAssumption
<1>1. ASSUME NEW p \in Puts, NEW v \in Values, PutZones(p, v) PROVE ZonesInv'
  <2>1. PutTypeOK'
    BY <1>1 DEF PutZones, PutTypeOK, NoPut, storeVars, names, inodes
  <2>2. ~shared' => FileApart' /\ OnePut' /\ Agree'
    BY <1>1 DEF PutZones, PutTypeOK, NoPut, storeVars, names, inodes, FileApart, OnePut, Agree
  <2>3. QED BY <2>1, <2>2
<1>2. ASSUME NEW p \in Puts, Open(p) PROVE ZonesInv'
  <2>1. PICK fd \in Inodes : /\ OpenTmp(fd, {put[q].fd : q \in Puts})
                             /\ put' = [put EXCEPT ![p].pc = "write", ![p].fd = fd]
    BY <1>2 DEF Open
  <2>2. /\ fd = tmp \/ (tmp = 0 /\ fd # file)
        /\ tmp' = fd /\ file' = file /\ UNCHANGED <<zones, lost, shared>>
    BY <1>2, <2>1 DEF Open, OpenTmp, Free
  <2>3. /\ bytes' = [bytes EXCEPT ![fd] = "empty"] /\ bytes' \in [Inodes -> Contents]
        /\ mtime' \in [Inodes -> Nat] /\ clock' \in Nat
    BY <2>1, <1>0, StoreAssumption, TouchFacts DEF OpenTmp
  <2>4. PutTypeOK'
    <3>1. put[p] \in [val : Values \cup {Nothing},
                     pc : {"idle", "open", "write", "rename", "done"}, fd : Inodes \cup {0}]
      BY DEF PutTypeOK
    <3>2. /\ put'[p] = [put[p] EXCEPT !.pc = "write", !.fd = fd]
          /\ \A q \in Puts : q # p => put'[q] = put[q]
      BY <2>1 DEF PutTypeOK
    <3>3. put' \in [Puts -> [val : Values \cup {Nothing},
                            pc : {"idle", "open", "write", "rename", "done"},
                            fd : Inodes \cup {0}]]
      BY <2>1, <3>1 DEF PutTypeOK
    <3>4. \A q \in Puts : /\ Busy(q)' => put'[q].val \in Values
                          /\ put'[q].pc = "write" => put'[q].fd \in Inodes
      BY <1>2, <3>1, <3>2 DEF PutTypeOK, Open
    <3>5. QED
      BY <2>2, <2>3, <3>3, <3>4 DEF PutTypeOK
  <2>5. ~shared' => FileApart' /\ OnePut' /\ Agree'
    BY <1>0, <1>2, <2>1, <2>2, <2>3 DEF PutTypeOK, FileApart, OnePut, Agree, Open
  <2>6. QED BY <2>4, <2>5
<1>3. ASSUME NEW p \in Puts, Write(p) PROVE ZonesInv'
  <2> DEFINE fd == put[p].fd
  <2>1. fd \in Inodes /\ put[p].pc = "write" /\ put[p].val \in Values
    BY <1>3 DEF Write, PutTypeOK
  <2>2. PICK b \in {put[p].val} \cup (IF bytes[fd] = "empty" THEN {} ELSE {"torn"}) : Touch(fd, b)
    BY <1>3 DEF Write, WriteTmp
  <2>3. b \in Contents /\ (bytes[fd] = "empty" => b = put[p].val)
    BY <1>0, <2>1, <2>2
  <2>4. /\ bytes' = [bytes EXCEPT ![fd] = b] /\ bytes' \in [Inodes -> Contents]
        /\ mtime' \in [Inodes -> Nat] /\ clock' \in Nat
    BY <2>1, <2>2, <2>3, StoreAssumption, TouchFacts
  <2>5. /\ put' = [put EXCEPT ![p].pc = "rename", ![p].fd = 0]
        /\ UNCHANGED <<file, tmp, zones, lost, shared>>
    BY <1>3 DEF Write, WriteTmp, names
  <2>6. /\ put'[p] = [put[p] EXCEPT !.pc = "rename", !.fd = 0]
        /\ \A q \in Puts : q # p => put'[q] = put[q]
    BY <2>5 DEF PutTypeOK
  <2>7. PutTypeOK'
    BY <2>1, <2>4, <2>5, <2>6 DEF PutTypeOK
  <2>8. ~shared' => FileApart' /\ OnePut' /\ Agree'
    BY <1>0, <2>1, <2>3, <2>4, <2>5, <2>6 DEF PutTypeOK, FileApart, OnePut, Agree
  <2>9. QED BY <2>7, <2>8
<1>4. ASSUME NEW p \in Puts, WriteError(p) PROVE ZonesInv'
  <2> DEFINE fd == put[p].fd
  <2>1. fd \in Inodes /\ put[p].pc = "write" /\ put[p].val \in Values
    BY <1>4 DEF WriteError, PutTypeOK
  <2>2. Touch(fd, "torn")
    BY <1>4 DEF WriteError, WriteFails
  <2>3. /\ bytes' = [bytes EXCEPT ![fd] = "torn"] /\ bytes' \in [Inodes -> Contents]
        /\ mtime' \in [Inodes -> Nat] /\ clock' \in Nat
    BY <1>0, <2>1, <2>2, StoreAssumption, TouchFacts
  <2>4. /\ put' = [put EXCEPT ![p].pc = "done", ![p].fd = 0]
        /\ UNCHANGED <<file, tmp, zones, lost, shared>>
    BY <1>4 DEF WriteError, WriteFails, names
  <2>5. /\ put'[p] = [put[p] EXCEPT !.pc = "done", !.fd = 0]
        /\ \A q \in Puts : q # p => put'[q] = put[q]
    BY <2>4 DEF PutTypeOK
  <2>6. PutTypeOK'
    BY <2>1, <2>3, <2>4, <2>5 DEF PutTypeOK
  <2>7. ~shared' => FileApart' /\ OnePut' /\ Agree'
    BY <1>0, <2>1, <2>3, <2>4, <2>5 DEF PutTypeOK, FileApart, OnePut, Agree
  <2>8. QED BY <2>6, <2>7
<1>5. ASSUME NEW p \in Puts, Rename(p) PROVE ZonesInv'
  <2>1. CASE tmp = 0
    BY <1>5, <2>1 DEF Rename, RenameTmp, storeVars, names, inodes, PutTypeOK, FileApart,
                      OnePut, Agree
  <2>2. CASE tmp # 0
    <3>1. PutTypeOK'
      BY <1>5, <2>2, ZenonT(60) DEF Rename, RenameTmp, PutTypeOK
    <3>2. ~shared' => FileApart' /\ OnePut' /\ Agree'
      BY <1>0, <1>5, <2>2 DEF Rename, RenameTmp, PutTypeOK, FileApart, OnePut, Agree
    <3>3. QED BY <3>1, <3>2
  <2>3. QED BY <2>1, <2>2
<1>6. CASE Restart
  <2>0. /\ \A p \in Puts : /\ put'[p].pc \in {"idle", "done"} /\ put'[p].fd = 0
                            /\ put'[p].val = put[p].val
        /\ lost' = TRUE /\ UNCHANGED <<file, tmp, bytes, shared>>
    BY <1>6 DEF Restart, PutTypeOK, names, inodes
  <2>1. PutTypeOK'
    BY <1>6, ZenonT(60) DEF Restart, PutTypeOK, names, inodes
  <2>2. ~shared' => FileApart' /\ OnePut' /\ Agree'
    BY <2>0 DEF FileApart, OnePut, Agree
  <2>3. QED BY <2>1, <2>2
<1>7. CASE Watching
  BY <1>7 DEF Watching, WatchNext, Baseline, Poll, Report, names, inodes, PutTypeOK,
              FileApart, OnePut, Agree
<1>8. QED
  BY <1>1, <1>2, <1>3, <1>4, <1>5, <1>6, <1>7 DEF ZonesNext

\* The invariant of the zones holds always.
LEMMA ZonesInductive == Spec => []ZonesInv
<1>1. Init => ZonesInv
  <2> SUFFICES ASSUME Init PROVE ZonesInv
    OBVIOUS
  <2>1. /\ file = 0 /\ tmp = 0 /\ clock = 0 /\ lost = TRUE /\ shared = FALSE
        /\ bytes = [i \in Inodes |-> "empty"] /\ mtime = [i \in Inodes |-> 0]
        /\ put = [p \in Puts |-> [val |-> Nothing, pc |-> "idle", fd |-> 0]]
    BY DEF Init, ZonesInit, StoreInit, NoPut
  <2>2. PutTypeOK
    <3>1. lost \in BOOLEAN /\ shared \in BOOLEAN
      BY <2>1
    <3>2. QED
      BY <2>1, <3>1 DEF PutTypeOK, Busy, Contents
  <2>3. FileApart /\ OnePut /\ Agree
    BY <2>1 DEF FileApart, OnePut, Agree, Busy, NoPuts
  <2>4. QED
    BY <2>2, <2>3 DEF ZonesInv
<1>2. ZonesInv /\ [Next]_vars => ZonesInv'
  <2>1. ASSUME ZonesInv, UNCHANGED zoneVars PROVE ZonesInv'
    BY <2>1 DEF zoneVars, storeVars, names, inodes, ZonesInv, PutTypeOK, FileApart, OnePut,
                Agree, Busy, NoPuts
  <2>2. QED
    BY <2>1, StoreAssumption, ZonesAssumption, ZonesStep DEF Next, vars
<1>3. QED
  BY <1>1, <1>2, PTL DEF Spec

\* FileStore.Get never returns half a value, whichever write fails and whenever
\* the process dies, as long as Puts of the key do not overlap: writeFile
\* never writes to the file that readFile reads.
THEOREM ValuesAreWhole == Spec => []NeverTorn
<1>1. ZonesInv => NeverTorn
  BY DEF ZonesInv, FileApart, NeverTorn, Stored
<1>2. QED
  BY <1>1, ZonesInductive, PTL

\* A PUT of the DNS zones whose Put went well leaves in the file what Handler
\* serves from memory.
THEOREM AnsweredIsPersisted == Spec => []Persisted
<1>1. ZonesInv => Persisted
  BY StoreAssumption DEF StoreAssumption, ZonesInv, FileApart, Agree, Persisted, Stored
<1>2. QED
  BY <1>1, ZonesInductive, PTL
-----------------------------------------------------------------------------
(* Credentials and kicks.  A kick that is to be the last word on a name    *)
(* has to find, at every listener it has passed, only sessions that had    *)
(* been too early for it, and nobody may have brought the name back.       *)

Streams == {k.stream : k \in Creds}
ReqRecords == [op : {"none", "add", "delete", "kick"}, name : Names \cup {""},
               stream : Streams \cup {""}, kick : BOOLEAN, i : Nat,
               pc : {"idle", "loop", "kick", "done"}, hit : BOOLEAN, clean : BOOLEAN]
SessRecords == [st : {"new", "auth", "live", "ended"}, at : Nat, name : Names \cup {""}]
Entries == Creds \cup [name : Names \cup {""}, stream : Streams \cup {""}]

AdminTypeOK ==
    /\ req \in [Reqs -> ReqRecords]
    /\ sess \in [Sessions -> SessRecords]
    /\ creds \in [Ctrls -> SUBSET Entries]
    /\ \A r \in Reqs : req[r].pc \in {"loop", "kick"} => req[r].i \in Ctrls
    /\ \A s \in Sessions : sess[s].st \in {"auth", "live"} => sess[s].at \in Ctrls

\* Of the sessions ss, none of n is at listener c but the ones in es.
Out(n, c, ss, es) ==
    \A s \in Sessions :
        ss[s].st \in {"auth", "live"} /\ ss[s].name = n /\ ss[s].at = c => s \in es

KickInv ==
    \A r \in Reqs : req[r].pc = "kick" /\ req[r].clean =>
        /\ ~HasCred(req[r].name, creds)
        /\ \A c \in Ctrls : c < req[r].i => Out(req[r].name, c, sess, escaped)

RevokedInv ==
    \A n \in revoked : ~HasCred(n, creds) /\ \A c \in Ctrls : Out(n, c, sess, escaped)

AdminInv == AdminTypeOK /\ KickInv /\ RevokedInv

\* A request begins with a record that has no clean kick in it.
LEMMA BeginKeeps ==
    ASSUME AdminInv, NEW r \in Reqs, NEW q \in ReqRecords, Begin(r, q),
           q.pc \in {"loop", "kick"} => q.i \in Ctrls, ~q.clean
    PROVE  AdminInv'
<1>1. req' = [req EXCEPT ![r] = q] /\ UNCHANGED <<creds, sess, revoked, escaped>>
  BY DEF Begin
<1>2. AdminTypeOK'
  BY <1>1 DEF AdminInv, AdminTypeOK
<1>3. req'[r] = q /\ \A x \in Reqs : x # r => req'[x] = req[x]
  BY <1>1 DEF AdminInv, AdminTypeOK
<1>4. KickInv'
  BY <1>1, <1>3 DEF AdminInv, KickInv, HasCred, Out
<1>5. RevokedInv'
  BY <1>1 DEF AdminInv, RevokedInv, HasCred, Out
<1>6. QED BY <1>2, <1>4, <1>5 DEF AdminInv

\* An entry that is added takes its name out of what is revoked, and out of the
\* kicks under way.
LEMMA AddKeeps ==
    ASSUME AdminAssumption, AdminInv, NEW r \in Reqs, AddStep(r)
    PROVE  AdminInv'
<1> DEFINE c == req[r].i
           e == Entry(r)
<1>1. c \in Ctrls /\ NCtrls \in Nat /\ req[r].pc = "loop" /\ req[r] \in ReqRecords
  BY AdminAssumption DEF AddStep, AdminInv, AdminTypeOK, AdminAssumption
<1>2. e \in Entries /\ e.name = req[r].name
  BY <1>1 DEF Entry, Entries, ReqRecords
<1>3. /\ creds' = [creds EXCEPT ![c] = @ \cup {e}]
      /\ revoked' = revoked \ {req[r].name}
      /\ UNCHANGED <<sess, escaped>>
  BY DEF AddStep, Added
<1>4. /\ req' \in [Reqs -> ReqRecords]
      /\ req'[r].pc \in {"loop", "done"} /\ (req'[r].pc = "loop" => req'[r].i \in Ctrls)
      /\ \A q \in Reqs : q # r =>
            req'[q] = [req[q] EXCEPT !.clean = @ /\ req[q].name # req[r].name]
  <2>1. req' = [q \in Reqs |->
                  IF q = r THEN [req[r] EXCEPT !.i = c + 1,
                                               !.pc = IF c = NCtrls THEN "done" ELSE "loop",
                                               !.hit = @ \/ e \notin creds[c]]
                  ELSE [req[q] EXCEPT !.clean = @ /\ req[q].name # req[r].name]]
    BY DEF AddStep, Added
  <2>2. /\ c + 1 \in Nat /\ (c # NCtrls => c + 1 \in Ctrls)
    BY <1>1 DEF Ctrls
  <2>3. (req[r].hit \/ e \notin creds[c]) \in BOOLEAN
    BY <1>1 DEF ReqRecords
  <2>4. \A q \in Reqs : (req[q].clean /\ req[q].name # req[r].name) \in BOOLEAN
    BY DEF AdminInv, AdminTypeOK, ReqRecords
  <2>5. \A q \in Reqs : req'[q] \in ReqRecords
    <3> SUFFICES ASSUME NEW q \in Reqs PROVE req'[q] \in ReqRecords
      OBVIOUS
    <3>1. req[q] \in ReqRecords
      BY DEF AdminInv, AdminTypeOK
    <3>2. CASE q = r
      <4>1. PICK h \in BOOLEAN : h = (req[r].hit \/ e \notin creds[c])
        BY <2>3
      <4>2. req'[q] = [req[q] EXCEPT !.i = c + 1,
                                     !.pc = IF c = NCtrls THEN "done" ELSE "loop", !.hit = h]
        BY <2>1, <3>2, <4>1
      <4>3. QED
        BY <2>2, <3>1, <4>2 DEF ReqRecords
    <3>3. CASE q # r
      <4>1. PICK h \in BOOLEAN : h = (req[q].clean /\ req[q].name # req[r].name)
        BY <2>4
      <4>2. req'[q] = [req[q] EXCEPT !.clean = h]
        BY <2>1, <3>3, <4>1
      <4>3. QED
        BY <3>1, <4>2 DEF ReqRecords
    <3>4. QED BY <3>2, <3>3
  <2>6. req' \in [Reqs -> ReqRecords]
    BY <2>1, <2>5
  <2>7. QED
    BY <2>1, <2>2, <2>6, <1>1 DEF ReqRecords
<1>5. \A q \in Reqs : q # r => /\ req'[q].pc = req[q].pc /\ req'[q].i = req[q].i
                               /\ req'[q].name = req[q].name
                               /\ req'[q].clean => req[q].clean /\ req[q].name # req[r].name
  <2> SUFFICES ASSUME NEW q \in Reqs, q # r
               PROVE  /\ req'[q].pc = req[q].pc /\ req'[q].i = req[q].i
                      /\ req'[q].name = req[q].name
                      /\ req'[q].clean => req[q].clean /\ req[q].name # req[r].name
    OBVIOUS
  <2>1. req[q] \in ReqRecords
    BY DEF AdminInv, AdminTypeOK
  <2>2. req'[q] = [req[q] EXCEPT !.clean = @ /\ req[q].name # req[r].name]
    BY <1>4
  <2>3. QED
    BY <2>1, <2>2 DEF ReqRecords
<1>6. AdminTypeOK'
  <2>1. creds' \in [Ctrls -> SUBSET Entries]
    BY <1>1, <1>2, <1>3 DEF AdminInv, AdminTypeOK
  <2>2. QED
    BY <2>1, <1>3, <1>4, <1>5 DEF AdminInv, AdminTypeOK
<1>7. ASSUME NEW n, n # req[r].name, ~HasCred(n, creds) PROVE ~HasCred(n, creds')
  BY <1>1, <1>2, <1>3, <1>7 DEF HasCred, AdminInv, AdminTypeOK
<1>8. KickInv'
  BY <1>3, <1>4, <1>5, <1>7, ZenonT(60) DEF AdminInv, KickInv, Out
<1>9. RevokedInv'
  BY <1>3, <1>7 DEF AdminInv, RevokedInv, Out
<1>10. QED BY <1>6, <1>8, <1>9 DEF AdminInv

\* An entry that is deleted brings no name back; the kick that may follow begins
\* at the first listener.
LEMMA DeleteKeeps ==
    ASSUME AdminAssumption, AdminInv, NEW r \in Reqs, DeleteStep(r)
    PROVE  AdminInv'
<1> DEFINE c == req[r].i
           hit == req[r].hit \/ Entry(r) \in creds[c]
           kicks == c = NCtrls /\ hit /\ req[r].kick
           clean == kicks /\ ~HasCred(req[r].name, creds')
           i1 == IF c = NCtrls THEN 1 ELSE c + 1
           pc1 == CASE c < NCtrls -> "loop" [] kicks -> "kick" [] OTHER -> "done"
<1>1. c \in Ctrls /\ NCtrls \in Nat \ {0} /\ req[r].pc = "loop" /\ req[r] \in ReqRecords
  BY AdminAssumption DEF DeleteStep, AdminInv, AdminTypeOK, AdminAssumption
<1>2. /\ creds' = [creds EXCEPT ![c] = @ \ {Entry(r)}]
      /\ req' = [req EXCEPT ![r].hit = hit, ![r].i = i1, ![r].clean = clean, ![r].pc = pc1]
      /\ UNCHANGED <<sess, revoked, escaped>>
  BY DEF DeleteStep
<1>3. hit \in BOOLEAN /\ clean \in BOOLEAN
  BY <1>1 DEF ReqRecords
<1>4. i1 \in Ctrls /\ i1 \in Nat /\ pc1 \in {"loop", "kick", "done"} /\ (pc1 = "kick" => i1 = 1)
  BY <1>1 DEF Ctrls
<1> HIDE DEF hit, clean, i1, pc1
<1>5. /\ req'[r] = [req[r] EXCEPT !.hit = hit, !.i = i1, !.clean = clean, !.pc = pc1]
      /\ \A q \in Reqs : q # r => req'[q] = req[q]
      /\ req' \in [Reqs -> ReqRecords]
  <2>1. [req[r] EXCEPT !.hit = hit, !.i = i1, !.clean = clean, !.pc = pc1] \in ReqRecords
    BY <1>1, <1>3, <1>4 DEF ReqRecords
  <2>2. QED
    BY <1>2, <2>1 DEF AdminInv, AdminTypeOK
<1>6. /\ req'[r].pc = pc1 /\ req'[r].i = i1 /\ req'[r].clean = clean
      /\ req'[r].name = req[r].name
  BY <1>1, <1>5 DEF ReqRecords
<1>7. AdminTypeOK'
  <2>1. creds' \in [Ctrls -> SUBSET Entries]
    BY <1>1, <1>2 DEF AdminInv, AdminTypeOK
  <2>2. QED
    BY <2>1, <1>2, <1>4, <1>5, <1>6 DEF AdminInv, AdminTypeOK
<1>8. ASSUME NEW n, ~HasCred(n, creds) PROVE ~HasCred(n, creds')
  BY <1>1, <1>2, <1>8 DEF HasCred, AdminInv, AdminTypeOK
<1>9. KickInv'
  <2> SUFFICES ASSUME NEW q \in Reqs, req'[q].pc = "kick", req'[q].clean
               PROVE  /\ ~HasCred(req'[q].name, creds')
                      /\ \A d \in Ctrls : d < req'[q].i => Out(req'[q].name, d, sess', escaped')
    BY DEF KickInv
  <2>1. CASE q = r
    <3>1. ~HasCred(req'[q].name, creds')
      BY <1>6, <2>1 DEF clean
    <3>2. req'[q].i = 1
      BY <1>4, <1>6, <2>1
    <3>3. QED
      BY <3>1, <3>2 DEF Ctrls
  <2>2. CASE q # r
    BY <1>2, <1>5, <1>8, <2>2 DEF AdminInv, KickInv, Out
  <2>3. QED BY <2>1, <2>2
<1>10. RevokedInv'
  BY <1>2, <1>8 DEF AdminInv, RevokedInv, Out
<1>11. QED BY <1>7, <1>9, <1>10 DEF AdminInv

\* A step of a kick leaves only sessions that escape at its listener.
LEMMA KickKeeps ==
    ASSUME AdminAssumption, AdminInv, NEW r \in Reqs, KickStep(r)
    PROVE  AdminInv'
<1> DEFINE c == req[r].i
           pc1 == IF c = NCtrls THEN "done" ELSE "kick"
<1>1. c \in Ctrls /\ NCtrls \in Nat \ {0} /\ req[r].pc = "kick" /\ req[r] \in ReqRecords
  BY AdminAssumption DEF KickStep, AdminInv, AdminTypeOK, AdminAssumption
<1>2. /\ sess' = [s \in Sessions |->
                     IF s \in Kicked(r, c) THEN [sess[s] EXCEPT !.st = "ended"] ELSE sess[s]]
      /\ escaped' = escaped \cup {s \in Sessions : sess[s].st = "auth" /\ sess[s].at = c}
      /\ req' = [req EXCEPT ![r].i = c + 1, ![r].pc = pc1]
      /\ revoked' = IF c = NCtrls /\ req[r].clean THEN revoked \cup {req[r].name} ELSE revoked
      /\ creds' = creds
  BY DEF KickStep
<1>3. /\ c + 1 \in Nat /\ (c # NCtrls => c + 1 \in Ctrls)
      /\ \A d \in Ctrls : d < c + 1 <=> (d < c \/ d = c)
  BY <1>1 DEF Ctrls
<1>4. /\ req'[r] = [req[r] EXCEPT !.i = c + 1, !.pc = pc1]
      /\ \A q \in Reqs : q # r => req'[q] = req[q]
      /\ req' \in [Reqs -> ReqRecords]
  <2>1. [req[r] EXCEPT !.i = c + 1, !.pc = pc1] \in ReqRecords
    BY <1>1, <1>3 DEF ReqRecords
  <2>2. QED
    BY <1>2, <2>1 DEF AdminInv, AdminTypeOK
<1>5. /\ req'[r].pc = pc1 /\ req'[r].i = c + 1 /\ req'[r].clean = req[r].clean
      /\ req'[r].name = req[r].name
  BY <1>1, <1>4 DEF ReqRecords
<1>6. \A s \in Sessions : /\ sess'[s] \in SessRecords
                          /\ sess'[s] = sess[s] \/ sess'[s].st = "ended"
  <2> SUFFICES ASSUME NEW s \in Sessions
               PROVE  sess'[s] \in SessRecords /\ (sess'[s] = sess[s] \/ sess'[s].st = "ended")
    OBVIOUS
  <2>1. sess[s] \in SessRecords
    BY DEF AdminInv, AdminTypeOK
  <2>2. QED
    BY <1>2, <2>1 DEF SessRecords
<1>7. AdminTypeOK'
  <2>1. sess' \in [Sessions -> SessRecords]
    BY <1>2, <1>6
  <2>2. \A s \in Sessions : sess'[s].st \in {"auth", "live"} => sess'[s].at \in Ctrls
    BY <1>6 DEF AdminInv, AdminTypeOK
  <2>3. \A q \in Reqs : req'[q].pc \in {"loop", "kick"} => req'[q].i \in Ctrls
    BY <1>3, <1>4, <1>5 DEF AdminInv, AdminTypeOK
  <2>4. QED
    BY <2>1, <2>2, <2>3, <1>2, <1>4 DEF AdminInv, AdminTypeOK
<1>8. \A n, d : Out(n, d, sess, escaped) => Out(n, d, sess', escaped')
  BY <1>2, <1>6 DEF Out
<1>9. Out(req[r].name, c, sess', escaped')
  <2> SUFFICES ASSUME NEW s \in Sessions, sess'[s].st \in {"auth", "live"},
                      sess'[s].name = req[r].name, sess'[s].at = c
               PROVE  s \in escaped'
    BY <1>2 DEF Out
  <2>1. sess'[s] = sess[s] /\ sess[s] \in SessRecords
    BY <1>6 DEF AdminInv, AdminTypeOK
  <2>2. CASE sess[s].st = "auth"
    BY <1>2, <2>1, <2>2
  <2>3. CASE sess[s].st = "live"
    <3>1. sess[s] = [st |-> "live", at |-> c, name |-> req[r].name]
      BY <2>1, <2>3 DEF SessRecords
    <3>2. s \in Kicked(r, c)
      BY <3>1 DEF Kicked
    <3>3. sess'[s].st = "ended"
      BY <1>2, <2>1, <3>2 DEF SessRecords
    <3>4. QED BY <3>3
  <2>4. QED BY <2>1, <2>2, <2>3
<1>10. KickInv'
  <2> SUFFICES ASSUME NEW q \in Reqs, req'[q].pc = "kick", req'[q].clean
               PROVE  /\ ~HasCred(req'[q].name, creds')
                      /\ \A d \in Ctrls : d < req'[q].i => Out(req'[q].name, d, sess', escaped')
    BY DEF KickInv
  <2>1. CASE q = r
    BY <1>1, <1>2, <1>3, <1>5, <1>8, <1>9, <2>1 DEF AdminInv, KickInv
  <2>2. CASE q # r
    BY <1>2, <1>4, <1>8, <2>2 DEF AdminInv, KickInv
  <2>3. QED BY <2>1, <2>2
<1>11. RevokedInv'
  <2> SUFFICES ASSUME NEW n \in revoked'
               PROVE  ~HasCred(n, creds') /\ \A d \in Ctrls : Out(n, d, sess', escaped')
    BY DEF RevokedInv
  <2>1. CASE n \in revoked
    BY <1>2, <1>8, <2>1 DEF AdminInv, RevokedInv
  <2>2. CASE n \notin revoked
    <3>1. c = NCtrls /\ req[r].clean /\ n = req[r].name
      BY <1>2, <2>2
    <3>2. \A d \in Ctrls : d < c \/ d = c
      BY <1>1, <3>1 DEF Ctrls
    <3>3. QED
      BY <1>1, <1>2, <1>8, <1>9, <3>1, <3>2 DEF AdminInv, KickInv
  <2>3. QED BY <2>1, <2>2
<1>12. QED BY <1>7, <1>10, <1>11 DEF AdminInv

\* A session is accepted only where there is a credential of its name; then it
\* goes on to the clients map.
LEMMA SessionKeeps ==
    ASSUME AdminInv, NEW s \in Sessions,
           Enter(s) \/ \E c \in Ctrls, n \in Names : Connect(s, c, n)
    PROVE  AdminInv'
<1>1. UNCHANGED <<req, creds, revoked, escaped>>
  BY DEF Enter, Connect
<1>2. /\ sess'[s] \in SessRecords
      /\ \A x \in Sessions : x # s => sess'[x] = sess[x]
      /\ sess' \in [Sessions -> SessRecords]
      /\ sess'[s].st \in {"auth", "live"} /\ sess'[s].at \in Ctrls
      /\ \/ /\ sess[s].st = "auth"
            /\ sess'[s].at = sess[s].at /\ sess'[s].name = sess[s].name
         \/ HasCred(sess'[s].name, creds)
  <2>1. sess[s] \in SessRecords /\ sess \in [Sessions -> SessRecords]
    BY DEF AdminInv, AdminTypeOK
  <2>2. CASE Enter(s)
    BY <2>1, <2>2 DEF Enter, AdminInv, AdminTypeOK, SessRecords
  <2>3. ASSUME NEW c \in Ctrls, NEW n \in Names, Connect(s, c, n)
        PROVE  /\ sess' = [sess EXCEPT ![s] = [st |-> "auth", at |-> c, name |-> n]]
               /\ c \in Nat /\ HasCred(n, creds)
    BY <2>3 DEF Connect, HasCred, Ctrls
  <2>4. CASE \E c \in Ctrls, n \in Names : Connect(s, c, n)
    <3>1. PICK c \in Ctrls, n \in Names : Connect(s, c, n)
      BY <2>4
    <3>2. /\ sess' = [sess EXCEPT ![s] = [st |-> "auth", at |-> c, name |-> n]]
          /\ c \in Nat /\ HasCred(n, creds)
      BY <2>3, <3>1
    <3>3. [st |-> "auth", at |-> c, name |-> n] \in SessRecords
      BY <3>2 DEF SessRecords
    <3>4. sess'[s] = [st |-> "auth", at |-> c, name |-> n]
      BY <2>1, <3>2
    <3>5. QED
      BY <2>1, <3>2, <3>3, <3>4
  <2>5. QED BY <2>2, <2>4
<1>3. AdminTypeOK'
  BY <1>1, <1>2 DEF AdminInv, AdminTypeOK
<1>4. ASSUME NEW n, NEW c \in Ctrls, ~HasCred(n, creds), Out(n, c, sess, escaped) PROVE Out(n, c, sess', escaped')
  BY <1>1, <1>2, <1>4 DEF Out
<1>5. KickInv' /\ RevokedInv'
  BY <1>1, <1>4 DEF AdminInv, KickInv, RevokedInv
<1>6. QED BY <1>3, <1>5 DEF AdminInv

\* Every step of a request or of a session keeps the invariant.
LEMMA AdminStep ==
    ASSUME AdminAssumption, AdminInv, AdminNext
    PROVE  AdminInv'
<1>1. NoReq \in ReqRecords /\ 1 \in Ctrls
  BY AdminAssumption DEF NoReq, ReqRecords, AdminAssumption, Ctrls
<1>2. ASSUME NEW r \in Reqs, NEW op \in {"add", "delete"}, NEW k \in Creds, NEW kick \in BOOLEAN,
             BeginChange(r, op, k, kick)
      PROVE  AdminInv'
  <2> DEFINE q == [NoReq EXCEPT !.op = op, !.name = k.name, !.stream = k.stream,
                                !.kick = kick, !.i = 1, !.pc = "loop"]
  <2>1. k.name \in Names /\ k.stream \in Streams
    BY DEF Names, Streams
  <2>2. q \in ReqRecords /\ q.i = 1 /\ ~q.clean
    BY <1>2, <2>1 DEF NoReq, ReqRecords
  <2>3. Begin(r, q)
    BY <1>2 DEF BeginChange
  <2> HIDE DEF q
  <2>4. QED BY <1>1, <2>2, <2>3, BeginKeeps
<1>3. ASSUME NEW r \in Reqs, NEW n \in Names, BeginKick(r, n) PROVE AdminInv'
  <2> DEFINE q == [NoReq EXCEPT !.op = "kick", !.name = n, !.i = 1, !.pc = "kick"]
  <2>1. q \in ReqRecords /\ q.i = 1 /\ ~q.clean
    BY <1>3 DEF NoReq, ReqRecords
  <2>2. Begin(r, q)
    BY <1>3 DEF BeginKick
  <2> HIDE DEF q
  <2>3. QED BY <1>1, <2>1, <2>2, BeginKeeps
<1>4. ASSUME NEW r \in Reqs, AddStep(r) \/ DeleteStep(r) \/ KickStep(r) PROVE AdminInv'
  BY <1>4, AdminAssumption, AddKeeps, DeleteKeeps, KickKeeps
<1>5. ASSUME NEW s \in Sessions, Enter(s) \/ \E c \in Ctrls, n \in Names : Connect(s, c, n)
      PROVE  AdminInv'
  BY <1>5, SessionKeeps
<1>6. QED
  BY <1>2, <1>3, <1>4, <1>5 DEF AdminNext

\* After a delete with kick=1 that removed the last credential of a name, every
\* session of the name is gone when the answer comes, but for those that Kick
\* could not see yet: handleDeleteClientProxy and CtrlProxyServer.Kick against
\* any number of concurrent requests and sessions.
THEOREM RevocationHolds == Spec => []RevokedIsOut
<1>1. Init => AdminInv
  <2> SUFFICES ASSUME Init PROVE AdminInv
    OBVIOUS
  <2>1. AdminTypeOK
    BY AdminAssumption DEF Init, AdminInit, AdminTypeOK, NoReq, NoSess, ReqRecords, SessRecords,
       Entries, AdminAssumption
  <2>2. KickInv /\ RevokedInv
    BY DEF Init, AdminInit, KickInv, RevokedInv, NoReq
  <2>3. QED BY <2>1, <2>2 DEF AdminInv
<1>2. AdminInv /\ [Next]_vars => AdminInv'
  <2>1. ASSUME AdminInv, UNCHANGED adminVars PROVE AdminInv'
    BY <2>1 DEF adminVars, AdminInv, AdminTypeOK, KickInv, RevokedInv, Out, HasCred
  <2>2. QED
    BY <2>1, AdminAssumption, AdminStep DEF Next, vars
<1>3. AdminInv => RevokedIsOut
  BY DEF AdminInv, AdminTypeOK, RevokedInv, RevokedIsOut, Out
<1>4. QED
  BY <1>1, <1>2, <1>3, PTL DEF Spec
-----------------------------------------------------------------------------
(* Remainders, as the two round robins use them.                           *)

\* Division with remainder is unique.
LEMMA ModUnique ==
    ASSUME NEW n \in Nat \ {0}, NEW q \in Nat, NEW i \in 0 .. n - 1
    PROVE  (n * q + i) % n = i
<1> DEFINE a == n * q + i
           d == a \div n
           r == a % n
<1>1. a \in Nat
  OBVIOUS
<1>2. d \in Int /\ r \in 0 .. n - 1 /\ a = n * d + r
  BY <1>1
<1>3. n * (q - d) = r - i
  BY <1>2
<1> HIDE DEF d, r
<1>4. CASE q - d >= 1
  <2>1. n * (q - d) >= n
    BY <1>4, <1>2
  <2>2. QED BY <2>1, <1>2, <1>3
<1>5. CASE q - d <= -1
  <2>1. n * (q - d) <= -n
    BY <1>5, <1>2
  <2>2. QED BY <2>1, <1>2, <1>3
<1>6. CASE q = d
  BY <1>6, <1>2, <1>3 DEF r
<1>7. QED
  BY <1>4, <1>5, <1>6, <1>2

\* A number and its remainder.
LEMMA ModFacts ==
    ASSUME NEW n \in Nat \ {0}, NEW a \in Nat
    PROVE  /\ a % n \in 0 .. n - 1
           /\ \E q \in Nat : a = n * q + (a % n)
<1> DEFINE d == a \div n
           r == a % n
<1>1. d \in Int /\ r \in 0 .. n - 1 /\ a = n * d + r
  OBVIOUS
<1>2. a % n = r
  OBVIOUS
<1> HIDE DEF d, r
<1>3. ASSUME d <= -1 PROVE FALSE
  <2>1. n * d <= -n
    BY <1>1, <1>3
  <2>2. QED BY <1>1, <2>1
<1>4. d \in Nat
  BY <1>1, <1>3
<1>5. \E q \in Nat : a = n * q + r
  BY <1>1, <1>4
<1>6. QED BY <1>1, <1>2, <1>5

\* n numbers in a row have all remainders.
LEMMA ModHits ==
    ASSUME NEW n \in Nat \ {0}, NEW a \in Nat, NEW i \in 0 .. n - 1
    PROVE  \E k \in 0 .. n - 1 : (a + k) % n = i
<1>1. PICK q \in Nat, r \in 0 .. n - 1 : a = n * q + r
  BY ModFacts
<1>2. CASE r <= i
  <2>1. i - r \in 0 .. n - 1 /\ a + (i - r) = n * q + i
    BY <1>1, <1>2
  <2>2. QED BY <2>1, ModUnique
<1>3. CASE r > i
  <2>1. i - r + n \in 0 .. n - 1 /\ a + (i - r + n) = n * (q + 1) + i /\ q + 1 \in Nat
    BY <1>1, <1>3
  <2>2. (n * (q + 1) + i) % n = i
    BY <2>1, ModUnique
  <2>3. QED BY <2>1, <2>2
<1>4. QED BY <1>1, <1>2, <1>3

\* A remainder is its own remainder.
LEMMA ModIdem ==
    ASSUME NEW n \in Nat \ {0}, NEW r \in 0 .. n - 1
    PROVE  r % n = r
<1>1. r = n * 0 + r
  OBVIOUS
<1>2. QED BY <1>1, ModUnique

\* The remainder of a successor is that of the successor of the remainder.
LEMMA ModSucc ==
    ASSUME NEW n \in Nat \ {0}, NEW a \in Nat
    PROVE  (a + 1) % n = (1 + (a % n)) % n
<1> DEFINE r == a % n
<1>1. r \in 0 .. n - 1 /\ \E q \in Nat : a = n * q + r
  BY ModFacts
<1> HIDE DEF r
<1>a. PICK q \in Nat : a = n * q + r
  BY <1>1
<1>2. CASE r + 1 < n
  <2>1. r + 1 \in 0 .. n - 1 /\ a + 1 = n * q + (r + 1) /\ 1 + r = r + 1
    BY <1>1, <1>a, <1>2
  <2>2. (n * q + (r + 1)) % n = r + 1 /\ (r + 1) % n = r + 1
    BY <1>1, <2>1, ModUnique, ModIdem
  <2>3. QED BY <1>1, <2>1, <2>2 DEF r
<1>3. CASE r + 1 = n
  <2>1. 0 \in 0 .. n - 1 /\ a + 1 = n * (q + 1) + 0 /\ 1 + r = n * 1 + 0 /\ q + 1 \in Nat
    BY <1>1, <1>a, <1>3
  <2>2. (n * (q + 1) + 0) % n = 0 /\ (n * 1 + 0) % n = 0
    BY <2>1, ModUnique
  <2>3. QED BY <1>1, <2>1, <2>2 DEF r
<1>4. QED BY <1>1, <1>2, <1>3

-----------------------------------------------------------------------------
(* pickEntry.  A target that has been there all the time lies ahead of the *)
(* search.                                                                 *)

PickRecords == [pc : {"idle", "scan", "found", "none"}, targets : Seq(Targets), at : Nat,
                left : Nat, steady : SUBSET Targets]

PickTypeOK ==
    /\ connects \in Seq(Targets) /\ up \in SUBSET Targets /\ rr \in Nat
    /\ pick \in [Picks -> PickRecords]

\* Every steady target is among the x.left places that are still to be searched.
Ahead(x) ==
    \A i \in 1 .. Len(x.targets) : x.targets[i] \in x.steady =>
        \E k \in 0 .. x.left - 1 : i = 1 + ((x.at + k) % Len(x.targets))

PickOK(x) ==
    /\ x.steady \in SUBSET up
    /\ x.pc = "idle" => x.targets = <<>>
    /\ x.pc = "scan" => Len(x.targets) > 0 /\ x.left \in 1 .. Len(x.targets) /\ Ahead(x)
    /\ x.pc = "none" => ToSet(x.targets) \cap x.steady = {}

PickInv == PickTypeOK /\ \A p \in Picks : PickOK(pick[p])

\* A search over n targets meets all of them.
LEMMA BeginKeepsPick ==
    ASSUME PickInv, NEW p \in Picks, BeginPick(p)
    PROVE  PickInv'
<1> DEFINE n == Len(connects)
<1>1. n \in Nat /\ connects \in Seq(Targets) /\ up \in SUBSET Targets /\ rr \in Nat
      /\ pick[p] \in PickRecords /\ pick[p].pc = "idle" /\ UNCHANGED <<connects, up>>
  BY DEF PickInv, PickTypeOK, BeginPick
<1>2. CASE n = 0
  <2>1. pick' = [pick EXCEPT ![p].pc = "none"] /\ rr' = rr
    BY <1>2 DEF BeginPick
  <2>2. pick[p].targets = <<>>
    BY <1>1 DEF PickInv, PickOK
  <2>3. ToSet(<<>>) = {}
    BY DEF ToSet
  <2>4. /\ pick'[p] \in PickRecords /\ pick'[p].pc = "none" /\ pick'[p].targets = <<>>
        /\ pick'[p].steady = pick[p].steady
        /\ \A q \in Picks : q # p => pick'[q] = pick[q]
    BY <1>1, <2>1, <2>2 DEF PickInv, PickTypeOK, PickRecords
  <2>5. PickTypeOK'
    BY <1>1, <2>1, <2>4 DEF PickInv, PickTypeOK
  <2>6. \A q \in Picks : PickOK(pick[q])'
    BY <1>1, <2>3, <2>4 DEF PickInv, PickOK, Ahead
  <2>7. QED BY <2>5, <2>6 DEF PickInv
<1>3. CASE n # 0
  <2> DEFINE x == [pc |-> "scan", targets |-> connects, at |-> rr + 1, left |-> n, steady |-> up]
  <2>1. rr' = rr + 1 /\ pick' = [pick EXCEPT ![p] = x]
    BY <1>3 DEF BeginPick
  <2>2. x \in PickRecords
    BY <1>1 DEF PickRecords
  <2>3. Ahead(x)
    <3> SUFFICES ASSUME NEW i \in 1 .. n
                 PROVE  \E k \in 0 .. n - 1 : i = 1 + (((rr + 1) + k) % n)
      BY DEF Ahead
    <3>1. n \in Nat \ {0} /\ rr + 1 \in Nat /\ i - 1 \in 0 .. n - 1
      BY <1>1, <1>3
    <3> HIDE DEF n
    <3>2. PICK k \in 0 .. n - 1 : ((rr + 1) + k) % n = i - 1
      BY <3>1, ModHits
    <3>3. QED BY <3>1, <3>2
  <2>4. /\ pick'[p] = x /\ \A q \in Picks : q # p => pick'[q] = pick[q]
    BY <2>1 DEF PickInv, PickTypeOK
  <2>5. PickTypeOK'
    BY <1>1, <2>1, <2>2 DEF PickInv, PickTypeOK
  <2>6. x.pc = "scan" /\ x.targets = connects /\ x.left = n /\ x.steady = up
    OBVIOUS
  <2> HIDE DEF x
  <2>7. \A q \in Picks : PickOK(pick[q])'
    <3> SUFFICES ASSUME NEW q \in Picks PROVE PickOK(pick[q])'
      OBVIOUS
    <3>1. CASE q # p
      BY <1>1, <2>4, <3>1 DEF PickInv, PickOK, Ahead
    <3>2. CASE q = p
      <4>1. PickOK(pick[p])' <=>
               /\ x.steady \in SUBSET up'
               /\ x.pc = "idle" => x.targets = <<>>
               /\ x.pc = "scan" => /\ Len(x.targets) > 0 /\ x.left \in 1 .. Len(x.targets)
                                  /\ Ahead(x)
               /\ x.pc = "none" => ToSet(x.targets) \cap x.steady = {}
        BY <2>4 DEF PickOK, Ahead
      <4>2. QED
        BY <1>1, <1>3, <2>3, <2>6, <3>2, <4>1
    <3>3. QED BY <3>1, <3>2
  <2>8. QED BY <2>5, <2>7 DEF PickInv
<1>4. QED BY <1>2, <1>3

\* A look-up that fails passes a target that is not steady.
LEMMA ScanKeepsPick ==
    ASSUME PickInv, NEW p \in Picks, Scan(p)
    PROVE  PickInv'
<1> DEFINE x == pick[p]
           n == Len(x.targets)
           t == x.targets[1 + (x.at % n)]
           y == pick'[p]
<1>1. /\ x \in PickRecords /\ x.pc = "scan" /\ n \in Nat \ {0} /\ x.left \in 1 .. n /\ Ahead(x)
      /\ x.steady \in SUBSET up /\ x.at \in Nat /\ UNCHANGED <<connects, up, rr>>
  BY DEF PickInv, PickTypeOK, PickOK, Scan, PickRecords
<1>2. /\ pick' = [pick EXCEPT ![p].at = @ + 1, ![p].left = @ - 1,
                              ![p].pc = CASE t \in up -> "found"
                                          [] t \notin up /\ x.left = 1 -> "none"
                                          [] OTHER -> "scan"]
  BY DEF Scan
<1>3. /\ y = [x EXCEPT !.at = @ + 1, !.left = @ - 1,
                       !.pc = CASE t \in up -> "found"
                                [] t \notin up /\ x.left = 1 -> "none"
                                [] OTHER -> "scan"]
      /\ \A q \in Picks : q # p => pick'[q] = pick[q]
  BY <1>2 DEF PickInv, PickTypeOK
<1>4. /\ y.targets = x.targets /\ y.steady = x.steady /\ y.at = x.at + 1 /\ y.left = x.left - 1
      /\ y.pc \in {"found", "none", "scan"} /\ y \in PickRecords
      /\ y.pc = "found" <=> t \in up
      /\ y.pc = "none" => x.left = 1
      /\ y.pc = "scan" => x.left # 1
  <2> DEFINE z == CASE t \in up -> "found" [] t \notin up /\ x.left = 1 -> "none"
                    [] OTHER -> "scan"
  <2>1. /\ z \in {"found", "none", "scan"}
        /\ z = "found" <=> t \in up
        /\ z = "none" => x.left = 1
        /\ z = "scan" => x.left # 1
    OBVIOUS
  <2> HIDE DEF z
  <2>2. y = [x EXCEPT !.at = @ + 1, !.left = @ - 1, !.pc = z]
    BY <1>3 DEF z
  <2> HIDE DEF y, t
  <2>3. /\ y.targets = x.targets /\ y.steady = x.steady /\ y.at = x.at + 1
        /\ y.left = x.left - 1 /\ y.pc = z
    BY <1>1, <2>2 DEF PickRecords
  <2>4. y \in PickRecords
    <3>1. x.at + 1 \in Nat /\ x.left - 1 \in Nat
      BY <1>1
    <3>2. QED BY <1>1, <2>1, <2>2, <3>1 DEF PickRecords
  <2>5. QED BY <2>1, <2>3, <2>4
<1>5. PickTypeOK'
  BY <1>1, <1>2, <1>3, <1>4 DEF PickInv, PickTypeOK
<1> HIDE DEF x, y, n, t
<1>6. ASSUME t \notin up, NEW i \in 1 .. n, x.targets[i] \in x.steady
      PROVE  \E k \in 1 .. x.left - 1 : i = 1 + ((x.at + k) % n)
  <2>1. PICK k \in 0 .. x.left - 1 : i = 1 + ((x.at + k) % n)
    BY <1>1, <1>6 DEF Ahead, n
  <2>2. CASE k = 0
    <3>1. x.at + k = x.at
      BY <1>1, <2>2
    <3>2. x.targets[i] = t
      BY <2>1, <3>1 DEF t
    <3>3. QED BY <1>1, <1>6, <3>2
  <2>3. CASE k # 0
    BY <1>1, <2>1, <2>3
  <2>4. QED BY <2>2, <2>3
<1>7. y.pc = "scan" => y.left \in 1 .. n /\ Ahead(y)
  <2> SUFFICES ASSUME y.pc = "scan" PROVE y.left \in 1 .. n /\ Ahead(y)
    OBVIOUS
  <2>1. y.left \in 1 .. n
    BY <1>1, <1>4
  <2>2. ASSUME NEW i \in 1 .. n, x.targets[i] \in x.steady
        PROVE  \E k \in 0 .. y.left - 1 : i = 1 + ((y.at + k) % n)
    <3>1. PICK k \in 1 .. x.left - 1 : i = 1 + ((x.at + k) % n)
      BY <1>4, <1>6, <2>2
    <3>2. k - 1 \in 0 .. y.left - 1 /\ y.at + (k - 1) = x.at + k
      BY <1>1, <1>4, <3>1
    <3>3. QED BY <3>1, <3>2
  <2>3. Ahead(y)
    BY <2>2, <1>4 DEF Ahead, n
  <2>4. QED BY <2>1, <2>3
<1>8. y.pc = "none" => ToSet(y.targets) \cap y.steady = {}
  <2> SUFFICES ASSUME y.pc = "none", NEW i \in 1 .. n, x.targets[i] \in x.steady PROVE FALSE
    <3>1. DOMAIN x.targets = 1 .. n
      BY <1>1 DEF PickRecords, n
    <3>2. QED BY <1>4, <3>1 DEF ToSet
  <2>1. QED
    BY <1>1, <1>4, <1>6
<1>9. PickOK(pick[p])'
  <2>1. PickOK(pick[p])' <=>
           /\ y.steady \in SUBSET up'
           /\ y.pc = "idle" => y.targets = <<>>
           /\ y.pc = "scan" => Len(y.targets) > 0 /\ y.left \in 1 .. Len(y.targets) /\ Ahead(y)
           /\ y.pc = "none" => ToSet(y.targets) \cap y.steady = {}
    BY DEF PickOK, y, Ahead
  <2>2. Len(y.targets) = n
    BY <1>4 DEF n
  <2>3. QED
    BY <1>1, <1>4, <1>7, <1>8, <2>1, <2>2
<1>10. \A q \in Picks : q # p => PickOK(pick[q])'
  BY <1>1, <1>3 DEF PickInv, PickOK, Ahead
<1>11. QED BY <1>5, <1>9, <1>10 DEF PickInv

\* Rules and streams that come and go.
LEMMA TableKeepsPick ==
    ASSUME PickInv,
           \/ \E t \in Targets : AddConnect(t) \/ StreamUp(t) \/ StreamDown(t)
           \/ \E i \in DOMAIN connects : RemoveConnect(i)
    PROVE  PickInv'
<1>1. ASSUME NEW t \in Targets, AddConnect(t) PROVE PickInv'
  BY <1>1 DEF AddConnect, PickInv, PickTypeOK, PickOK, Ahead
<1>2. ASSUME NEW t \in Targets, StreamUp(t) PROVE PickInv'
  BY <1>2 DEF StreamUp, PickInv, PickTypeOK, PickOK, Ahead
<1>3. ASSUME NEW t \in Targets, StreamDown(t) PROVE PickInv'
  <2>1. UNCHANGED <<connects, rr>> /\ up' = up \ {t}
    BY <1>3 DEF StreamDown
  <2>2. \A p \in Picks :
           /\ pick'[p] \in PickRecords /\ pick'[p].steady = pick[p].steady \ {t}
           /\ pick'[p].pc = pick[p].pc /\ pick'[p].targets = pick[p].targets
           /\ pick'[p].at = pick[p].at /\ pick'[p].left = pick[p].left
    <3> SUFFICES ASSUME NEW p \in Picks
                 PROVE  /\ pick'[p] \in PickRecords /\ pick'[p].steady = pick[p].steady \ {t}
                        /\ pick'[p].pc = pick[p].pc /\ pick'[p].targets = pick[p].targets
                        /\ pick'[p].at = pick[p].at /\ pick'[p].left = pick[p].left
      OBVIOUS
    <3>1. pick[p] \in PickRecords
      BY DEF PickInv, PickTypeOK
    <3>2. pick'[p] = [pick[p] EXCEPT !.steady = @ \ {t}]
      BY <1>3 DEF StreamDown
    <3>3. QED
      BY <3>1, <3>2 DEF PickRecords
  <2>3. PickTypeOK'
    <3>1. pick' = [p \in Picks |-> pick'[p]]
      BY <1>3 DEF StreamDown
    <3>2. QED
      BY <2>1, <2>2, <3>1 DEF PickInv, PickTypeOK
  <2>4. ASSUME NEW p \in Picks PROVE PickOK(pick[p])'
    BY <2>1, <2>2, SMTT(30) DEF PickInv, PickOK, Ahead
  <2>5. QED BY <2>3, <2>4 DEF PickInv
<1>4. ASSUME NEW i \in DOMAIN connects, RemoveConnect(i) PROVE PickInv'
  <2>1. connects \in Seq(Targets) /\ i \in 1 .. Len(connects)
    BY <1>4 DEF PickInv, PickTypeOK
  <2>2. SubSeq(connects, 1, i - 1) \in Seq(Targets)
        /\ SubSeq(connects, i + 1, Len(connects)) \in Seq(Targets)
    BY <2>1
  <2>3. RemoveAt(connects, i) \in Seq(Targets)
    BY <2>2 DEF RemoveAt
  <2>4. QED
    BY <1>4, <2>3 DEF RemoveConnect, PickInv, PickTypeOK, PickOK, Ahead
<1>5. QED BY <1>1, <1>2, <1>3, <1>4

\* pickEntry misses no stream that was registered all the time it searched,
\* wherever the shared counter sends it and however ConnectTable changes.
THEOREM PicksFind == Spec => []PickFinds
<1>1. Init => PickInv
  <2> SUFFICES ASSUME Init PROVE PickInv
    OBVIOUS
  <2>1. PICK T \in SUBSET Targets : connects = SetToSeq(T)
    BY DEF Init, RoutesInit
  <2>2. IsFiniteSet(T) /\ IsFiniteSet(Targets)
    BY RoutesAssumption, FS_Subset DEF RoutesAssumption
  <2>3. Cardinality(T) \in Nat /\ Cardinality(Targets) \in Nat
    BY <2>2, FS_CardinalityType
  <2>4. \E f \in [1 .. Cardinality(T) -> T] : IsInjective(f)
    BY <2>2, FS_CardinalityType DEF ExistsBijection, Bijection, Injection
  <2>5. connects \in [1 .. Cardinality(T) -> T]
    BY <2>1, <2>4 DEF SetToSeq
  <2>6. connects \in Seq(Targets) /\ rr \in Nat
    BY <2>3, <2>5 DEF Init, RoutesInit
  <2>7. /\ up = {} /\ pick = [p \in Picks |-> NoPick]
    BY DEF Init, RoutesInit
  <2>8. NoPick \in PickRecords
    BY DEF NoPick, PickRecords
  <2>9. QED
    BY <2>6, <2>7, <2>8 DEF PickInv, PickTypeOK, PickOK, NoPick
<1>2. PickInv /\ [Next]_vars => PickInv'
  <2>1. ASSUME PickInv, UNCHANGED connectVars PROVE PickInv'
    BY <2>1 DEF connectVars, PickInv, PickTypeOK, PickOK, Ahead
  <2>2. ASSUME PickInv, ConnectNext PROVE PickInv'
    BY <2>2, BeginKeepsPick, ScanKeepsPick, TableKeepsPick DEF ConnectNext
  <2>3. RouterNext => UNCHANGED connectVars
    BY DEF RouterNext, AddRule, RemoveRule, Match
  <2>4. QED
    BY <2>1, <2>2, <2>3 DEF Next, vars, routeVars
<1>3. PickInv => PickFinds
  BY DEF PickInv, PickOK, PickFinds
<1>4. QED
  BY <1>1, <1>2, <1>3, PTL DEF Spec
-----------------------------------------------------------------------------
(* Router.  The cursor of a rule that has given a stream points behind it. *)

\* A rule that is not in the table has not given anything.
RouterInv ==
    /\ rules \in Seq(Rules)
    /\ turn \in [Rules -> Nat]
    /\ \A i, j \in 1 .. Len(rules) : rules[i] = rules[j] => i = j
    /\ \A u \in Rules : (\A i \in 1 .. Len(rules) : rules[i] # u) => turn[u] = 0
    /\ \A j \in DOMAIN cursors : cursors[j] \in Nat
    /\ \A i \in 1 .. Len(rules) : turn[rules[i]] # 0 =>
          /\ turn[rules[i]] \in 1 .. rules[i].streams
          /\ i \in DOMAIN cursors /\ cursors[i] = turn[rules[i]] % rules[i].streams

\* A new rule comes last and has given nothing yet.
LEMMA AddKeepsRouter ==
    ASSUME RouterInv, NEW u \in Rules, AddRule(u)
    PROVE  RouterInv'
<1>1. rules' = Append(rules, u) /\ UNCHANGED <<cursors, turn>>
      /\ \A i \in 1 .. Len(rules) : rules[i] # u
  BY DEF AddRule, Contains
<1>2. /\ rules \in Seq(Rules) /\ rules' \in Seq(Rules) /\ Len(rules') = Len(rules) + 1
      /\ \A i \in 1 .. Len(rules) : rules'[i] = rules[i] /\ i \in 1 .. Len(rules')
      /\ rules'[Len(rules) + 1] = u
      /\ \A i \in 1 .. Len(rules') : i \in 1 .. Len(rules) \/ i = Len(rules) + 1
      /\ Len(rules) \in Nat
  BY <1>1 DEF RouterInv
<1>3. turn[u] = 0
  BY <1>1 DEF RouterInv
<1>4. \A i, j \in 1 .. Len(rules') : rules'[i] = rules'[j] => i = j
  BY <1>1, <1>2 DEF RouterInv
<1>5. \A v \in Rules : (\A i \in 1 .. Len(rules') : rules'[i] # v) => turn'[v] = 0
  BY <1>1, <1>2 DEF RouterInv
<1>6. \A i \in 1 .. Len(rules') : turn'[rules'[i]] # 0 =>
          /\ turn'[rules'[i]] \in 1 .. rules'[i].streams
          /\ i \in DOMAIN cursors' /\ cursors'[i] = turn'[rules'[i]] % rules'[i].streams
  BY <1>1, <1>2, <1>3 DEF RouterInv
<1>7. QED
  BY <1>1, <1>2, <1>4, <1>5, <1>6 DEF RouterInv

\* The rules before a removed one keep their places and cursors, the others start
\* anew.
LEMMA RemoveKeepsRouter ==
    ASSUME RouterInv, NEW k \in DOMAIN rules, RemoveRule(k)
    PROVE  RouterInv'
<1>1. /\ rules' = SubSeq(rules, 1, k - 1) \o SubSeq(rules, k + 1, Len(rules))
      /\ cursors' = [j \in DOMAIN cursors \ {k} |-> cursors[j]]
      /\ turn' = [u \in Rules |-> IF u \in ToSet(SubSeq(rules, 1, k - 1)) THEN turn[u] ELSE 0]
  BY DEF RemoveRule, RemoveAt
<1>2. rules \in Seq(Rules) /\ Len(rules) \in Nat /\ k \in 1 .. Len(rules)
  BY DEF RouterInv
<1> DEFINE A == SubSeq(rules, 1, k - 1)
           B == SubSeq(rules, k + 1, Len(rules))
<1>3. /\ A \in Seq(Rules) /\ Len(A) = k - 1 /\ \A i \in 1 .. k - 1 : A[i] = rules[i]
      /\ B \in Seq(Rules) /\ Len(B) = Len(rules) - k
      /\ \A i \in 1 .. Len(rules) - k : B[i] = rules[k + i]
      /\ rules' = A \o B
  BY <1>1, <1>2
<1>a. ToSet(A) = {rules[i] : i \in 1 .. k - 1}
  <2>1. DOMAIN A = 1 .. k - 1
    BY <1>2, <1>3
  <2>2. QED BY <1>3, <2>1 DEF ToSet
<1>b. turn' = [u \in Rules |-> IF u \in ToSet(A) THEN turn[u] ELSE 0]
  BY <1>1
<1> HIDE DEF A, B
<1>4. rules' \in Seq(Rules) /\ Len(rules') = Len(rules) - 1
  BY <1>2, <1>3
<1>5. /\ \A i \in 1 .. k - 1 : rules'[i] = rules[i]
      /\ \A i \in k .. Len(rules) - 1 : rules'[i] = rules[i + 1]
  <2>1. ASSUME NEW i \in 1 .. k - 1 PROVE rules'[i] = rules[i]
    BY <1>2, <1>3
  <2>2. ASSUME NEW i \in k .. Len(rules) - 1 PROVE rules'[i] = rules[i + 1]
    <3>1. i - (k - 1) \in 1 .. Len(rules) - k /\ k + (i - (k - 1)) = i + 1
      BY <1>2
    <3>a. i \in 1 .. Len(A) + Len(B) /\ i > Len(A)
      BY <1>2, <1>3
    <3>2. (A \o B)[i] = B[i - Len(A)]
      <4>1. (A \o B)[i] = IF i <= Len(A) THEN A[i] ELSE B[i - Len(A)]
        BY <1>3, <3>a, ConcatProperties
      <4>2. QED BY <1>2, <1>3, <3>a, <4>1
    <3>3. QED BY <1>3, <3>1, <3>2
  <2>3. QED BY <2>1, <2>2
<1>6. turn' = [u \in Rules |-> IF \E i \in 1 .. k - 1 : rules[i] = u THEN turn[u] ELSE 0]
  BY <1>a, <1>b
<1>7. \A i \in 1 .. Len(rules') : i \in 1 .. k - 1 \/ i \in k .. Len(rules) - 1
  BY <1>2, <1>4
<1>8. \A i \in 1 .. k - 1 : i \in 1 .. Len(rules) /\ i \in 1 .. Len(rules') /\ i # k
  BY <1>2, <1>4
<1>9. \A i \in k .. Len(rules) - 1 : i + 1 \in 1 .. Len(rules) /\ i + 1 \notin 1 .. k - 1
  BY <1>2
<1>10. turn' \in [Rules -> Nat]
  BY <1>6 DEF RouterInv
<1>11. \A i \in 1 .. k - 1 : turn'[rules'[i]] = turn[rules[i]]
  BY <1>2, <1>5, <1>6, <1>8
<1>12. \A i \in k .. Len(rules) - 1 : turn'[rules'[i]] = 0
  <2> SUFFICES ASSUME NEW i \in k .. Len(rules) - 1 PROVE turn'[rules'[i]] = 0
    OBVIOUS
  <2>1. rules'[i] = rules[i + 1] /\ rules[i + 1] \in Rules
    BY <1>2, <1>5, <1>9
  <2>2. ~ \E j \in 1 .. k - 1 : rules[j] = rules[i + 1]
    BY <1>8, <1>9 DEF RouterInv
  <2>3. QED BY <1>6, <2>1, <2>2
<1>13. \A i, j \in 1 .. Len(rules') : rules'[i] = rules'[j] => i = j
  <2> SUFFICES ASSUME NEW i \in 1 .. Len(rules'), NEW j \in 1 .. Len(rules'),
                      rules'[i] = rules'[j]
               PROVE  i = j
    OBVIOUS
  <2>1. PICK a \in 1 .. Len(rules) :
           rules'[i] = rules[a] /\ ((i < k /\ a = i) \/ (i >= k /\ a = i + 1))
    BY <1>2, <1>5, <1>7, <1>8, <1>9
  <2>2. PICK b \in 1 .. Len(rules) :
           rules'[j] = rules[b] /\ ((j < k /\ b = j) \/ (j >= k /\ b = j + 1))
    BY <1>2, <1>5, <1>7, <1>8, <1>9
  <2>3. a = b
    BY <2>1, <2>2 DEF RouterInv
  <2>4. QED BY <2>1, <2>2, <2>3, <1>2
<1>14. \A u \in Rules : (\A i \in 1 .. Len(rules') : rules'[i] # u) => turn'[u] = 0
  BY <1>5, <1>6, <1>8
<1>15. \A j \in DOMAIN cursors' : cursors'[j] \in Nat
  BY <1>1 DEF RouterInv
<1>16. \A i \in 1 .. Len(rules') : turn'[rules'[i]] # 0 =>
          /\ turn'[rules'[i]] \in 1 .. rules'[i].streams
          /\ i \in DOMAIN cursors' /\ cursors'[i] = turn'[rules'[i]] % rules'[i].streams
  BY <1>1, <1>5, <1>7, <1>8, <1>11, <1>12, ZenonT(60) DEF RouterInv
<1>17. QED
  BY <1>4, <1>10, <1>13, <1>14, <1>15, <1>16 DEF RouterInv

\* What a match leaves behind.
LEMMA MatchFacts ==
    ASSUME RoutesAssumption, RouterInv, NEW i \in DOMAIN rules, NEW m, Match(i, m)
    PROVE  /\ i \in 1 .. Len(rules) /\ rules[i] \in Rules
           /\ rules[i].streams \in Nat \ {0} /\ Cursor(i) \in Nat
           /\ rules' = rules
           /\ turn' = [turn EXCEPT ![rules[i]] = 1 + (Cursor(i) % rules[i].streams)]
           /\ cursors' = [j \in DOMAIN cursors \cup {i} |->
                             IF j = i THEN (Cursor(i) + 1) % rules[i].streams ELSE cursors[j]]
<1>1. i \in 1 .. Len(rules) /\ rules[i] \in Rules
  BY DEF RouterInv
<1>2. Cursor(i) \in Nat
  BY DEF RouterInv, Cursor
<1>3. QED
  BY <1>1, <1>2, RoutesAssumption DEF RoutesAssumption, Match

\* A match moves the cursor behind the stream it gave, also from a cursor that
\* belonged to a rule with more streams.
LEMMA MatchKeepsRouter ==
    ASSUME RoutesAssumption, RouterInv, NEW k \in DOMAIN rules, NEW m, Match(k, m)
    PROVE  RouterInv'
<1> DEFINE n == rules[k].streams
           v == Cursor(k)
<1>1. /\ k \in 1 .. Len(rules) /\ rules[k] \in Rules /\ n \in Nat \ {0} /\ v \in Nat
      /\ rules' = rules /\ turn' = [turn EXCEPT ![rules[k]] = 1 + (v % n)]
      /\ cursors' = [j \in DOMAIN cursors \cup {k} |-> IF j = k THEN (v + 1) % n ELSE cursors[j]]
  BY RoutesAssumption, MatchFacts
<1> HIDE DEF n, v
<1>2. v % n \in 0 .. n - 1 /\ (v + 1) % n \in 0 .. n - 1 /\ (v + 1) % n = (1 + (v % n)) % n
  <2>1. v + 1 \in Nat
    BY <1>1
  <2>2. QED BY <1>1, <2>1, ModFacts, ModSucc
<1>3. 1 + (v % n) \in 1 .. n /\ 1 + (v % n) \in Nat /\ (v + 1) % n \in Nat
  BY <1>1, <1>2
<1>4. turn' \in [Rules -> Nat] /\ turn'[rules[k]] = 1 + (v % n)
      /\ \A u \in Rules : u # rules[k] => turn'[u] = turn[u]
  BY <1>1, <1>3 DEF RouterInv
<1>5. cursors'[k] = (v + 1) % n /\ \A j \in DOMAIN cursors : j \in DOMAIN cursors' /\
         (j # k => cursors'[j] = cursors[j])
  BY <1>1
<1>6. \A j \in DOMAIN cursors' : cursors'[j] \in Nat
  BY <1>1, <1>3 DEF RouterInv
<1>7. \A i \in 1 .. Len(rules) : turn'[rules[i]] # 0 =>
          /\ turn'[rules[i]] \in 1 .. rules[i].streams
          /\ i \in DOMAIN cursors' /\ cursors'[i] = turn'[rules[i]] % rules[i].streams
  <2> SUFFICES ASSUME NEW i \in 1 .. Len(rules), turn'[rules[i]] # 0
               PROVE  /\ turn'[rules[i]] \in 1 .. rules[i].streams
                      /\ i \in DOMAIN cursors'
                      /\ cursors'[i] = turn'[rules[i]] % rules[i].streams
    OBVIOUS
  <2>1. CASE i = k
    <3>1. rules[i].streams = n /\ k \in DOMAIN cursors'
      BY <1>1, <2>1 DEF n
    <3>2. QED BY <1>2, <1>3, <1>4, <1>5, <2>1, <3>1
  <2>2. CASE i # k
    <3>1. rules[i] \in Rules /\ rules[i] # rules[k]
      BY <1>1, <2>2 DEF RouterInv
    <3>2. turn'[rules[i]] = turn[rules[i]]
      BY <1>4, <3>1
    <3>3. QED
      BY <1>5, <2>2, <3>2 DEF RouterInv
  <2>3. QED BY <2>1, <2>2
<1>8. \A u \in Rules : (\A i \in 1 .. Len(rules) : rules[i] # u) => turn'[u] = 0
  BY <1>1, <1>4 DEF RouterInv
<1>9. QED
  BY <1>1, <1>4, <1>6, <1>7, <1>8, ZenonT(60) DEF RouterInv

\* Router.Match gives the streams of a rule in turn; a rule that lost its place
\* starts anew.
THEOREM RoutesInTurn == Spec => RoundRobin
<1>1. Init => RouterInv
  BY DEF Init, RoutesInit, RouterInv
<1>2. RouterInv /\ [Next]_vars => RouterInv'
  <2>1. ASSUME RouterInv, UNCHANGED routerVars PROVE RouterInv'
    BY <2>1 DEF routerVars, RouterInv
  <2>2. ASSUME RouterInv, RouterNext PROVE RouterInv'
    BY <2>2, RoutesAssumption, AddKeepsRouter, RemoveKeepsRouter, MatchKeepsRouter
    DEF RouterNext
  <2>3. ConnectNext => UNCHANGED routerVars
    BY DEF ConnectNext, AddConnect, StreamUp, StreamDown, RemoveConnect, BeginPick, Scan
  <2>4. QED
    BY <2>1, <2>2, <2>3 DEF Next, vars, routeVars
<1>3. RouterInv =>
         [\A i \in DOMAIN rules, m \in Metas :
             Match(i, m) /\ turn[rules[i]] # 0
                => turn'[rules[i]] = 1 + (turn[rules[i]] % rules[i].streams)]_routeVars
  <2> SUFFICES ASSUME RouterInv, NEW i \in DOMAIN rules, NEW m \in Metas, Match(i, m),
                      turn[rules[i]] # 0
               PROVE  turn'[rules[i]] = 1 + (turn[rules[i]] % rules[i].streams)
    OBVIOUS
  <2>1. /\ i \in 1 .. Len(rules) /\ rules[i] \in Rules /\ rules[i].streams \in Nat \ {0}
        /\ turn' = [turn EXCEPT ![rules[i]] = 1 + (Cursor(i) % rules[i].streams)]
    BY RoutesAssumption, MatchFacts
  <2>2. turn'[rules[i]] = 1 + (Cursor(i) % rules[i].streams)
    BY <2>1 DEF RouterInv
  <2>3. Cursor(i) = turn[rules[i]] % rules[i].streams /\ turn[rules[i]] \in Nat
    BY <2>1 DEF RouterInv, Cursor
  <2>4. Cursor(i) \in 0 .. rules[i].streams - 1
    BY <2>1, <2>3, ModFacts
  <2>5. Cursor(i) % rules[i].streams = Cursor(i)
    BY <2>1, <2>4, ModIdem
  <2>6. QED
    BY <2>2, <2>3, <2>5
<1>4. QED
  BY <1>1, <1>2, <1>3, PTL DEF Spec, RoundRobin
=============================================================================
