-------------------------------- MODULE Zones -------------------------------
(***************************************************************************)
(* The zones of the DNS handler, replaced through the admin API and then   *)
(* persisted in the file store.                                            *)
(*                                                                         *)
(*   src/internal/handler/dns/dns.go   (RegisterAPI, replaceAll, Zones)    *)
(***************************************************************************)
EXTENDS Store

CONSTANTS Puts,     \* bound: the PUT requests ever made, numbered as they come
          Normal    \* what normalizeZones makes of a value

Initial == CHOOSE v \in Values : TRUE   \* the zones of the configuration

ASSUME ZonesAssumption == DOMAIN Normal = Values /\ Puts \subseteq Nat

VARIABLES put,      \* per request: its value, how far it has come, its descriptor
          zones,    \* Handler.zones
          lost,     \* the zones have changed since the last Put that went well
          shared    \* two requests were under way at once

zoneVars == <<storeVars, put, zones, lost, shared>>

NoPut == [val |-> Nothing, pc |-> "idle", fd |-> 0]

ZonesInit ==
    /\ StoreInit
    /\ put = [p \in Puts |-> NoPut]
    /\ zones = Normal[Initial] /\ lost = TRUE
    /\ shared = FALSE

NoPuts == \A p \in Puts : put[p].pc \in {"idle", "done"}

\* PUT: replaceAll comes first.  The value that is stored is the one that came.
PutZones(p, v) ==
    /\ put[p].pc = "idle" /\ \A q \in Puts : q < p => put[q].pc # "idle"
    /\ put' = [put EXCEPT ![p] = [NoPut EXCEPT !.val = v, !.pc = "open"]]
    /\ zones' = Normal[v] /\ lost' = TRUE
    /\ shared' = (shared \/ ~NoPuts)
    /\ UNCHANGED storeVars

Open(p) ==
    /\ put[p].pc = "open"
    /\ \E fd \in Inodes : /\ OpenTmp(fd, {put[q].fd : q \in Puts})
                          /\ put' = [put EXCEPT ![p].pc = "write", ![p].fd = fd]
    /\ UNCHANGED <<zones, lost, shared>>

Write(p) ==
    /\ put[p].pc = "write"
    /\ WriteTmp(put[p].fd, put[p].val)
    /\ put' = [put EXCEPT ![p].pc = "rename", ![p].fd = 0]
    /\ UNCHANGED <<zones, lost, shared>>

\* The error of Put is not looked at.
WriteError(p) ==
    /\ put[p].pc = "write"
    /\ WriteFails(put[p].fd)
    /\ put' = [put EXCEPT ![p].pc = "done", ![p].fd = 0]
    /\ UNCHANGED <<zones, lost, shared>>

Rename(p) ==
    /\ put[p].pc = "rename"
    /\ RenameTmp
    /\ put' = [put EXCEPT ![p].pc = "done"]
    /\ lost' = FALSE
    /\ UNCHANGED <<zones, shared>>

\* The process ends and starts again: the zones are those of the configuration,
\* nothing reads the file back.
Restart ==
    /\ zones' = Normal[Initial] /\ lost' = TRUE
    /\ put' = [p \in Puts |-> [put[p] EXCEPT !.pc = IF @ = "idle" THEN @ ELSE "done", !.fd = 0]]
    /\ watch' = "start" /\ last' = 0 /\ seen' = Nothing /\ fresh' = FALSE
    /\ UNCHANGED <<names, inodes, shared>>

Watching == WatchNext /\ UNCHANGED <<put, zones, lost, shared>>

ZonesNext ==
    \/ \E p \in Puts : \/ \E v \in Values : PutZones(p, v)
                       \/ Open(p) \/ Write(p) \/ WriteError(p) \/ Rename(p)
    \/ Restart \/ Watching

-----------------------------------------------------------------------------
\* Get never reads half a value, whatever write fails and whenever the process
\* dies, unless two Puts of the key have shared the temporary file.
NeverTorn == Stored \in Values \cup {Nothing} \/ shared

\* A PUT that is answered and whose Put went well leaves in the file what is
\* served from memory, also after earlier writes that failed half way, unless
\* two requests have run into each other.
Persisted ==
    NoPuts /\ ~shared /\ ~lost => Stored \in Values /\ Normal[Stored] = zones

\* A value that stays in the file is reported by Watch in the end, if the file
\* was replaced after the baseline and every change has moved its time on.
WatchReports ==
    \A v \in Values : <>[](Stored = v /\ fresh /\ ~sameTick) => <>[](seen = v)
=============================================================================
