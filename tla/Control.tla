------------------------------- MODULE Control ------------------------------
(***************************************************************************)
(* The control plane: credentials (Admin), DNS zones and their file        *)
(* (Zones, Store) and routes (Routes).  These parts share no state, only   *)
(* the HTTP server; a behaviour of this module is about one of them.       *)
(***************************************************************************)
EXTENDS Admin, Zones, Routes

CONSTANTS Parts   \* the parts of this instance

ASSUME ControlAssumption == Parts \subseteq {"admin", "zones", "connect", "router"}

VARIABLE part     \* the part that this behaviour is about

vars == <<adminVars, zoneVars, routeVars, part>>

Init ==
    /\ part \in Parts
    /\ AdminInit /\ ZonesInit /\ RoutesInit
    /\ part # "connect" => connects = <<>> /\ rr = 0

Next ==
    \/ part = "admin" /\ AdminNext /\ UNCHANGED <<zoneVars, routeVars, part>>
    \/ part = "zones" /\ ZonesNext /\ UNCHANGED <<adminVars, routeVars, part>>
    \/ part = "connect" /\ ConnectNext /\ UNCHANGED <<adminVars, zoneVars, part>>
    \/ part = "router" /\ RouterNext /\ UNCHANGED <<adminVars, zoneVars, part>>

Spec == Init /\ [][Next]_vars

\* The ticker of Watch goes on.
Ticking == part = "zones" /\ Watching /\ UNCHANGED <<adminVars, routeVars, part>>

TypeOK ==
    /\ StoreTypeOK
    /\ creds \in [Ctrls -> SUBSET Creds]
    /\ \A r \in Reqs : req[r].i \in 0 .. NCtrls + 1
    /\ \A s \in Sessions : sess[s].st \in {"new", "auth", "live", "ended"}
    /\ \A p \in Puts : put[p].fd \in Inodes \cup {0}
    /\ connects \in Seq(Targets) /\ up \subseteq Targets /\ rr \in Nat
    /\ rules \in Seq(Rules) /\ \A i \in DOMAIN cursors : cursors[i] \in Nat
    /\ \A u \in Rules : turn[u] \in 0 .. u.streams
=============================================================================
