------------------------------- MODULE Routes -------------------------------
(***************************************************************************)
(* The two route tables.  ConnectTable holds the rules of a proxy          *)
(* listener; pickEntry walks over a copy of them, starting at a counter    *)
(* shared by all connections, and takes the first rule whose stream is     *)
(* registered.  Router holds rules that each choose among their own        *)
(* streams.                                                                *)
(*                                                                         *)
(*   src/internal/star/starserver/connecttable.go  (ConnectTable)          *)
(*   src/internal/star/starserver/proxy_server.go  (pickEntry)             *)
(*   src/internal/router/router.go                 (Router)                *)
(***************************************************************************)
EXTENDS Naturals, Sequences, SequencesExt

CONSTANTS Targets,   \* connect rules of one proxy listener
          Picks,     \* bound: the calls of pickEntry, numbered as they come
          Rules,     \* rules of Router, [streams, meets]
          Metas      \* what connections look like; a rule meets some of them

ASSUME RoutesAssumption ==
    /\ IsFiniteSet(Targets) /\ Picks \subseteq Nat
    /\ \A u \in Rules : u.streams \in Nat \ {0} /\ u.meets \subseteq Metas

VARIABLES connects,  \* ConnectTable.rules of the listener
          up,        \* the targets whose stream is registered (module Registry)
          rr,        \* ProxyServer.rr
          pick,      \* per call of pickEntry: its copy of the rules and its place
          rules,     \* Router.rules
          cursors,   \* Router.cursors
          turn       \* per rule: the stream it gave last, 0 if it is to start anew

connectVars == <<connects, up, rr, pick>>
routerVars == <<rules, cursors, turn>>
routeVars == <<connectVars, routerVars>>

NoPick == [pc |-> "idle", targets |-> <<>>, at |-> 0, left |-> 0, steady |-> {}]

\* The listener has made some picks already.
RoutesInit ==
    /\ connects \in {SetToSeq(T) : T \in SUBSET Targets}
    /\ up = {} /\ rr \in 0 .. Cardinality(Targets) - 1
    /\ pick = [p \in Picks |-> NoPick]
    /\ rules = <<>> /\ cursors = [i \in {} |-> 0] /\ turn = [u \in Rules |-> 0]

-----------------------------------------------------------------------------
(* ConnectTable and pickEntry *)

AddConnect(t) ==
    /\ ~Contains(connects, t)
    /\ connects' = Append(connects, t)
    /\ UNCHANGED <<up, rr, pick, routerVars>>

RemoveConnect(i) ==
    /\ i \in DOMAIN connects
    /\ connects' = RemoveAt(connects, i)
    /\ UNCHANGED <<up, rr, pick, routerVars>>

StreamUp(t) ==
    /\ up' = up \cup {t}
    /\ UNCHANGED <<connects, rr, pick, routerVars>>

StreamDown(t) ==
    /\ t \in up /\ up' = up \ {t}
    /\ pick' = [p \in Picks |-> [pick[p] EXCEPT !.steady = @ \ {t}]]
    /\ UNCHANGED <<connects, rr, routerVars>>

\* For gives a copy, rr one more; without rules there is no stream.
BeginPick(p) ==
    /\ pick[p].pc = "idle" /\ \A q \in Picks : q < p => pick[q].pc # "idle"
    /\ LET n == Len(connects)
       IN  IF n = 0
           THEN /\ pick' = [pick EXCEPT ![p].pc = "none"]
                /\ UNCHANGED rr
           ELSE /\ rr' = rr + 1
                /\ pick' = [pick EXCEPT ![p] = [pc |-> "scan", targets |-> connects,
                                                at |-> rr', left |-> n, steady |-> up]]
    /\ UNCHANGED <<connects, up, routerVars>>

\* One look-up in the stream table.  Mutant: the first miss ends the search.
Scan_GivesUp(p) ==
    /\ pick[p].pc = "scan"
    /\ LET t == pick[p].targets[1 + (pick[p].at % Len(pick[p].targets))]
       IN  pick' = [pick EXCEPT ![p].pc = IF t \in up THEN "found" ELSE "none"]
    /\ UNCHANGED <<connects, up, rr, routerVars>>

Scan(p) ==
    /\ pick[p].pc = "scan"
    /\ LET t == pick[p].targets[1 + (pick[p].at % Len(pick[p].targets))]
       IN  pick' = [pick EXCEPT ![p].at = @ + 1, ![p].left = @ - 1,
                                ![p].pc = CASE t \in up -> "found"
                                            [] t \notin up /\ pick[p].left = 1 -> "none"
                                            [] OTHER -> "scan"]
    /\ UNCHANGED <<connects, up, rr, routerVars>>

ConnectNext ==
    \/ \E t \in Targets : AddConnect(t) \/ StreamUp(t) \/ StreamDown(t)
    \/ \E i \in DOMAIN connects : RemoveConnect(i)
    \/ \E p \in Picks : BeginPick(p) \/ Scan(p)

-----------------------------------------------------------------------------
(* Router *)

\* Mutant: the new rule goes to the front.
AddRule_Front(u) ==
    /\ ~Contains(rules, u)
    /\ rules' = <<u>> \o rules
    /\ UNCHANGED <<cursors, turn, connectVars>>

AddRule(u) ==
    /\ ~Contains(rules, u)
    /\ rules' = Append(rules, u)
    /\ UNCHANGED <<cursors, turn, connectVars>>

\* The rules behind the removed one move up, their cursors do not.
RemoveRule(i) ==
    /\ i \in DOMAIN rules
    /\ rules' = RemoveAt(rules, i)
    /\ cursors' = [j \in DOMAIN cursors \ {i} |-> cursors[j]]
    /\ turn' = [u \in Rules |-> IF u \in ToSet(SubSeq(rules, 1, i - 1)) THEN turn[u] ELSE 0]
    /\ UNCHANGED connectVars

Cursor(i) == IF i \in DOMAIN cursors THEN cursors[i] ELSE 0

\* The first rule that meets the connection gives its next stream.
Match(i, m) ==
    /\ i \in DOMAIN rules /\ m \in rules[i].meets
    /\ \A j \in 1 .. i - 1 : m \notin rules[j].meets
    /\ LET n == rules[i].streams
       IN  /\ turn' = [turn EXCEPT ![rules[i]] = 1 + (Cursor(i) % n)]
           /\ cursors' = [j \in DOMAIN cursors \cup {i} |->
                             IF j = i THEN (Cursor(i) + 1) % n ELSE cursors[j]]
    /\ UNCHANGED <<rules, connectVars>>

RouterNext ==
    \/ \E u \in Rules : AddRule(u)
    \/ \E i \in DOMAIN rules : RemoveRule(i) \/ \E m \in Metas : Match(i, m)

-----------------------------------------------------------------------------
\* A pick comes out empty only if the stream of every rule it has copied was
\* missing at some moment of the pick, however rules and streams come and go.
PickFinds ==
    \A p \in Picks : pick[p].pc = "none" => ToSet(pick[p].targets) \cap pick[p].steady = {}

\* A rule of Router gives its streams in turn, as long as no rule before it is
\* removed: cursors belong to positions, not to rules.
RoundRobin ==
    [][\A i \in DOMAIN rules, m \in Metas :
          Match(i, m) /\ turn[rules[i]] # 0
             => turn'[rules[i]] = 1 + (turn[rules[i]] % rules[i].streams)]_routeVars
=============================================================================
