-------------------------------- MODULE Admin -------------------------------
(***************************************************************************)
(* Credentials and kicks through the admin API.  Every request runs in a   *)
(* goroutine of its own and walks over all ctrl listeners; a listener is   *)
(* locked for one step of that walk only.                                  *)
(*                                                                         *)
(*   src/internal/star/starserver/admin_server.go  (the handlers)          *)
(*   src/internal/handler/star/ctrlproxy.go        (creds, Kick)           *)
(*                                                                         *)
(* A session is what matters to Kick: where it stands between the reading  *)
(* of the credentials and the clients map (module Registry has the rest).  *)
(***************************************************************************)
EXTENDS Naturals

CONSTANTS Reqs,      \* bound: the requests ever made, numbered as they come
          NCtrls,    \* ctrl listeners
          Creds,     \* clientProxy entries, [name, stream]
          Sessions   \* bound: the ctrl sessions ever opened

Ctrls == 1 .. NCtrls
Names == {k.name : k \in Creds}

ASSUME AdminAssumption == NCtrls \in Nat \ {0} /\ Reqs \subseteq Nat

VARIABLES req,       \* per request: what it is and how far it has come
          creds,     \* per ctrl listener: settings.ClientProxy
          sess,      \* per session: at which listener, with which name
          revoked,   \* names whose credentials are gone and whose kick is answered
          escaped    \* sessions that a kick was too early for

adminVars == <<req, creds, sess, revoked, escaped>>

NoReq == [op |-> "none", name |-> "", stream |-> "", kick |-> FALSE,
          i |-> 0, pc |-> "idle", hit |-> FALSE, clean |-> FALSE]
NoSess == [st |-> "new", at |-> 0, name |-> ""]

AdminInit ==
    /\ req = [r \in Reqs |-> NoReq]
    /\ creds = [c \in Ctrls |-> Creds]
    /\ sess = [s \in Sessions |-> NoSess]
    /\ revoked = {} /\ escaped = {}

Entry(r) == [name |-> req[r].name, stream |-> req[r].stream]
HasCred(n, cr) == \E c \in Ctrls : \E k \in cr[c] : k.name = n

-----------------------------------------------------------------------------
(* Requests *)

Begin(r, q) ==
    /\ req[r].pc = "idle" /\ \A x \in Reqs : x < r => req[x].pc # "idle"
    /\ req' = [req EXCEPT ![r] = q]
    /\ UNCHANGED <<creds, sess, revoked, escaped>>

BeginChange(r, op, k, kick) ==
    Begin(r, [NoReq EXCEPT !.op = op, !.name = k.name, !.stream = k.stream,
                           !.kick = kick, !.i = 1, !.pc = "loop"])

\* POST /api/tunnel/kick
BeginKick(r, n) ==
    Begin(r, [NoReq EXCEPT !.op = "kick", !.name = n, !.i = 1, !.pc = "kick"])

\* AddClientProxy at one listener; a kick under way is no longer the last word.
Added(r, c, pc) ==
    /\ creds' = [creds EXCEPT ![c] = @ \cup {Entry(r)}]
    /\ revoked' = revoked \ {req[r].name}
    /\ req' = [q \in Reqs |->
                  IF q = r THEN [req[r] EXCEPT !.i = c + 1, !.pc = pc,
                                               !.hit = @ \/ Entry(r) \notin creds[c]]
                  ELSE [req[q] EXCEPT !.clean = @ /\ req[q].name # req[r].name]]
    /\ UNCHANGED <<sess, escaped>>

\* handleAddClientProxy: one listener after the other.
AddStep(r) ==
    /\ req[r].op = "add" /\ req[r].pc = "loop"
    /\ LET c == req[r].i
       IN  Added(r, c, IF c = NCtrls THEN "done" ELSE "loop")

\* handleDeleteClientProxy: the same, then the kick, if something was removed.
DeleteStep(r) ==
    /\ req[r].op = "delete" /\ req[r].pc = "loop"
    /\ LET c == req[r].i
           hit == req[r].hit \/ Entry(r) \in creds[c]
           kicks == c = NCtrls /\ hit /\ req[r].kick
       IN  /\ creds' = [creds EXCEPT ![c] = @ \ {Entry(r)}]
           /\ req' = [req EXCEPT ![r].hit = hit,
                                 ![r].i = IF c = NCtrls THEN 1 ELSE c + 1,
                                 ![r].clean = kicks /\ ~HasCred(req[r].name, creds'),
                                 ![r].pc = CASE c < NCtrls -> "loop"
                                             [] kicks -> "kick"
                                             [] OTHER -> "done"]
    /\ UNCHANGED <<sess, revoked, escaped>>

\* CtrlProxyServer.Kick: the sessions of a name that are among the clients.
\* Mutant: the kick is over after the first listener.
Kicked(r, c) == {s \in Sessions : sess[s] = [st |-> "live", at |-> c, name |-> req[r].name]}

KickStep_First(r) ==
    /\ req[r].pc = "kick"
    /\ LET c == req[r].i
       IN  /\ sess' = [s \in Sessions |->
                          IF s \in Kicked(r, c) THEN [sess[s] EXCEPT !.st = "ended"] ELSE sess[s]]
           /\ escaped' = escaped \cup {s \in Sessions : sess[s].st = "auth" /\ sess[s].at = c}
           /\ req' = [req EXCEPT ![r].i = c + 1, ![r].pc = "done"]
           /\ revoked' = IF req[r].clean THEN revoked \cup {req[r].name} ELSE revoked
    /\ UNCHANGED creds

KickStep(r) ==
    /\ req[r].pc = "kick"
    /\ LET c == req[r].i
       IN  /\ sess' = [s \in Sessions |->
                          IF s \in Kicked(r, c) THEN [sess[s] EXCEPT !.st = "ended"] ELSE sess[s]]
           /\ escaped' = escaped \cup {s \in Sessions : sess[s].st = "auth" /\ sess[s].at = c}
           /\ req' = [req EXCEPT ![r].i = c + 1,
                                 ![r].pc = IF c = NCtrls THEN "done" ELSE "kick"]
           /\ revoked' = IF c = NCtrls /\ req[r].clean
                         THEN revoked \cup {req[r].name} ELSE revoked
    /\ UNCHANGED creds

-----------------------------------------------------------------------------
(* CtrlProxyServer.handleConn, as far as Kick is concerned *)

\* The snapshot of the credentials settles whether the name is accepted.
Connect(s, c, n) ==
    /\ sess[s].st = "new"
    /\ \E k \in creds[c] : k.name = n
    /\ sess' = [sess EXCEPT ![s] = [st |-> "auth", at |-> c, name |-> n]]
    /\ UNCHANGED <<req, creds, revoked, escaped>>

Enter(s) ==
    /\ sess[s].st = "auth"
    /\ sess' = [sess EXCEPT ![s].st = "live"]
    /\ UNCHANGED <<req, creds, revoked, escaped>>

AdminNext ==
    \/ \E r \in Reqs :
          \/ \E k \in Creds : \/ BeginChange(r, "add", k, FALSE)
                              \/ \E kick \in BOOLEAN : BeginChange(r, "delete", k, kick)
          \/ \E n \in Names : BeginKick(r, n)
          \/ AddStep(r) \/ DeleteStep(r) \/ KickStep(r)
    \/ \E s \in Sessions : Enter(s) \/ \E c \in Ctrls, n \in Names : Connect(s, c, n)

-----------------------------------------------------------------------------
\* When a delete with kick=1 has removed the last credential of a name and has
\* been answered, no session of the name is alive, whatever other requests do,
\* except those that had read the credentials and were not yet in the clients
\* map when Kick looked there.
RevokedIsOut ==
    \A s \in Sessions : sess[s].st = "live" /\ sess[s].name \in revoked => s \in escaped
=============================================================================
