------------------------------ MODULE MCTunnel ------------------------------
(* Small instances of Tunnel.  Window and queue sizes are in chunks; what  *)
(* matters is how they compare: a window that is smaller than what is sent *)
(* makes credit return necessary, queues of one place make every hand-over *)
(* block, and a queue may be smaller or larger than the window.            *)
EXTENDS Tunnel

OneConn == {1}
TwoConns == {1, 2}
NoConns == {}
FirstConn == {1}

\* Chunks per connection.
UpTo1 == [c \in Conns |-> 1]
UpTo3 == [c \in Conns |-> 3]
TwoAndOne == [c \in Conns |-> IF c = 1 THEN 2 ELSE 1]
FastAnswers == [c \in Conns |-> IF c = 1 THEN 0 ELSE 1]
Nothing == [c \in Conns |-> 0]

\* Environment events.
AllEvents == EventKinds
NoEvents == {}
OnlyDrop == {"drop"}
=============================================================================
