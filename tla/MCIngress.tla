----------------------------- MODULE MCIngress ------------------------------
(* Small instances of Ingress.  Channels of one place; two streams of one  *)
(* session; a configuration of the sniffer with an empty, a long and a     *)
(* short rule; a request with a Host line behind what the long rule reads, *)
(* and one without an end whose Host line begins where that rule stops.    *)
EXTENDS Ingress

AllKinds == {"kcp", "quic", "h2", "ws", "sniff"}
TwoConns == 1 .. 2
OneSession == [c \in TwoConns |-> "s"]

Rule(p, t) == [prefix |-> p, target |-> t]
Rules(ps) == [prefixes |-> ps, http |-> {<<7, 7, 7>>}, hosts |-> [h \in {"h"} |-> "star"],
              httpDefault |-> "", default |-> "tls"]
Long == Rule(<<1, 1, 1, 2>>, "star")
Brief == Rule(<<1, 1>>, "tls")
Vacant == Rule(<<>>, "star")
SomeConfigs == {Rules(<<Vacant, Long, Brief>>)}

Request(mark, stop) ==
    [bytes |-> [i \in 1 .. mark + 2 |-> 7], host |-> "h", mark |-> mark, stop |-> stop]
SomeContents == {[bytes |-> <<1, 1, 1, 2>>, host |-> "", mark |-> 0, stop |-> 0],
                 Request(5, 6), Request(4, 0)}
=============================================================================
