---------------------------- MODULE MCLifecycle -----------------------------
(* Small instances of Lifecycle: the configurations differ in what makes a *)
(* start fail, and share addresses so that a leaked socket is in the way.  *)
EXTENDS Lifecycle

CONSTANTS a1, a2

In(name, handler, transport, addr, plugins) ==
    [name |-> name, handler |-> handler, transport |-> transport, addr |-> addr,
     plugins |-> plugins, codec |-> TRUE]

Conf(ingress) ==
    [legacy |-> FALSE, services |-> 1, ingress |-> ingress, routes |-> {}, dialers |-> {}]

Admin == In("admin", "admin", "tcp", a2, {})
Socks == In("socks", "chain", "tcp", a1, {"socks5"})

\* An admin server, which is made last, and a frame server.
Good == Conf(<<Admin, Socks>>)
Invalid == [Good EXCEPT !.routes = {"d"}]
NoPlugin == Conf(<<In("x", "chain", "tcp", a1, {"absent"})>>)
NoTransport == Conf(<<In("x", "chain", "carrier", a1, {"socks5"})>>)
\* The second server cannot be bound, the first one stays bound.
Clash == Conf(<<In("p", "", "tcp", a1, {}), In("q", "star", "tcp", a1, {})>>)
Datagram == Conf(<<In("u", "chain", "udp", a1, {"socks5"}), In("d", "dns", "tcp", a1, {})>>)
NilServer == Conf(<<In("x", "chain", "tcp", a1, {})>>)
ProxyUdp == Conf(<<In("x", "", "udp", a1, {}),
                   [In("y", "", "tcp", a2, {}) EXCEPT !.codec = FALSE]>>)

AllConfigs == {Good, Invalid, NoPlugin, NoTransport, Clash, Datagram, NilServer, ProxyUdp}
StartConfigs == {Good, Invalid, NoTransport}
TwoAddrs == {a1, a2}
CompiledIn == {"socks5"}
Registered == {"tcp"}
=============================================================================
