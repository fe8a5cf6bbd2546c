------------------------------ MODULE MCProxies ------------------------------
EXTENDS Proxies

Config(on, rest) == [enabled |-> TRUE, on |-> on, invalid |-> FALSE, disabled |-> FALSE, fakeSNI |-> TRUE, rest |-> rest]

Works == [t \in {"kws", "kws-1", "worker", "custom", "tcp", "tcp6"} \cup Domains |-> {"ok"}]

Base == [kind |-> "mt", mode |-> "auto", dc |-> "edge", v6 |-> FALSE, worker |-> FALSE, custom |-> FALSE, cf |-> FALSE, relay |-> FALSE, net |-> Works,
         target |-> 1, limit |-> 2, idle |-> FALSE, failOpen |-> TRUE, portBusy |-> FALSE, udp |-> "none", datagrams |-> 0,
         proto |-> "abridged", stream |-> <<>>, packets |-> <<>>, first |-> Config({"s1", "s2"}, 0), configs |-> {},
         left |-> [updates |-> 0, conns |-> 1, endings |-> 2]]

\* Reloads, restarts and a busy port against one handshake.
Reloading ==
    [Base EXCEPT !.mode = "tcp", !.portBusy = TRUE, !.left = [updates |-> 2, conns |-> 1, endings |-> 0],
        !.configs = {Config({"s1"}, 0), Config({"s2"}, 1), [Config({}, 0) EXCEPT !.invalid = TRUE],
                     [Config({}, 1) EXCEPT !.disabled = TRUE], [Config({"s1"}, 1) EXCEPT !.enabled = FALSE],
                     Config({}, 1)}]

\* Two clients, an edge that answers with redirects, a pool and a restart.
Fallback ==
    [Base EXCEPT !.custom = TRUE, !.cf = TRUE, !.left = [updates |-> 0, conns |-> 2, endings |-> 0],
        !.first = Config({"s1"}, 0),
        !.net = [Works EXCEPT !["kws"] = {"redirect"}, !["kws-1"] = {"redirect", "slow"}, !["custom"] = {"redirect"},
                              !["cf1"] = {"redirect", "limited"}, !["cf2"] = {"redirect"}, !["tcp"] = {"ok", "reset"}]]

\* Data centres without an edge: one with two addresses, one that does not exist.
Elsewhere ==
    {[Base EXCEPT !.dc = dc, !.v6 = TRUE, !.custom = TRUE, !.worker = TRUE, !.left = [updates |-> 0, conns |-> 2, endings |-> 0],
        !.first = Config({"s1"}, 0),
        !.net = [Works EXCEPT !["worker"] = {"timeout"}, !["custom"] = {"redirect", "timeout"},
                              !["tcp6"] = {"timeout", "reset"}, !["tcp"] = {"ok", "timeout"}]] : dc \in {"listed", "unknown"}}

\* The pool through a restart.
Pooling ==
    [Base EXCEPT !.target = 2, !.mode = "ws", !.left = [updates |-> 1, conns |-> 1, endings |-> 0], !.idle = TRUE, !.first = Config({"s1"}, 0),
        !.configs = {Config({"s1"}, 1)}, !.net = [Works EXCEPT !["kws"] = {"ok", "timeout"}]]

\* Two clients of the bridge at once, or one that may leave, fall silent or be left.
Bridging ==
    {[Base EXCEPT !.kind = "bridge", !.worker = TRUE, !.cf = TRUE, !.idle = TRUE,
        !.net = [Works EXCEPT !["worker"] = {"timeout", "ok"}, !["cf1"] = {"limited"}, !["cf2"] = {"ok", "timeout"}, !["tcp"] = {"timeout"}],
        !.left = [updates |-> 0, conns |-> n, endings |-> 4 - 2 * n]] : n \in {1, 2}}

\* Packets of one word, an extended length, and a zero length that ends cutting.
Splitting ==
    [Base EXCEPT !.kind = "bridge", !.custom = TRUE, !.stream = <<1, 9, 9, 9, 9, 127, 1, 0, 0, 9, 9, 9, 9, 0, 5>>,
        !.packets = <<<<1, 9, 9, 9, 9>>, <<127, 1, 0, 0, 9, 9, 9, 9>>>>]

\* The same with a length of four bytes, whose top bit is no part of it.
SplittingLong ==
    [Splitting EXCEPT !.proto = "intermediate", !.stream = <<2, 0, 0, 128, 9, 9, 1, 0, 0, 0, 9, 0, 0, 0, 0, 5>>,
        !.packets = <<<<2, 0, 0, 128, 9, 9>>, <<1, 0, 0, 0, 9>>>>]

Halves == {[Base EXCEPT !.kind = k, !.failOpen = f, !.left = [updates |-> 0, conns |-> 2, endings |-> 2]] :
               k \in {"tproxy", "socks5"}, f \in BOOLEAN}

\* Datagrams through the listener, and through an association while it ends.
Datagrams ==
    {[Base EXCEPT !.kind = k, !.udp = k, !.datagrams = 2,
                  !.left = [updates |-> 0, conns |-> IF k = "socks5" THEN 1 ELSE 0, endings |-> 1]] : k \in {"tproxy", "socks5"}}

MCSettings == {Reloading, Fallback, Pooling, Splitting, SplittingLong} \cup Bridging \cup Elsewhere \cup Halves \cup Datagrams

=============================================================================
