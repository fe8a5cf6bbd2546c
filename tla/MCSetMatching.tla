---------------------------- MODULE MCSetMatching ----------------------------
EXTENDS SetMatching

MCParentsOf == [a |-> <<"a", "site">>, b |-> <<"b", "site">>, c |-> <<"c">>]

AnyPort == [tcp |-> {}, udp |-> {}]

Base == [id |-> "s", enabled |-> TRUE, domains |-> {}, regexes |-> {}, nets |-> {}, macs |-> {}, exclude |-> FALSE,
         tls |-> None, ver |-> None, ports |-> AnyPort, domainOnly |-> FALSE, route |-> None, dns |-> FALSE,
         duplicate |-> FALSE, plain |-> FALSE, to |-> None]

MCSets ==
    [phone   |-> [Base EXCEPT !.id = "phone", !.domains = {"a"}, !.macs = {"m1"}, !.route = "proxy", !.dns = TRUE],
     off     |-> [Base EXCEPT !.id = "phone", !.domains = {"a"}, !.macs = {"m1"}, !.enabled = FALSE],
     blocked |-> [Base EXCEPT !.id = "phone", !.domains = {"a"}, !.route = "block"],
     others  |-> [Base EXCEPT !.id = "others", !.domains = {"site"}, !.macs = {"m1"}, !.exclude = TRUE, !.tls = "1.3"],
     wide    |-> [Base EXCEPT !.id = "wide", !.domains = {"site", "a"}, !.plain = TRUE, !.to = "phone",
                              !.nets = {[len |-> 16, ips |-> {"i1", "i2"}]}],
     pattern |-> [Base EXCEPT !.id = "pattern", !.regexes = {{"c"}}, !.ver = "6", !.route = "interface"],
     same    |-> [Base EXCEPT !.id = "same", !.regexes = {{"c"}}, !.macs = {"m2"}, !.duplicate = TRUE,
                              !.nets = {[len |-> 32, ips |-> {"i2"}]}],
     names   |-> [Base EXCEPT !.id = "names", !.domains = {"b"}, !.domainOnly = TRUE, !.route = "proxy"],
     known   |-> [Base EXCEPT !.id = "names", !.domains = {"b"}, !.route = "proxy"],
     ports   |-> [Base EXCEPT !.id = "ports", !.ports = [tcp |-> {443}, udp |-> {443}], !.macs = {"m2"}]]

Filter(e, b, m) == [enabled |-> e, black |-> b, macs |-> m]

MCStartup == [sets |-> <<"phone", "others", "wide", "names", "ports">>, devices |-> Filter(TRUE, FALSE, {"m1"})]

MCConfigs ==
    {MCStartup,
     [sets |-> <<"off", "wide", "pattern", "same">>, devices |-> Filter(TRUE, TRUE, {"m1", "m2"})],
     [sets |-> <<"blocked", "others", "known">>, devices |-> Filter(FALSE, TRUE, {"m1"})],
     [sets |-> MCStartup.sets, devices |-> Filter(TRUE, FALSE, {})]}

P(proto, mac, ip, host, tls, port) ==
    [proto |-> proto, mac |-> mac, ip |-> ip, host |-> host, tls |-> tls, ver |-> "4", port |-> port,
     data |-> host # None]

\* ClientHellos, other segments (without and with data), datagrams, queries and answers.
MCPackets ==
    {P("tcp", m, "i1", "a", "1.2", 443) : m \in {"m1", "m2", None}}
    \cup {P("tcp", m, "i1", "b", "1.2", 443) : m \in {"m1", "m2"}}
    \cup {P("tcp", m, "i2", "c", "1.2", 443) : m \in {"m1", "m2"}}
    \cup {[P("tcp", "m2", "i1", None, None, 443) EXCEPT !.data = d] : d \in BOOLEAN}
    \cup {P("udp", m, "i1", h, None, 443) : m \in {"m1", "m2"}, h \in {None, "a"}}
    \cup {P("udp", "m2", "i3", h, None, 443) : h \in {None, "a"}}
    \cup {P(d, "m1", "i1", h, None, 53) : d \in {"query", "answer"}, h \in {"a", "c"}}

=============================================================================
