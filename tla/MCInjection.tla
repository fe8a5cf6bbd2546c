---------------------------- MODULE MCInjection ----------------------------
EXTENDS Injection

Mut(mode) == [mode |-> mode, fakes |-> <<"ya", "vk", "max">>, grease |-> 3, padding |-> 64,
              unknown |-> 5]

\* The default set with nothing switched on but the plain hello.
Base == [v6 |-> FALSE, mut |-> Mut("off"), desync |-> "off", count |-> 3, win |-> "off",
         values |-> 0, fakes |-> 1, strategy |-> "pastseq", seqOff |-> 10000, ttl |-> 7,
         fakeLen |-> 100, inverted |-> FALSE, stamps |-> TRUE, frag |-> "none", pool |-> {}, pos |-> 1,
         middle |-> TRUE, reverse |-> TRUE, tlsPos |-> 0, oob |-> 0, shuffle |-> "middle",
         decoy |-> FALSE, first |-> TRUE, ext |-> TRUE, ovl |-> 0, pattern |-> 0,
         perSeg |-> FALSE, perCount |-> 1, post |-> FALSE, synFake |-> FALSE, md5 |-> FALSE,
         inc |-> "off", incCount |-> 1, incTTL |-> 7, incStrategy |-> "badsum", udp |-> "off"]

Strategies == {"tcp", "ip", "oob", "tls", "disorder", "extsplit", "firstbyte", "combo",
               "hybrid", "none"}

\* Where a fake is just stopped, and where it is not any more.
Boundaries ==
    {[Base EXCEPT !.frag = "tcp", !.strategy = "ttl", !.ttl = t, !.md5 = TRUE] : t \in {0, 12, 13}}
    \cup {[Base EXCEPT !.frag = "oob", !.ttl = t] : t \in {0, 12, 13}}
    \cup {[Base EXCEPT !.frag = "tcp", !.seqOff = o] : o \in {0, 99, 100}}
    \cup {[Base EXCEPT !.frag = "tcp", !.strategy = "randseq", !.seqOff = o, !.v6 = v] : o \in {0, 1}, v \in BOOLEAN}
    \cup {[Base EXCEPT !.strategy = "tcp_check", !.fakes = n] : n \in {1, 2}}
    \cup {[Base EXCEPT !.strategy = "timestamp", !.stamps = FALSE], [Base EXCEPT !.strategy = "md5sum"]}
    \cup {[Base EXCEPT !.win = "oscillate", !.values = n] : n \in {11, 12}}
    \cup {[Base EXCEPT !.inc = "fake", !.incStrategy = st, !.incTTL = t] :
              st \in {"rand", "badseq"}, t \in {12, 13}}

\* Every strategy, in both families, with and without the name as the split
\* point and the overlap, every kind of fake, and every mutation.
MCSettings ==
    {[Base EXCEPT !.frag = f, !.v6 = v] : f \in Strategies, v \in BOOLEAN}
    \cup {[Base EXCEPT !.frag = f, !.middle = FALSE, !.reverse = FALSE, !.ovl = o, !.pattern = 4,
                       !.perSeg = TRUE, !.shuffle = "reverse"] :
              <<f, o>> \in {<<"tcp", 0>>, <<"ip", 0>>} \cup ({"disorder", "combo"} \X {0, 20})}
    \cup {[Base EXCEPT !.frag = "combo", !.ovl = 20, !.pattern = 4, !.middle = FALSE,
                       !.shuffle = "full"],
           [Base EXCEPT !.frag = "disorder", !.ovl = 20, !.pattern = 4]}
    \cup {[Base EXCEPT !.frag = "combo", !.decoy = TRUE, !.desync = d, !.win = w, !.post = TRUE,
                       !.synFake = TRUE, !.md5 = TRUE, !.shuffle = "reverse",
                       !.v6 = (d \in {"ack", "combo"} \/ w = "full")] :
              <<d, w>> \in {<<"rst", "zero">>, <<"fin", "random">>, <<"ack", "escalate">>,
                           <<"combo", "oscillate">>, <<"full", "zero">>, <<"full", "full">>}}
    \cup {[Base EXCEPT !.frag = "tcp", !.strategy = st, !.inverted = i, !.fakes = n] :
              st \in {"ttl", "pastseq", "randseq", "timestamp"}, i \in {TRUE}, n \in {2}}
    \cup {[Base EXCEPT !.frag = "oob", !.strategy = "tcp_check"]}
    \cup {[Base EXCEPT !.frag = "tls", !.inc = i, !.v6 = (i \in {"reset", "desync"})] :
              i \in {"fake", "reset", "fin", "desync"}}
    \cup {[Base EXCEPT !.frag = "combo", !.mut = Mut(m),
                       !.shuffle = "reverse", !.v6 = v] :
              v \in BOOLEAN,
              m \in {"duplicate", "grease", "padding", "reorder", "full", "advanced"}}
    \cup {[Base EXCEPT !.pool = {"tcp", "disorder"}, !.shuffle = "reverse"],
           [Base EXCEPT !.pool = {"tls", "combo"}, !.ovl = 20, !.pattern = 4, !.v6 = TRUE]}
    \cup Boundaries
    \cup {[Base EXCEPT !.udp = u, !.fakes = 2, !.reverse = r, !.v6 = v] :
              u \in {"none", "checksum"}, r \in BOOLEAN, v \in BOOLEAN}

Hello(exts, sid) ==
    LET n == 5 + 4 + 34 + 1 + sid + 2 + 4 + 1 + 1 + 2 + Bytes(exts)
    IN  [tls |-> TRUE, sid |-> sid, cs |-> 4, cm |-> 1, exts |-> exts, ext |-> Bytes(exts),
         rec |-> n - 5, body |-> n - 9, size |-> n]

Cut(h, n) == [h EXCEPT !.size = n]

\* A short name first, a long name last, no name, one that leaves no room, one
\* cut inside the name, a bare record header with nothing and with one byte behind it,
\* and bytes that are not TLS.
MCHellos ==
    LET short == Hello(<<ServerName("real", 7), Ext("groups", 8, NoName)>>, 0)
        long == Hello(<<Ext("groups", 8, NoName), Ext("alpn", 4, NoName),
                        ServerName("real", 40)>>, 32)
    IN  {short, long, Cut(long, 110), Cut(short, 5), Cut(short, 6), Hello(<<Ext("groups", 8, NoName)>>, 0),
         Hello(<<ServerName("real", 7), Ext("padding", 1300, NoName)>>, 0),
         [Cut(short, 3) EXCEPT !.tls = FALSE], [Cut(short, 1) EXCEPT !.tls = FALSE]}

MCDatagrams == {[size |-> 1200, quic |-> TRUE, name |-> 301, nameLen |-> 9],
                [size |-> 30, quic |-> TRUE, name |-> 0, nameLen |-> 0],
                [size |-> 9, quic |-> FALSE, name |-> 0, nameLen |-> 0]}

=============================================================================
