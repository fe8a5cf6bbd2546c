----------------------------- MODULE Injection -----------------------------
(***************************************************************************)
(* What b4 puts on the wire for one matched connection, and what the       *)
(* server's TCP makes of it. A matched packet is dropped and a goroutine   *)
(* sends its replacement: fakes, then the payload in pieces (package nfq,  *)
(* built with package sock). A retransmission starts a second goroutine    *)
(* beside the first. Positions count from the first payload byte.          *)
(*                                                                         *)
(* A packet covers [from, end): the bytes up to start are invented, the    *)
(* rest are the payload's own. Fakes have nothing of their own.            *)
(***************************************************************************)
EXTENDS ClientHello

CONSTANTS
    Settings,       \* the set configurations considered
    Hellos,         \* the client's first segments
    Datagrams,      \* the client's QUIC datagrams
    TcpHdr,         \* bytes of the TCP header (with options)
    RealTTL,        \* TTL of the client's packets
    Hops,           \* routers between b4 and the server
    Window,         \* the server's receive window
    MaxFaults       \* losses and reorderings in one behaviour

ASSUME Distance == 0 < Hops /\ Hops < RealTTL

VARIABLES
    cfg,            \* the set's configuration
    input,          \* the client's packet, as b4 gets it
    out,            \* per goroutine, what it has still to send and may arrive
    entire,         \* the goroutines whose payload packets were not lost
    want,           \* payload bytes of the (mutated) packet
    open,           \* the server has accepted the connection
    nxt,            \* next byte the server expects
    ofo,            \* segments the server holds ahead of nxt
    frags,          \* IP fragments waiting for reassembly
    got,            \* the messages whose bytes were delivered
    broken,         \* the server delivered invented bytes or closed early
    reached,        \* a fake got past the server's checks
    replied,        \* the server's answer went through b4
    crashed,        \* a goroutine of b4 has panicked, and the process with it
    again,          \* the client has retransmitted
    faults

vars == <<cfg, input, out, entire, want, open, nxt, ofo, frags, got, broken, reached, replied, crashed, again, faults>>

-----------------------------------------------------------------------------
(***************************************************************************)
(* Packets                                                                 *)
(***************************************************************************)

Packet(kind, from, start, end) ==
    [kind |-> kind, from |-> from, start |-> start, end |-> end,
     ttl |-> RealTTL, bad |-> FALSE, old |-> FALSE, more |-> FALSE]

\* A piece of the payload.
BuildSegmentV4(start, end) == Packet("data", start, start, end)

BuildSegmentV6(start, end) == BuildSegmentV4(start, end)

\* A packet with nothing real in it.
Fake(kind, from, len, ttl, bad) ==
    [Packet(kind, from, from + len, from + len) EXCEPT !.ttl = ttl, !.bad = bad]

\* The goroutine slices beyond the end of its packet.
Panic == Packet("panic", 0, 0, 0)

\* Mutant: only the clamp below the real TTL is left.
dynamicTTLClamped(ttl) == RealTTL - 1

\* The configured TTL, 5 when unset, and below that of the real packet.
dynamicTTL(ttl) ==
    LET wish == IF ttl = 0 THEN 5 ELSE ttl
        low == IF wish >= RealTTL /\ RealTTL > 1 THEN RealTTL - 1 ELSE wish
    IN  IF low < 1 THEN 1 ELSE low

\* uint8 arithmetic of the window fakes' decreasing TTL.
LowTTL(top, i) == LET t == (top - i) % 256 IN IF t < 1 THEN 1 ELSE t

\* The payload as the strategies see it.
View(m) == [len |-> m.size, tls |-> m.tls, sni |-> locateSNI(m),
            ext |-> findPreSNIExtensionPoint(m)]

Name(p) == CHOOSE s \in p.sni : TRUE

Whole(p) == <<BuildSegmentV4(0, p.len)>>

SendTwoSegmentsV4(a, b, c) == IF c.reverse THEN <<b, a>> ELSE <<a, b>>

SendTwoSegmentsV6(a, b, c) == SendTwoSegmentsV4(a, b, c)

\* Every order a shuffle may leave the segments in.
ShuffleSegments(segs, mode) ==
    LET n == Len(segs)
        orders(s) == {[i \in DOMAIN s |-> s[f[i]]] : f \in Permutations(DOMAIN s)}
    IN  CASE mode = "full" -> orders(segs)
          [] mode = "reverse" -> {Reverse(segs)}
          [] mode = "middle" -> IF n > 3
                                THEN {<<segs[1]>> \o mid \o <<segs[n]>> :
                                          mid \in orders(SubSeq(segs, 2, n - 1))}
                                ELSE {Reverse(segs)}
          [] OTHER -> {segs}

-----------------------------------------------------------------------------
(***************************************************************************)
(* Split points                                                            *)
(***************************************************************************)

uniqueSorted(points, max) == SetToSortSeq({s \in points : s > 0 /\ s < max}, <)

\* In order of discovery: start, middle and end of the name.
GetSNISplitPoints(p, c) ==
    IF c.middle /\ p.sni # {}
    THEN LET s == Name(p)[1]
             e == Name(p)[2]
         IN  IF e - s > 6 THEN <<s, s + (e - s) \div 2, e>> ELSE <<s, e>>
    ELSE <<>>

GetComboSplitPoints(p, c) ==
    LET s == Name(p)[1]
        n == Name(p)[2] - s
    IN  (IF c.first THEN {1} ELSE {})
        \cup (IF c.ext /\ p.ext > 1 /\ p.ext < p.len - 5 THEN {p.ext} ELSE {})
        \cup (IF c.middle /\ p.sni # {}
              THEN (IF s > 2 THEN {s - 1} ELSE {}) \cup {s + n \div 2}
                   \cup (IF n > 15 THEN {s + (n * 3) \div 4} ELSE {})
              ELSE {})

BuildValidSplits(points, len) ==
    <<0>> \o SelectSeq(points, LAMBDA s : s > 0 /\ s < len) \o <<len>>

\* Consecutive pieces between split points.
Pieces(splits) == [i \in 1..(Len(splits) - 1) |-> BuildSegmentV4(splits[i], splits[i + 1])]

\* Mutant: the sequence number is not moved back.
BuildSeqOverlapInPlace(seg, c) ==
    IF c.ovl <= 0 \/ c.pattern = 0 THEN seg
    ELSE [seg EXCEPT !.start = @ + c.ovl, !.end = @ + c.ovl]

\* The segment with invented bytes in front, moved back by as much.
BuildSeqOverlapSegmentV4(seg, c) ==
    IF c.ovl <= 0 \/ c.pattern = 0 THEN seg ELSE [seg EXCEPT !.from = seg.start - c.ovl]

\* As long as the segment it imitates, with a spoiled checksum.
BuildFakeOverlapSegmentV4(seg, c) ==
    Fake("data", seg.from, seg.end - seg.from, dynamicTTL(c.ttl), TRUE)

\* Every segment, the first one or all of them behind their fakes.
WithFakes(segs, c) ==
    LET count == IF c.perCount <= 0 THEN 1 ELSE Smaller(c.perCount, 11)
        Faked(i) == /\ c.perSeg \/ i = 1
                    /\ c.pattern > 0
                    /\ c.pattern <= segs[i].end - segs[i].from
    IN  FlattenSeq([i \in DOMAIN segs |->
            (IF Faked(i) THEN [k \in 1..count |-> BuildFakeOverlapSegmentV4(segs[i], c)]
                         ELSE <<>>) \o <<segs[i]>>])

-----------------------------------------------------------------------------
(***************************************************************************)
(* The strategies: each gives the sets of packet sequences it may send.    *)
(***************************************************************************)

\* Middle of the name, or near its end when it is long.
MiddlePoint(p) ==
    LET s == Name(p)[1]
        e == Name(p)[2]
    IN  IF e - s > 30 THEN e - 12 ELSE s + (e - s) \div 2

HasLongName(p, c) == c.middle /\ p.sni # {} /\ Name(p)[2] - Name(p)[1] >= 4

sendTCPFragments(p, c) ==
    LET valid1 == c.pos > 0 /\ c.pos < p.len
        found == IF HasLongName(p, c) THEN MiddlePoint(p) ELSE -1
        p2 == IF found >= p.len THEN p.len - 1 ELSE found
        valid2 == p2 > 0 /\ p2 < p.len /\ (~valid1 \/ p2 # c.pos)
        lone == CASE valid1 -> c.pos
                  [] ~valid1 /\ valid2 -> p2
                  [] OTHER -> IF 1 < p.len THEN 1 ELSE p2
        lo == Smaller(c.pos, p2)
        hi == c.pos + p2 - lo
        a == BuildSegmentV4(0, lo)
        b == BuildSegmentV4(lo, hi)
        d == BuildSegmentV4(hi, p.len)
    IN  CASE p.len <= 0 -> {Whole(p)}
          [] p.len > 0 /\ valid1 /\ valid2 -> {IF c.reverse THEN <<b, a, d>> ELSE <<a, b, d>>}
          [] OTHER -> {SendTwoSegmentsV4(BuildSegmentV4(0, lone), BuildSegmentV4(lone, p.len), c)}

sendTCPSegmentsv6(p, c) == sendTCPFragments(p, c)

\* Two fragments of an IP payload; the offset field counts units of 8 bytes.
Fragments(split, total) ==
    LET off == (split \div 8) * 8
    IN  <<[Packet("frag", 0, 0, split) EXCEPT !.more = TRUE],
          Packet("frag", off, off, off + total - split)>>

Up8(n) == ((n + 7) \div 8) * 8
Down8(n) == (n \div 8) * 8

\* Mutant: the split is not aligned.
IPv4FragmentUnaligned(split, total) ==
    IF total < 8 \/ split >= total THEN <<>> ELSE Fragments(split, total)

\* The split is rounded up, or down when that leaves nothing; none when short.
IPv4FragmentPacket(split, total) ==
    LET wish == IF Up8(split) < 8 THEN 8 ELSE Up8(split)
        at == IF wish >= total THEN Down8(total - 8) ELSE wish
    IN  IF total < 8 \/ at < 8 THEN <<>> ELSE Fragments(at, total)

IPv6FragmentPacket(split, total) ==
    LET at == IF Up8(split) >= total THEN total - 8 ELSE Up8(split)
    IN  IF total < 8 \/ at < 8 THEN <<>> ELSE Fragments(at, total)

IPSplit(p, c) == IF HasLongName(p, c) THEN MiddlePoint(p) ELSE c.pos

sendIPFragments(p, c) ==
    LET split == IPSplit(p, c)
        f == IPv4FragmentPacket(TcpHdr + split, TcpHdr + p.len)
    IN  IF p.len <= 0 \/ split <= 0 \/ split >= p.len \/ f = <<>>
        THEN {Whole(p)} ELSE {SendTwoSegmentsV4(f[1], f[2], c)}

\* Aligns before it fragments.
sendIPFragmentsv6(p, c) ==
    LET split == IPSplit(p, c)
        total == TcpHdr + p.len
        at == IF Up8(TcpHdr + split) >= total THEN Down8(total - 8) ELSE Up8(TcpHdr + split)
        f == IPv6FragmentPacket(at, total)
    IN  IF p.len <= 0 \/ split <= 0 \/ split >= p.len \/ at < 8 \/ f = <<>>
        THEN {Whole(p)} ELSE {SendTwoSegmentsV6(f[1], f[2], c)}

\* One urgent byte that must not reach the server between the two halves.
sendOOBFragments(p, c) ==
    LET wish == IF c.oob <= 0 THEN 1 ELSE c.oob
        named == IF c.middle /\ p.sni # {}
                 THEN Name(p)[1] + (Name(p)[2] - Name(p)[1]) \div 2 ELSE wish
        half == IF named >= p.len THEN p.len \div 2 ELSE named
        at == IF half <= 0 THEN 1 ELSE half
        urgent == Fake("data", at, 1, IF c.ttl = 0 THEN 3 ELSE c.ttl,
                       c.strategy \in {"tcp_check", "md5sum"})
        a == BuildSegmentV4(0, at)
        b == BuildSegmentV4(at, p.len)
    IN  IF p.len <= 0 THEN {Whole(p)}
        ELSE {IF c.reverse THEN <<b, urgent, a>> ELSE <<a, urgent, b>>}

sendOOBFragmentsV6(p, c) == sendOOBFragments(p, c)

\* The record header and one byte are taken for granted.
sendTLSFragments(p, c) ==
    LET wish == 5 + (IF c.tlsPos <= 0 THEN 1 ELSE c.tlsPos)
        half == IF wish >= p.len THEN p.len \div 2 ELSE wish
        at == IF half < 6 THEN 6 ELSE half
    IN  IF p.len < 5 \/ ~p.tls THEN {Whole(p)}
        ELSE IF at > p.len THEN {<<Panic>>}
        ELSE {SendTwoSegmentsV4(BuildSegmentV4(0, at), BuildSegmentV4(at, p.len), c)}

sendTLSFragmentsV6(p, c) == sendTLSFragments(p, c)

\* The second segment may carry the overlap, if something precedes it.
sendDisorderFragments(p, c) ==
    LET named == GetSNISplitPoints(p, c)
        points == IF named = <<>> THEN <<1, p.len \div 2, (p.len * 3) \div 4>> ELSE named
        plain == Pieces(BuildValidSplits(points, p.len))
        overlaps == /\ c.ovl > 0 /\ c.pattern > 0
                    /\ Len(plain) >= 2
                    /\ c.ovl < plain[2].start
        segs == IF overlaps THEN [plain EXCEPT ![2] = BuildSeqOverlapSegmentV4(@, c)] ELSE plain
    IN  IF p.len < 10 THEN {Whole(p)}
        ELSE {WithFakes(s, c) : s \in ShuffleSegments(segs, c.shuffle)}

sendDisorderFragmentsV6(p, c) == sendDisorderFragments(p, c)

\* A short-lived blob at the position of the payload, in two pieces.
sendDecoyPacket(c) ==
    LET len == Smaller(c.fakeLen, 680)
        Piece(from, to) == Fake("data", from, to - from, dynamicTTL(c.ttl), FALSE)
    IN  IF c.fakeLen < 3 THEN <<>> ELSE <<Piece(0, 2), Piece(2, len)>>

\* Segments with the overlap in front of the first.
sendComboFragments(p, c) ==
    LET points == uniqueSorted(GetComboSplitPoints(p, c), p.len)
        splits == IF points = <<>> THEN <<p.len \div 2>> ELSE points
        plain == Pieces(<<0>> \o splits \o <<p.len>>)
        segs == [plain EXCEPT ![1] = BuildSeqOverlapSegmentV4(@, c)]
    IN  IF p.len < 20 THEN {Whole(p)}
        ELSE {(IF c.decoy THEN sendDecoyPacket(c) ELSE <<>>) \o WithFakes(s, c) :
                  s \in ShuffleSegments(segs, c.shuffle)}

sendComboFragmentsV6(p, c) == sendComboFragments(p, c)

sendExtSplitFragments(p, c) ==
    CASE p.len < 50 -> {Whole(p)}
      [] p.len >= 50 /\ (p.ext <= 5 \/ p.ext >= p.len - 10) -> sendTCPFragments(p, c)
      [] OTHER -> {SendTwoSegmentsV4(BuildSegmentV4(0, p.ext), BuildSegmentV4(p.ext, p.len), c)}

sendExtSplitFragmentsV6(p, c) ==
    CASE p.len < 50 -> {Whole(p)}
      [] p.len >= 50 /\ (p.ext <= 5 \/ p.ext >= p.len - 10) -> sendTCPSegmentsv6(p, c)
      [] OTHER -> {SendTwoSegmentsV6(BuildSegmentV6(0, p.ext), BuildSegmentV6(p.ext, p.len), c)}

sendFirstByteDesync(p) ==
    IF p.len < 2 THEN {Whole(p)} ELSE {<<BuildSegmentV4(0, 1), BuildSegmentV4(1, p.len)>>}

sendFirstByteDesyncV6(p) ==
    IF p.len < 2 THEN {Whole(p)} ELSE {<<BuildSegmentV6(0, 1), BuildSegmentV6(1, p.len)>>}

sendHybridFragments(p, c) ==
    LET named == p.sni # {} /\ Name(p)[2] - Name(p)[1] > 6
    IN  CASE p.len < 10 -> {Whole(p)}
          [] p.len >= 10 /\ named /\ p.ext > 5 -> sendComboFragments(p, c)
          [] p.len >= 10 /\ named /\ p.ext <= 5 -> sendDisorderFragments(p, c)
          [] p.len >= 10 /\ ~named /\ p.ext > 5 -> sendExtSplitFragments(p, c)
          [] OTHER -> sendFirstByteDesync(p)

sendHybridFragmentsV6(p, c) == sendHybridFragments(p, c)

-----------------------------------------------------------------------------
(***************************************************************************)
(* Fakes                                                                   *)
(***************************************************************************)

FakeLen(len, c) == IF c.inverted THEN len ELSE c.fakeLen

\* A random sequence number is before, at or behind the next byte, or past the window.
Anywhere == {-9000, 0, 1, Window}

\* What the first fake hello of the sequence may be. Strategies without a case of their
\* own leave it as it is; so does "timestamp" without the option in the header.
BuildFakeSNIPacketV4(p, c) ==
    LET at == CASE c.strategy = "pastseq" -> {-(IF c.seqOff = 0 THEN 8192 ELSE c.seqOff)}
                [] c.strategy = "randseq" -> IF c.seqOff = 0 THEN Anywhere ELSE {-(c.seqOff + p.len)}
                [] OTHER -> {0}
        ttl == IF c.strategy = "ttl" THEN dynamicTTL(c.ttl) ELSE RealTTL
    IN  {[Fake("data", from, FakeLen(p.len, c), ttl, c.strategy = "tcp_check")
              EXCEPT !.old = (c.strategy = "timestamp" /\ c.stamps)] : from \in at}

BuildFakeSNIPacketV6(p, c) == BuildFakeSNIPacketV4(p, c)

\* The same fake again, each behind the one before it with its checksum
\* recomputed, except for the strategies that moved its sequence number.
FakeSequence(f, c) ==
    LET len == f.end - f.from
        Moved(i) == [f EXCEPT !.from = @ + (i - 1) * len, !.start = @ + (i - 1) * len,
                              !.end = @ + (i - 1) * len, !.bad = @ /\ i = 1]
    IN  IF c.fakes <= 0 THEN <<>>
        ELSE [i \in 1..c.fakes |-> IF c.strategy \in {"pastseq", "randseq"} THEN f ELSE Moved(i)]

sendFakeSNISequence(p, c) == {FakeSequence(f, c) : f \in BuildFakeSNIPacketV4(p, c)}

sendFakeSNISequencev6(p, c) == {FakeSequence(f, c) : f \in BuildFakeSNIPacketV6(p, c)}

Spoiled(kind, from, c) == Fake(kind, from, 0, dynamicTTL(c.ttl), TRUE)

sendDesyncRST(c, count) ==
    [i \in 1..count |-> Spoiled("rst", CASE i = 1 -> -10000 [] i = 2 -> 0 [] i = 3 -> 10000
                                         [] OTHER -> (i - 1) * 5000, c)]

sendDesyncRSTv6(c, count) == sendDesyncRST(c, count)

sendDesyncFIN(c, count) == [i \in 1..count |-> Spoiled("fin", -(50000 + (i - 1) * 10000), c)]

sendDesyncFINv6(c, count) == sendDesyncFIN(c, count)

\* At a random sequence number; the position shown is one of them.
sendDesyncACK(c, count) == [i \in 1..count |-> Spoiled("ack", i, c)]

sendDesyncACKv6(c, count) == sendDesyncACK(c, count)

sendDesyncCombo(c) == sendDesyncRST(c, 1) \o sendDesyncFIN(c, 1) \o sendDesyncACK(c, 2)

sendDesyncCombov6(c) == sendDesyncRSTv6(c, 1) \o sendDesyncFINv6(c, 1) \o sendDesyncACKv6(c, 2)

sendDesyncFull(c) ==
    <<Spoiled("syn", -100000, c), Spoiled("rst", 0, c), Spoiled("rst", 100, c),
      Spoiled("rst", 200, c), Spoiled("ack", 0, c), Spoiled("fin", 0, c)>>

sendDesyncFullv6(c) ==
    <<Spoiled("syn", -100000, c), Spoiled("rst", 0, c), Spoiled("rst", 100, c),
      Spoiled("rst", 200, c)>>

ExecuteDesyncIPv4(c) ==
    CASE c.desync = "off" -> <<>>
      [] c.desync = "rst" -> sendDesyncRST(c, c.count)
      [] c.desync = "fin" -> sendDesyncFIN(c, c.count)
      [] c.desync = "ack" -> sendDesyncACK(c, c.count)
      [] c.desync = "full" -> sendDesyncFull(c)
      [] OTHER -> sendDesyncCombo(c)

ExecuteDesyncIPv6(c) ==
    CASE c.desync = "off" -> <<>>
      [] c.desync = "rst" -> sendDesyncRSTv6(c, c.count)
      [] c.desync = "fin" -> sendDesyncFINv6(c, c.count)
      [] c.desync = "ack" -> sendDesyncACKv6(c, c.count)
      [] c.desync = "full" -> sendDesyncFullv6(c)
      [] OTHER -> sendDesyncCombov6(c)

\* Bare acknowledgements that show the inspector other windows. Their
\* checksums are right: only the TTL stops them.
sendOscillatingWindows(values) ==
    [i \in 1..values |-> Fake("ack", 0, 0, LowTTL(10, i - 1), FALSE)]

sendOscillatingWindowsV6(values) == sendOscillatingWindows(values)

sendEscalatingWindows == sendOscillatingWindows(7)

sendEscalatingWindowsV6 == sendEscalatingWindows

\* Three to five of them; five is followed.
sendRandomWindows == [i \in 1..5 |-> Fake("ack", 0, 0, LowTTL(8, i - 1), FALSE)]

sendRandomWindowsV6 == sendRandomWindows

\* Copies of the whole packet with another window.
sendZeroWindow(p) == <<[Packet("data", 0, 0, p.len) EXCEPT !.ttl = 3],
                       [Packet("data", 0, 0, p.len) EXCEPT !.ttl = 2]>>

sendZeroWindowV6(p) == sendZeroWindow(p)

\* The window values to show: the configured ones, or four of its own.
NewWindowManipulator(c) == IF c.values = 0 THEN 4 ELSE c.values

ManipulateWindowIPv4(p, c) ==
    CASE c.win = "off" -> <<>>
      [] c.win = "zero" -> sendZeroWindow(p)
      [] c.win = "random" -> sendRandomWindows
      [] c.win = "escalate" -> sendEscalatingWindows
      [] OTHER -> sendOscillatingWindows(NewWindowManipulator(c))

ManipulateWindowIPv6(p, c) ==
    CASE c.win = "off" -> <<>>
      [] c.win = "zero" -> sendZeroWindowV6(p)
      [] c.win = "random" -> sendRandomWindowsV6
      [] c.win = "escalate" -> sendEscalatingWindowsV6
      [] OTHER -> sendOscillatingWindowsV6(NewWindowManipulator(c))

sendPostDesyncRST(p, c) ==
    <<Spoiled("rst", 0, c), Spoiled("rst", p.len, c), Spoiled("fin", p.len + 1, c),
      Spoiled("rst", -10000, c), Spoiled("rst", 100000, c)>>

sendPostDesyncRSTv6(p, c) == <<Spoiled("rst", p.len, c)>>

\* Before the connection: fake SYNs in front of the real one.
sendFakeSyn(c) == IF c.synFake THEN <<Spoiled("syn", -1, c)>> ELSE <<>>

sendFakeSynV6(c) == sendFakeSyn(c)

\* Only its TTL and an old sequence number keep this one from the server.
sendFakeSynWithMD5(c) ==
    IF c.frag # "none" /\ c.md5 THEN <<Fake("syn", -10000, 0, dynamicTTL(c.ttl), FALSE)>> ELSE <<>>

sendFakeSynWithMD5V6(c) == sendFakeSynWithMD5(c)

corruptionStrategies == {"badsum", "badseq", "badack", "all"}

\* A wrong sequence or acknowledgement number leaves the checksum right.
applyCorruption(k, strategy) ==
    [k EXCEPT !.bad = strategy \notin {"badseq", "badack"},
              !.from = IF strategy \in {"badseq", "all"} THEN @ + 10000 ELSE @]

\* Answers to the server at the position it acknowledged, each spoiled in its own way.
InjectFakeIncoming(ack, c) ==
    {[i \in 1..c.incCount |-> applyCorruption(Fake("ack", ack, 0, c.incTTL, FALSE), how[i])] :
        how \in [1..c.incCount -> IF c.incStrategy = "rand" THEN corruptionStrategies ELSE {c.incStrategy}]}

InjectFakeIncomingV6(ack, c) == InjectFakeIncoming(ack, c)

InjectResetIncoming(ack, c) == {[i \in 1..c.incCount |-> Fake("rst", ack, 0, c.incTTL, FALSE)]}

InjectResetIncomingV6(ack, c) == InjectResetIncoming(ack, c)

InjectFinIncoming(ack, c) == {[i \in 1..c.incCount |-> Fake("fin", ack, 0, c.incTTL, FALSE)]}

InjectFinIncomingV6(ack, c) == InjectFinIncoming(ack, c)

InjectDesyncIncoming(ack, c) ==
    {FlattenSeq([i \in 1..c.incCount |-> [k \in 1..3 |->
        Fake(<<"rst", "fin", "ack">>[k], ack, 0, c.incTTL, FALSE)]])}

InjectDesyncIncomingV6(ack, c) == InjectDesyncIncoming(ack, c)

-----------------------------------------------------------------------------
(***************************************************************************)
(* A whole emission                                                        *)
(***************************************************************************)

\* One of the pool, if there is one.
ResolveStrategyPool(c) == IF c.pool = {} THEN {c.frag} ELSE c.pool

Strategy(p, c) ==
    CASE c.frag = "tcp" -> sendTCPFragments(p, c)
      [] c.frag = "ip" -> sendIPFragments(p, c)
      [] c.frag = "oob" -> sendOOBFragments(p, c)
      [] c.frag = "tls" -> sendTLSFragments(p, c)
      [] c.frag = "disorder" -> sendDisorderFragments(p, c)
      [] c.frag = "extsplit" -> sendExtSplitFragments(p, c)
      [] c.frag = "firstbyte" -> sendFirstByteDesync(p)
      [] c.frag = "hybrid" -> sendHybridFragments(p, c)
      [] c.frag = "none" -> {Whole(p)}
      [] OTHER -> sendComboFragments(p, c)

StrategyV6(p, c) ==
    CASE c.frag = "tcp" -> sendTCPSegmentsv6(p, c)
      [] c.frag = "ip" -> sendIPFragmentsv6(p, c)
      [] c.frag = "oob" -> sendOOBFragmentsV6(p, c)
      [] c.frag = "tls" -> sendTLSFragmentsV6(p, c)
      [] c.frag = "disorder" -> sendDisorderFragmentsV6(p, c)
      [] c.frag = "extsplit" -> sendExtSplitFragmentsV6(p, c)
      [] c.frag = "firstbyte" -> sendFirstByteDesyncV6(p)
      [] c.frag = "hybrid" -> sendHybridFragmentsV6(p, c)
      [] c.frag = "none" -> {Whole(p)}
      [] OTHER -> sendComboFragmentsV6(p, c)

\* For a mutated packet: desynchronisation, window, fake hellos, the payload,
\* and the burst after it.
dropAndInjectTCP(p, c) ==
    {ExecuteDesyncIPv4(c) \o ManipulateWindowIPv4(p, c) \o f \o s
        \o (IF c.post THEN sendPostDesyncRST(p, c) ELSE <<>>) :
            f \in sendFakeSNISequence(p, c),
            s \in UNION {Strategy(p, [c EXCEPT !.frag = g]) : g \in ResolveStrategyPool(c)}}

dropAndInjectTCPv6(p, c) ==
    {ExecuteDesyncIPv6(c) \o ManipulateWindowIPv6(p, c) \o f \o s
        \o (IF c.post THEN sendPostDesyncRSTv6(p, c) ELSE <<>>) :
            f \in sendFakeSNISequencev6(p, c),
            s \in UNION {StrategyV6(p, [c EXCEPT !.frag = g]) : g \in ResolveStrategyPool(c)}}

BuildFakeUDPFromOriginalV4(c) == Fake("dgram", 0, c.fakeLen, c.ttl, c.udp = "checksum")

BuildFakeUDPFromOriginalV6(c) == BuildFakeUDPFromOriginalV4(c)

\* The second fragment comes first in the result. Rounded down, never to zero.
IPv4FragmentUDP(split, len) ==
    LET wish == IF split < 1 \/ split >= len THEN 8 ELSE split
        at == IF Down8(8 + wish) < 8 THEN 8 ELSE Down8(8 + wish)
        f == Fragments(at, 8 + len)
    IN  IF at >= 8 + len THEN <<>> ELSE <<f[2], f[1]>>

IPv6FragmentUDP(split, len) == IPv4FragmentUDP(split, len)

\* Inside the name when it was found.
SplitOf(d) == IF d.name > 0 /\ d.nameLen > 0 THEN d.name + d.nameLen \div 2 ELSE 24

WholeDatagram(d) == <<Packet("dgram", 0, 0, d.size)>>

dropAndInjectQUIC(d, c) ==
    LET f == IPv4FragmentUDP(SplitOf(d), d.size)
    IN  [i \in 1..c.fakes |-> BuildFakeUDPFromOriginalV4(c)]
        \o (IF ~d.quic \/ f = <<>> THEN WholeDatagram(d) ELSE SendTwoSegmentsV4(f[1], f[2], c))

dropAndInjectQUICV6(d, c) ==
    LET f == IPv6FragmentUDP(SplitOf(d), d.size)
    IN  [i \in 1..c.fakes |-> BuildFakeUDPFromOriginalV6(c)]
        \o (IF ~d.quic \/ f = <<>> THEN WholeDatagram(d) ELSE SendTwoSegmentsV6(f[1], f[2], c))

-----------------------------------------------------------------------------
(***************************************************************************)
(* The connection                                                          *)
(***************************************************************************)

\* Dropped on the way, or by the server's checks of checksum and timestamp.
Arrives(k) == k.ttl > Hops /\ ~k.bad /\ ~k.old

\* A goroutine's packets; the ones that cannot arrive are left out.
Launch(s) == out' = Append(out, SelectSeq(s, Arrives))

IsHello == cfg.udp = "off"

Init ==
    /\ cfg \in Settings
    /\ input \in IF IsHello THEN Hellos ELSE Datagrams
    /\ out = <<>>
    /\ entire = {}
    /\ want = 0
    /\ open = FALSE
    /\ nxt = 0
    /\ ofo = {}
    /\ frags = {}
    /\ got = {}
    /\ broken = FALSE
    /\ reached = FALSE
    /\ replied = FALSE
    /\ crashed = FALSE
    /\ again = FALSE
    /\ faults = 0

\* The client's SYN goes through the worker itself, in order.
HandleSyn ==
    /\ IsHello /\ ~open /\ out = <<>>
    /\ Launch((IF cfg.v6 THEN sendFakeSynV6(cfg) \o sendFakeSynWithMD5V6(cfg)
                          ELSE sendFakeSyn(cfg) \o sendFakeSynWithMD5(cfg))
              \o <<Packet("syn", -1, -1, 0)>>)
    /\ UNCHANGED <<cfg, input, entire, want, open, nxt, ofo, frags, got, broken, reached, replied, crashed, again, faults>>

\* What the mutation may make of the client's hello, in its address family.
Mutated == IF cfg.v6 THEN MutateClientHelloV6(input, 40 + TcpHdr, cfg.mut)
                     ELSE MutateClientHello(input, 20 + TcpHdr, cfg.mut)

Emit ==
    \E m \in Mutated :
        /\ want' = m.size
        /\ \E s \in IF cfg.v6 THEN dropAndInjectTCPv6(View(m), cfg)
                             ELSE dropAndInjectTCP(View(m), cfg) :
            LET sent == SelectInSeq(s, LAMBDA k : k.kind = "panic")
            IN  /\ crashed' = (sent > 0)
                /\ entire' = IF sent > 0 THEN entire ELSE entire \cup {Len(out) + 1}
                /\ Launch([i \in 1..(IF sent > 0 THEN sent - 1 ELSE Len(s)) |-> s[i] @@ [msg |-> m.exts]])

\* A matched hello is dropped and its replacement sent by a goroutine.
HandleHello ==
    /\ IsHello /\ ~crashed /\ open /\ want = 0
    /\ Emit
    /\ UNCHANGED <<cfg, input, open, nxt, ofo, frags, got, broken, reached, replied, again, faults>>

\* The client's timer fires: another goroutine beside the first.
Retransmit ==
    /\ IsHello /\ ~crashed /\ want > 0 /\ ~again
    /\ again' = TRUE
    /\ Emit
    /\ UNCHANGED <<cfg, input, open, nxt, ofo, frags, got, broken, reached, replied, faults>>

HandleDatagram ==
    /\ ~IsHello /\ want = 0
    /\ want' = input.size
    /\ entire' = {1}
    /\ Launch(IF cfg.v6 THEN dropAndInjectQUICV6(input, cfg) ELSE dropAndInjectQUIC(input, cfg))
    /\ UNCHANGED <<cfg, input, open, nxt, ofo, frags, got, broken, reached, replied, crashed, again, faults>>

\* The server's answer passes b4, which may answer in the client's name.
HandleIncoming ==
    /\ IsHello /\ ~crashed /\ want > 0 /\ ~replied
    /\ cfg.inc # "off"
    /\ replied' = TRUE
    /\ \E s \in
              IF cfg.v6
              THEN CASE cfg.inc = "fake" -> InjectFakeIncomingV6(nxt, cfg)
                     [] cfg.inc = "reset" -> InjectResetIncomingV6(nxt, cfg)
                     [] cfg.inc = "fin" -> InjectFinIncomingV6(nxt, cfg)
                     [] cfg.inc = "desync" -> InjectDesyncIncomingV6(nxt, cfg)
              ELSE CASE cfg.inc = "fake" -> InjectFakeIncoming(nxt, cfg)
                     [] cfg.inc = "reset" -> InjectResetIncoming(nxt, cfg)
                     [] cfg.inc = "fin" -> InjectFinIncoming(nxt, cfg)
                     [] cfg.inc = "desync" -> InjectDesyncIncoming(nxt, cfg) : Launch(s)
    /\ UNCHANGED <<cfg, input, entire, want, open, nxt, ofo, frags, got, broken, reached, crashed, again, faults>>

Ready(k) == k.from <= nxt

\* Nothing but invented bytes.
Invented(k) == k.from < k.end /\ k.start = k.end

\* Two fragments that make up the whole IP payload.
Complete(fs) ==
    \E a, b \in fs : /\ a.more /\ ~b.more
                     /\ a.from = 0 /\ a.end % 8 = 0
                     /\ b.from = a.end
                     /\ b.end = want + IF IsHello THEN TcpHdr ELSE 8

\* Real bytes up to k.end, invented ones if they start too late.
Take(k) ==
    IF k.end <= nxt THEN UNCHANGED <<nxt, got, broken, reached>>
    ELSE /\ nxt' = k.end
         /\ got' = got \cup {k.msg}
         /\ broken' = (broken \/ nxt < k.start)
         /\ reached' = (reached \/ Invented(k))

Receive(k) ==
    CASE k.kind = "syn" ->
           /\ open' = TRUE
           /\ broken' = (broken \/ (~open /\ k.from # -1))
           /\ reached' = (reached \/ k.from # -1)
           /\ UNCHANGED <<nxt, ofo, frags, got>>
      [] k.kind = "data" /\ Ready(k) ->
           Take(k) /\ UNCHANGED <<open, ofo, frags>>
      [] k.kind = "data" /\ ~Ready(k) ->
           /\ ofo' = IF k.from < nxt + Window THEN ofo \cup {k} ELSE ofo
           /\ reached' = (reached \/ (Invented(k) /\ k.from < nxt + Window))
           /\ UNCHANGED <<open, nxt, frags, got, broken>>
      [] k.kind \in {"rst", "fin"} ->
           /\ broken' = (broken \/ k.from = nxt)
           /\ reached' = TRUE
           /\ UNCHANGED <<open, nxt, ofo, frags, got>>
      [] k.kind = "ack" ->
           reached' = TRUE /\ UNCHANGED <<open, nxt, ofo, frags, got, broken>>
      [] k.kind = "frag" ->
           /\ frags' = frags \cup {k}
           /\ nxt' = IF Complete(frags \cup {k}) THEN want ELSE nxt
           /\ UNCHANGED <<open, ofo, got, broken, reached>>
      [] k.kind = "dgram" ->
           /\ nxt' = IF Invented(k) THEN nxt ELSE want
           /\ reached' = (reached \/ Invented(k))
           /\ UNCHANGED <<open, ofo, frags, got, broken>>

\* The server looks at what it holds before it takes the next packet.
Draining == \E k \in ofo : Ready(k)

Drain ==
    \E k \in ofo :
        /\ Ready(k)
        /\ Take(k)
        /\ ofo' = ofo \ {k}
        /\ UNCHANGED <<cfg, input, out, entire, want, open, frags, replied, crashed, again, faults>>

\* The packets of one goroutine arrive in order, those of two in any order.
Deliver ==
    /\ ~Draining
    /\ \E g \in DOMAIN out :
          /\ out[g] # <<>>
          /\ Receive(Head(out[g]))
          /\ out' = [out EXCEPT ![g] = Tail(@)]
    /\ UNCHANGED <<cfg, input, entire, want, replied, crashed, again, faults>>

Lose ==
    /\ ~Draining /\ faults < MaxFaults /\ want > 0
    /\ faults' = faults + 1
    /\ \E g \in DOMAIN out :
          /\ out[g] # <<>>
          /\ out' = [out EXCEPT ![g] = Tail(@)]
          /\ entire' = entire \ {g}
    /\ UNCHANGED <<cfg, input, want, open, nxt, ofo, frags, got, broken, reached, replied, crashed, again>>

\* The network swaps two packets.
Overtake ==
    /\ ~Draining /\ faults < MaxFaults /\ want > 0
    /\ faults' = faults + 1
    /\ \E g \in DOMAIN out :
          /\ Len(out[g]) > 1
          /\ out' = [out EXCEPT ![g] = <<@[2], @[1]>> \o SubSeq(@, 3, Len(@))]
    /\ UNCHANGED <<cfg, input, entire, want, open, nxt, ofo, frags, got, broken, reached, replied, crashed, again>>

Next == HandleSyn \/ HandleHello \/ Retransmit \/ HandleDatagram \/ HandleIncoming
        \/ Drain \/ Deliver \/ Lose \/ Overtake

Spec == Init /\ [][Next]_vars

-----------------------------------------------------------------------------
(***************************************************************************)
(* Properties                                                              *)
(***************************************************************************)

TypeOK ==
    /\ cfg \in Settings
    /\ input \in Hellos \cup Datagrams
    /\ want \in Nat /\ nxt \in Nat /\ faults \in 0..MaxFaults
    /\ {open, broken, reached, replied, crashed, again} \subseteq BOOLEAN
    /\ entire \subseteq DOMAIN out

\* Mutations that draw random bytes give every retransmission another message.
Drawn == {"grease", "reorder", "advanced", "full"}

\* Whatever the strategy invents, reorders or sends twice (dropAndInjectTCP and
\* a second goroutine for a retransmission, perhaps with another strategy of the
\* pool), under loss and reordering the server never delivers an invented byte,
\* never closes early and never mixes two versions of the hello, unless the
\* mutation itself draws a new one or a whole fake got through (FakesStop says when).
StreamIntact == ~reached => ~broken /\ (cfg.mut.mode \in Drawn \/ Cardinality(got) <= 1)

\* Once everything a goroutine sent has arrived, the server has the payload to
\* its last byte: the split points of every strategy cover it and the IP
\* fragments of the TCP segment or the QUIC datagram fit together.  Not claimed for a
\* goroutine that panics before it has sent everything, which the tls strategy does on
\* a payload of exactly the five bytes of a record header (sendTLSFragments).
NothingMissing ==
    /\ entire # {} /\ ~reached /\ ~Draining /\ (\A g \in DOMAIN out : out[g] = <<>>) => nxt = want
    /\ crashed => want = 5 /\ input.tls /\ "tls" \in ResolveStrategyPool(cfg)

\* The settings that give some fake nothing to stop it: a TTL that lasts to the server;
\* more window values than the uint8 counts down from 10; and fake hellos with right
\* checksums behind the first (tcp_check), at a random place (randseq without an
\* offset), reaching past an offset shorter than themselves, without a timestamp to
\* make old, or of a strategy BuildFakeSNIPacketV4 has no case for.
Unguarded(c) ==
    \/ c.ttl > Hops \/ c.incTTL > Hops
    \/ c.win \notin {"off", "zero", "random", "escalate"} /\ c.values > 11
    \/ /\ c.fakes > 0 /\ IsHello
       /\ CASE c.strategy = "tcp_check" -> c.fakes > 1
            [] c.strategy = "randseq" -> c.seqOff = 0 \/ c.seqOff + want < FakeLen(want, c)
            [] c.strategy = "pastseq" -> 0 < c.seqOff /\ c.seqOff < FakeLen(want, c)
            [] c.strategy = "timestamp" -> ~c.stamps
            [] OTHER -> c.strategy # "ttl"

\* A fake (sendFakeSNISequence, window, decoy, urgent byte, fake SYN, incoming
\* injection) passes the server's checks only in the settings above: in all others
\* each is stopped by its TTL, checksum, timestamp or a sequence number already
\* received, also at the boundaries: an unset TTL, one equal to the distance, as many
\* window values as the counter allows, an offset as long as the fake.
FakesStop == reached => Unguarded(cfg)

\* A mutated hello is still one: the three length fields agree with what
\* follows, and every extension of the client is there, in place unless they
\* are reordered (server_name apart in mode "full"), and a parser reads the same
\* name unless the mode adds names. Only the packet limit may tear an added one
\* (MutateClientHello).
HelloIntact ==
    IsHello /\ ~open =>
        LET hdr == (IF cfg.v6 THEN 40 ELSE 20) + TcpHdr
            whole == input.size = input.rec + 5
            orders == cfg.mut.mode \in {"reorder", "full"}
        IN  \A m \in Mutated :
                /\ whole => /\ m.rec = m.size - 5 /\ m.body = m.size - 9
                           /\ m.ext = Bytes(m.exts)
                           /\ m.size = ExtPos(m) + 2 + m.ext
                /\ hdr + m.size <= MaxTCPPacketSize \/ m = input
                /\ \/ cfg.mut.mode \in {"duplicate", "full"}
                   \/ ParseTLSClientHelloSNI(m) = ParseTLSClientHelloSNI(input)
                /\ \A e \in ToSet(m.exts) : \/ e.have = 4 + e.len
                                           \/ hdr + m.size = MaxTCPPacketSize
                                           \/ ~whole
                /\ IF orders
                   THEN \A e \in ToSet(input.exts) :
                            \/ e \in ToSet(m.exts)
                            \/ e.type = "server_name" /\ cfg.mut.mode = "full"
                   ELSE IsPrefix(input.exts, m.exts)

=============================================================================
