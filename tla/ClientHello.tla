---------------------------- MODULE ClientHello ----------------------------
(***************************************************************************)
(* The TLS ClientHello as b4 reads and rewrites it: where the host name is *)
(* (locateSNI, findPreSNIExtensionPoint), which name the matcher sees (the *)
(* parser of package sni) and what the mutation modes make of the message. *)
(* A hello is kept as the lengths of its parts; the bytes themselves are   *)
(* only the extension's kind and, for server_name, the name.               *)
(*                                                                         *)
(*   tls     the first byte announces a handshake record                   *)
(*   sid, cs, cm   lengths of session id, cipher suites, compression       *)
(*   exts    the extensions: kind, length field, name, bytes present       *)
(*   rec, body, ext   the three length fields as written in the message    *)
(*   size    payload bytes in this TCP segment (a long hello is cut here)  *)
(***************************************************************************)
EXTENDS Integers, Sequences, FiniteSets, SequencesExt

CONSTANTS
    MaxTCPPacketSize,   \* the packet size mutations try not to exceed
    NoName              \* the name of an extension that is not server_name

Ext(type, len, name) == [type |-> type, len |-> len, name |-> name, have |-> 4 + len]

\* Bytes occupied by extensions, and where the i-th one starts among them.
Bytes(exts) == FoldLeft(LAMBDA n, e : n + e.have, 0, exts)

Off(exts, i) == Bytes(SubSeq(exts, 1, i - 1))

ServerName(name, len) == Ext("server_name", 5 + len, name)

Smaller(a, b) == IF a < b THEN a ELSE b

\* Position of the extensions' length field: record and handshake headers,
\* version, random, session id, cipher suites and compression methods.
ExtPos(h) == 5 + 4 + 34 + 1 + h.sid + 2 + h.cs + 1 + h.cm

\* Every earlier bound check of the three parsers is implied by this one.
HasExts(h) == h.tls /\ ExtPos(h) + 2 <= h.size

ExtEnd(h) == Smaller(ExtPos(h) + 2 + h.ext, h.size) - ExtPos(h) - 2

\* The extensions a parser that stops at the first incomplete one walks over.
Walked(h) == {i \in DOMAIN h.exts :
                  \A j \in 1..i : Off(h.exts, j) + 4 + h.exts[j].len <= ExtEnd(h)}

findExtensionsOffset(h) == IF ExtPos(h) + 2 <= h.size THEN ExtPos(h) ELSE -1

\* First and past-the-end position of the host name, or none. The first
\* server_name extension decides, even when its name turns out empty.
locateSNI(h) ==
    LET hits == {i \in Walked(h) : h.exts[i].type = "server_name" /\ h.exts[i].len >= 5}
        i == Min(hits)
        q == ExtPos(h) + 2 + Off(h.exts, i) + 4 + 5
    IN  IF HasExts(h) /\ hits # {} /\ h.exts[i].len > 5
        THEN {<<q, q + h.exts[i].len - 5>>}
        ELSE {}

\* The start of the extension before server_name (of the first one when
\* server_name leads); -1 when there is none. Lengths are not checked here.
findPreSNIExtensionPoint(h) ==
    LET hits == {i \in DOMAIN h.exts : /\ h.exts[i].type = "server_name"
                                       /\ Off(h.exts, i) + 4 <= ExtEnd(h)}
        i == Min(hits)
    IN  IF HasExts(h) /\ hits # {}
        THEN ExtPos(h) + 2 + (IF i = 1 THEN 0 ELSE Off(h.exts, i - 1))
        ELSE -1

\* The name the matcher is given: the last complete server_name wins.
parseTLSClientHelloMeta(h) ==
    LET hits == {i \in Walked(h) : h.exts[i].type = "server_name" /\ h.exts[i].len > 5}
    IN  IF HasExts(h) /\ h.ext > 0 /\ hits # {} THEN h.exts[Max(hits)].name ELSE NoName

ParseTLSClientHelloSNI(h) ==
    IF h.tls /\ h.rec > 0 /\ h.size >= 9 THEN parseTLSClientHelloMeta(h) ELSE NoName

-----------------------------------------------------------------------------
(***************************************************************************)
(* Mutation. hdr is the length of the IP and TCP headers in front.         *)
(***************************************************************************)

\* Record and handshake length follow the payload; checksums follow too.
updatePacketLengths(h) == [h EXCEPT !.rec = h.size - 5, !.body = h.size - 9]

\* The first n bytes of a run of extensions; the last one may be torn.
CutExts(new, n) ==
    LET kept == {i \in DOMAIN new : Off(new, i) < n}
    IN  [i \in 1..Cardinality(kept) |->
            [new[i] EXCEPT !.have = Smaller(@, n - Off(new, i))]]

\* Mutant: the length of the extensions is not updated.
insertExtensionsUncounted(h, hdr, new) ==
    IF ExtPos(h) + 2 + h.ext > h.size \/ Bytes(new) > MaxTCPPacketSize - hdr - h.size THEN h
    ELSE updatePacketLengths([h EXCEPT !.exts = @ \o new, !.size = @ + Bytes(new)])

insertExtensions(h, hdr, new) ==
    LET room == MaxTCPPacketSize - hdr - h.size
        add == IF Bytes(new) > room THEN CutExts(new, room) ELSE new
    IN  IF \/ findExtensionsOffset(h) < 0
           \/ ExtPos(h) + 2 + h.ext > h.size
           \/ Bytes(new) > room /\ room <= 0
        THEN h
        ELSE updatePacketLengths(
                 [h EXCEPT !.exts = @ \o add, !.ext = @ + Bytes(add), !.size = @ + Bytes(add)])

parseExtensions(h) ==
    IF ExtPos(h) + 2 + h.ext > h.size THEN <<>>
    ELSE SubSeq(h.exts, 1, Cardinality(Walked(h)))

replaceExtensions(h, hdr, new) ==
    LET size == h.size + Bytes(new) - h.ext
    IN  IF \/ findExtensionsOffset(h) < 0
           \/ ExtPos(h) + 2 + h.ext > h.size
           \/ hdr + size > MaxTCPPacketSize
        THEN h
        ELSE updatePacketLengths([h EXCEPT !.exts = new, !.ext = Bytes(new), !.size = size])

duplicateSNI(h, hdr, m) ==
    IF findExtensionsOffset(h) < 0 THEN h
    ELSE insertExtensions(h, hdr, [i \in DOMAIN m.fakes |-> ServerName(m.fakes[i], 5)])

addGREASE(h, hdr, m) == insertExtensions(h, hdr, [i \in 1..m.grease |-> Ext("grease", 4, NoName)])

addPadding(h, hdr, m) ==
    LET wish == IF m.padding < 16 THEN 16 ELSE Smaller(m.padding, 4096)
        size == Smaller(wish, MaxTCPPacketSize - hdr - h.size - 4)
    IN  IF size <= 0 THEN h ELSE insertExtensions(h, hdr, <<Ext("padding", size, NoName)>>)

\* The orders of the remaining extensions that are followed: as they were and
\* reversed, of the many the shuffle can produce.
Shuffled(exts) == {exts, Reverse(exts)}

\* Keeps one server_name in front and shuffles the rest.
reorderExtensions(h, hdr, m) ==
    LET old == parseExtensions(h)
        names == {i \in DOMAIN old : old[i].type = "server_name"}
        front == IF names = {} THEN <<>> ELSE <<old[Max(names)]>>
        others == SelectSeq(old, LAMBDA e : e.type # "server_name")
    IN  IF findExtensionsOffset(h) < 0 \/ Len(old) < 2 THEN {h}
        ELSE {replaceExtensions(h, hdr, front \o rest) : rest \in Shuffled(others)}

addFakeALPN(h, hdr) == insertExtensions(h, hdr, <<Ext("alpn", 84, NoName)>>)

addUnknownExtensions(h, hdr, count) ==
    insertExtensions(h, hdr, [i \in 1..count |-> Ext("unknown", 4, NoName)])

\* supported_groups, signature_algorithms, supported_versions, session_ticket
addCommonExtensions(h, hdr) ==
    insertExtensions(h, hdr, <<Ext("groups", 8, NoName), Ext("sigalgs", 14, NoName),
                               Ext("versions", 5, NoName), Ext("ticket", 0, NoName)>>)

\* psk modes, key share, status request: each only while it still fits.
addAdvancedMutations(h, hdr) ==
    LET Add(g, e) == IF hdr + g.size + e.have <= MaxTCPPacketSize
                     THEN insertExtensions(g, hdr, <<e>>) ELSE g
    IN  Add(Add(Add(h, Ext("psk", 2, NoName)), Ext("key_share", 38, NoName)),
            Ext("status", 5, NoName))

\* Each stage may find the packet too large and fall back to a smaller one.
fullMutation(h, hdr, m) ==
    LET Large(g) == hdr + g.size > MaxTCPPacketSize
        dup == duplicateSNI(h, hdr, m)
        common == addCommonExtensions(dup, hdr)
        advanced == addAdvancedMutations(common, hdr)
        kept == IF Large(advanced) THEN addCommonExtensions(dup, hdr) ELSE advanced
        noisy == addUnknownExtensions(
                     addFakeALPN(addGREASE(kept, hdr, m), hdr), hdr, m.unknown)
    IN  IF Large(dup) THEN {h}
        ELSE IF Large(common) THEN {dup}
        ELSE {addPadding(g, hdr, m) : g \in reorderExtensions(noisy, hdr, m)}

\* The messages a mutation mode may turn a hello into. Only a whole record
\* that starts with a handshake is touched.
MutateClientHello(h, hdr, m) ==
    CASE m.mode = "off" \/ h.size <= 5 \/ ~h.tls \/ h.size < 5 + h.rec -> {h}
      [] OTHER ->
         CASE m.mode = "duplicate" -> {duplicateSNI(h, hdr, m)}
           [] m.mode = "grease" -> {addGREASE(h, hdr, m)}
           [] m.mode = "padding" -> {addPadding(h, hdr, m)}
           [] m.mode = "reorder" -> reorderExtensions(h, hdr, m)
           [] m.mode = "full" -> fullMutation(h, hdr, m)
           [] m.mode = "advanced" -> {addAdvancedMutations(h, hdr)}
           [] OTHER -> {h}

-----------------------------------------------------------------------------
(***************************************************************************)
(* The IPv6 copies in mutation_ipv6.go: statement for statement the above  *)
(* behind a header of 40 bytes, which hdr accounts for.                    *)
(***************************************************************************)

insertExtensionsv6(h, hdr, new) == insertExtensions(h, hdr, new)

duplicateSNIv6(h, hdr, m) == duplicateSNI(h, hdr, m)

addGREASEv6(h, hdr, m) ==
    insertExtensionsv6(h, hdr, [i \in 1..m.grease |-> Ext("grease", 4, NoName)])

addPaddingv6(h, hdr, m) == addPadding(h, hdr, m)

reorderExtensionsv6(h, hdr, m) == reorderExtensions(h, hdr, m)

addAdvancedMutationsv6(h, hdr) == addAdvancedMutations(h, hdr)

fullMutationv6(h, hdr, m) == fullMutation(h, hdr, m)

MutateClientHelloV6(h, hdr, m) ==
    CASE m.mode = "off" \/ h.size <= 5 \/ ~h.tls \/ h.size < 5 + h.rec -> {h}
      [] OTHER ->
         CASE m.mode = "duplicate" -> {duplicateSNIv6(h, hdr, m)}
           [] m.mode = "grease" -> {addGREASEv6(h, hdr, m)}
           [] m.mode = "padding" -> {addPaddingv6(h, hdr, m)}
           [] m.mode = "reorder" -> reorderExtensionsv6(h, hdr, m)
           [] m.mode = "full" -> fullMutationv6(h, hdr, m)
           [] m.mode = "advanced" -> {addAdvancedMutationsv6(h, hdr)}
           [] OTHER -> {h}
=============================================================================
