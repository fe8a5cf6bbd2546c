----------------------------- MODULE SetMatching -----------------------------
(***************************************************************************)
(* Which set a packet is handled by.  The matcher is built from a          *)
(* configuration and finds a set by address, by the address's last domain, *)
(* by domain or by port; UpdateConfig replaces configuration and matcher   *)
(* while packets are handled and carries the learned addresses over.       *)
(* DNS queries are matched the same way, and their answers feed routing.   *)
(***************************************************************************)
EXTENDS Naturals, Sequences, FiniteSets, SequencesExt, RouteGates

CONSTANTS
    Sets,           \* what every set asks for, by the name of the set
    Configs,        \* configurations: sets in order, and the device filter
    Startup,        \* the first of them
    ParentsOf,       \* of every host: itself and its parents, nearest first
    IPs,            \* destination addresses
    Packets,        \* packets that may arrive
    LearnedLimit,   \* size of the learned cache
    MaxUpdates,     \* configurations that are saved
    MaxPackets,     \* packets that arrive
    None

ASSUME LimitPositive == LearnedLimit \in Nat \ {0}

\* Sets and networks as the configuration's sanitising leaves them.
ASSUME SetsAssumption ==
    /\ None \notin DOMAIN Sets
    /\ \A s \in DOMAIN Sets : /\ {Sets[s].enabled, Sets[s].exclude} \subseteq BOOLEAN
                              /\ \A n \in Sets[s].nets : n.len \in 0 .. 128

\* "any" stands for no MAC match in a rule.
ASSUME ConfigsAssumption ==
    /\ Startup \in Configs
    /\ \A conf \in Configs : /\ conf.sets \in Seq(DOMAIN Sets)
                             /\ {conf.devices.enabled, conf.devices.black} \subseteq BOOLEAN
                             /\ "any" \notin conf.devices.macs
    /\ \A s \in DOMAIN Sets : "any" \notin Sets[s].macs

ASSUME PacketsAssumption ==
    /\ None \notin DOMAIN ParentsOf
    /\ \A h \in DOMAIN ParentsOf : DOMAIN ParentsOf[h] \subseteq Nat
    /\ \A p \in Packets : /\ p.proto \in {"tcp", "udp", "query", "answer"}
                          /\ p.ip \in IPs /\ p.host \in DOMAIN ParentsOf \cup {None} /\ p.mac # "any"

VARIABLES
    confs,      \* the configurations stored so far
    cfg,        \* w.cfg, one of them
    matchers,   \* the matchers built so far
    cur,        \* w.matcher, one of them
    update,     \* UpdateConfig under configMu
    worker,     \* the packet in flight
    last,       \* the packet decided last, until the next arrives
    pending,    \* dnsRoutePending
    fetch,      \* resolveDNSRedirect in its goroutine
    routed,     \* the last call of RoutingHandleDNS or RoutingLearnIP since then
    escalated,  \* destState.escalations: the id of the set a host was moved to
    left        \* packets and updates that may still come

vars == <<confs, cfg, cur, matchers, update, worker, last, pending, fetch, routed, escalated, left>>

Hosts == DOMAIN ParentsOf
Macs == {p.mac : p \in Packets}

-----------------------------------------------------------------------------
(* The sets a matcher offers *)

Enabled(all) == {i \in DOMAIN all : Sets[all[i]].enabled}

\* Candidates are sets with their places; the first comes before the others.
Candidates(all, places) == {[at |-> i, set |-> all[i]] : i \in places}

First(candidates) == (CHOOSE c \in candidates : \A d \in candidates : c.at <= d.at).set

\* The nearest of the host and its parents that some set names decides which
\* sets compete.
findDomainCandidates(all, host) ==
    LET naming(n) == {i \in Enabled(all) : ParentsOf[host][n] \in Sets[all[i]].domains}
        named == {n \in DOMAIN ParentsOf[host] : naming(n) # {}}
    IN  IF named = {} THEN {} ELSE Candidates(all, naming(Min(named)))

\* A pattern belongs to the first set that has it: the second is not compiled.
RegexCandidates(all, host) ==
    LET having(r) == {i \in Enabled(all) : r \in Sets[all[i]].regexes}
        hit == {r \in UNION {Sets[all[i]].regexes : i \in Enabled(all)} : host \in r}
    IN  Candidates(all, {Min(having(r)) : r \in hit})

\* cidranger: a network two sets have belongs to the one inserted last.
NetworkOwner(all, net) == all[Max({i \in Enabled(all) : net \in Sets[all[i]].nets})]

\* Sets with a network around the address, the most specific first.
sortEntriesBySpecificity(all, ip) ==
    LET hits == {n \in UNION {Sets[all[i]].nets : i \in Enabled(all)} : ip \in n.ips}
    IN  {[at |-> 128 - n.len, set |-> NetworkOwner(all, n)] : n \in hits}

\* A device nobody knows is outside every list.
setMatchesSource(set, mac) ==
    Sets[set].macs = {} \/ (IF Sets[set].exclude THEN mac \notin Sets[set].macs ELSE mac \in Sets[set].macs)

MatchesTLSVersion(set, tls) == Sets[set].tls = None \/ tls = None \/ Sets[set].tls = tls

MatchesIPVersion(set, ver) == Sets[set].ver = None \/ ver = None \/ Sets[set].ver = ver

\* Of the sets open to the device those that fit both versions come first, among them
\* those bound to devices, then the order of the candidates; when none fits, the
\* versions are ignored.
selectSetBySourceAndTLS(candidates, mac, tls, ver) ==
    LET open == {c \in candidates : setMatchesSource(c.set, mac)}
        fitting == {c \in open : MatchesTLSVersion(c.set, tls) /\ MatchesIPVersion(c.set, ver)}
        bound(C) == {c \in C : Sets[c.set].macs # {}}
        pick(C) == First(IF bound(C) # {} THEN bound(C) ELSE C)
    IN  IF open = {} THEN None ELSE pick(IF fitting # {} THEN fitting ELSE open)

MatchSNIWithSourceTLS(all, host, mac, tls, ver) ==
    LET byDomain == selectSetBySourceAndTLS(findDomainCandidates(all, host), mac, tls, ver)
    IN  IF byDomain # None THEN byDomain
        ELSE selectSetBySourceAndTLS(RegexCandidates(all, host), mac, tls, ver)

\* The plain match, cached per matcher, knows no devices.
MatchSNI(all, host) ==
    LET byDomain == findDomainCandidates(all, host)
        byRegex == RegexCandidates(all, host)
    IN  IF byDomain # {} THEN First(byDomain) ELSE IF byRegex # {} THEN First(byRegex) ELSE None

MatchIPWithSource(all, ip, mac, ver) == selectSetBySourceAndTLS(sortEntriesBySpecificity(all, ip), mac, None, ver)

HasIPOrDomainTargets(set) == Sets[set].domains # {} \/ Sets[set].regexes # {} \/ Sets[set].nets # {}

MatchesDPort(set, proto, port) == Sets[set].ports[proto] = {} \/ port \in Sets[set].ports[proto]

\* Only sets that have nothing but ports; the device is not asked for.
MatchPort(all, proto, port) ==
    LET byPort == {i \in Enabled(all) : ~HasIPOrDomainTargets(all[i]) /\ port \in Sets[all[i]].ports[proto]}
    IN  IF byPort = {} THEN None ELSE all[Min(byPort)]

-----------------------------------------------------------------------------
(* Learned addresses *)

\* An entry moves to the front or is added there; at the limit the last one goes.
LearnIPToDomain(m, ip, host, set) ==
    LET front == <<ip>> \o SelectSeq(m.lru, LAMBDA i : i # ip)
        kept == SubSeq(front, 1, IF Len(front) > LearnedLimit THEN LearnedLimit ELSE Len(front))
    IN  IF Sets[set].domainOnly THEN m
        ELSE [m EXCEPT !.lru = kept,
                       !.learned = [i \in IPs |-> IF i = ip THEN [host |-> host, set |-> set, fresh |-> TRUE]
                                                  ELSE IF Contains(kept, i) THEN m.learned[i] ELSE None]]

\* Mutant: the learned set is taken for every device, as MatchLearnedIP does.
MatchLearnedIPAnySource(m, ip, mac, ver) ==
    LET e == m.learned[ip]
    IN  IF e = None \/ ~e.fresh THEN [set |-> None, host |-> None, m |-> m]
        ELSE [set |-> e.set, host |-> e.host, m |-> m]

\* What a packet finds: nothing, an entry that has expired and goes, or a set; the
\* set of another device makes way for one of the same domain.
MatchLearnedIPWithSource(m, ip, mac, ver) ==
    LET e == m.learned[ip]
        hit == [m EXCEPT !.learned[ip].fresh = TRUE, !.lru = <<ip>> \o SelectSeq(@, LAMBDA i : i # ip)]
        gone == [m EXCEPT !.learned[ip] = None, !.lru = SelectSeq(@, LAMBDA i : i # ip)]
        alt == MatchSNIWithSourceTLS(m.sets, e.host, mac, None, ver)
    IN  CASE e = None -> [set |-> None, host |-> None, m |-> m]
          [] e # None /\ ~e.fresh -> [set |-> None, host |-> None, m |-> gone]
          [] e # None /\ e.fresh /\ setMatchesSource(e.set, mac) -> [set |-> e.set, host |-> e.host, m |-> hit]
          [] OTHER -> IF alt # None THEN [set |-> alt, host |-> e.host, m |-> hit]
                      ELSE [set |-> None, host |-> None, m |-> m]

NewMatcher(sets) == [sets |-> sets, learned |-> [i \in IPs |-> None], lru |-> <<>>]

\* Mutant: the set is carried over with the address.
TransferLearnedIPsAsIs(sets, old) ==
    [NewMatcher(sets) EXCEPT
        !.learned = [i \in IPs |-> IF old.learned[i] # None /\ old.learned[i].fresh THEN old.learned[i] ELSE None],
        !.lru = SelectSeq(old.lru, LAMBDA i : old.learned[i] # None /\ old.learned[i].fresh)]

\* Fresh entries are matched again, in any order, by the new configuration.
TransferLearnedIPs(sets, old) ==
    LET new == [i \in {j \in IPs : old.learned[j] # None /\ old.learned[j].fresh} |-> MatchSNI(sets, old.learned[i].host)]
        keep == {i \in DOMAIN new : new[i] # None /\ ~Sets[new[i]].domainOnly}
    IN  [NewMatcher(sets) EXCEPT
            !.learned = [i \in IPs |-> IF i \in keep THEN [host |-> old.learned[i].host, set |-> new[i], fresh |-> TRUE]
                                       ELSE None],
            !.lru = SetToSeq(keep)]

\* Ten minutes pass for an entry.
Expire(k, ip) ==
    /\ matchers[k].learned[ip] # None /\ matchers[k].learned[ip].fresh
    /\ matchers' = [matchers EXCEPT ![k].learned[ip].fresh = FALSE]
    /\ UNCHANGED <<confs, cfg, cur, update, worker, last, pending, fetch, routed, escalated, left>>

-----------------------------------------------------------------------------
(* A packet to a port b4 handles; one is in flight *)

NoPacket == [pc |-> "idle", pkt |-> None, cfg |-> 0, m |-> 0]
Undecided == [pkt |-> None, matched |-> None, set |-> None, how |-> "none"]

\* dispatch loads the configuration, and then the matcher.
dispatch(p) ==
    /\ worker.pc = "idle" /\ left.packets > 0
    /\ worker' = [pc |-> "load", pkt |-> p, cfg |-> cfg, m |-> 0]
    /\ last' = Undecided /\ routed' = None
    /\ left' = [left EXCEPT !.packets = @ - 1]
    /\ UNCHANGED <<confs, cfg, cur, matchers, update, pending, fetch, escalated>>

LoadMatcher ==
    /\ worker.pc = "load"
    /\ worker' = [worker EXCEPT !.pc = worker.pkt.proto, !.m = cur]
    /\ UNCHANGED <<confs, cfg, cur, matchers, update, last, pending, fetch, routed, escalated, left>>

GetSetById(conf, id) ==
    LET places == {i \in DOMAIN conf.sets : Sets[conf.sets[i]].id = id}
    IN  IF places = {} THEN None ELSE conf.sets[Min(places)]

\* The set a host was moved to, in the configuration the worker loaded; the device is
\* not asked for.
EscalatedTo(host) ==
    IF host = None \/ escalated[host] = None THEN None
    ELSE LET set == GetSetById(confs[worker.cfg], escalated[host])
         IN  IF set # None /\ Sets[set].enabled THEN set ELSE None

\* The packet matched the set; the entry of its host, if there is one, replaces it, or
\* goes when it leads to no enabled set.
Decide(set, how, host, k, m) ==
    /\ last' = [pkt |-> worker.pkt, matched |-> set, how |-> IF set = None THEN "none" ELSE how,
                set |-> IF set # None /\ EscalatedTo(host) # None THEN EscalatedTo(host) ELSE set]
    /\ escalated' = [h \in Hosts |-> IF h = host /\ set # None /\ EscalatedTo(host) = None THEN None ELSE escalated[h]]
    /\ matchers' = [matchers EXCEPT ![k] = m]
    /\ worker' = NoPacket

Routes(set) == Sets[set].route # None /\ ~Sets[set].domainOnly

\* RoutingLearnIP is called with the set of the matcher and the configuration the
\* worker loaded.
registerLearnedRoute(set, ip) ==
    routed' = IF Routes(set) THEN [set |-> Sets[set].id, ip |-> ip, cfg |-> worker.cfg] ELSE routed

Fits(set, proto, port) == set # None /\ MatchesDPort(set, proto, port)

\* The address, the learned domain over it, a port where neither matched.
FoundTCP(l, byIP, port, p) ==
    IF Fits(l.set, "tcp", p.port) THEN [set |-> l.set, how |-> "learned"]
    ELSE IF Fits(byIP, "tcp", p.port) THEN [set |-> byIP, how |-> "ip"] ELSE [set |-> port, how |-> "port"]

Copies(set) == set # None /\ Sets[set].duplicate /\ Sets[set].route # "proxy"

\* The set does not take this segment after all.
Declines(found, p) ==
    /\ found.set # None
    /\ \/ ~MatchesTLSVersion(found.set, p.tls)
       \/ found.how = "learned" /\ p.data /\ p.host = None /\ Sets[found.set].plain

\* A set that sends duplicates ends here; else the name in a ClientHello comes over
\* all the others, and the host's escalation over the set that matched.
handleTCPPacket ==
    /\ worker.pc = "tcp"
    /\ \E p \in {worker.pkt}, m \in {matchers[worker.m]} :
       \E l \in {MatchLearnedIPWithSource(m, p.ip, p.mac, p.ver)},
          bySNI \in {IF p.host = None THEN None ELSE MatchSNIWithSourceTLS(m.sets, p.host, p.mac, p.tls, p.ver)} :
       \E found \in {FoundTCP(l, MatchIPWithSource(m.sets, p.ip, p.mac, p.ver), MatchPort(m.sets, "tcp", p.port), p)} :
           IF Fits(bySNI, "tcp", p.port) /\ ~Copies(found.set)
           THEN /\ Decide(bySNI, "sni", p.host, worker.m, LearnIPToDomain(l.m, p.ip, p.host, bySNI))
                /\ registerLearnedRoute(bySNI, p.ip)
           ELSE /\ Decide(IF ~Copies(found.set) /\ Declines(found, p) THEN None ELSE found.set, found.how,
                          IF Copies(found.set) THEN None ELSE p.host, worker.m, l.m)
                /\ UNCHANGED routed
    /\ UNCHANGED <<confs, cfg, cur, update, pending, fetch, left>>

FoundUDP(byIP, l, port, p) ==
    IF Fits(byIP, "udp", p.port) THEN [set |-> byIP, how |-> "ip"]
    ELSE IF Fits(l.set, "udp", p.port) THEN [set |-> l.set, how |-> "learned"] ELSE [set |-> port, how |-> "port"]

\* The address comes before the learned domain, and the learned domain stands for
\* the name of a QUIC Initial, which is then not looked at, and for its escalation.
handleUDPPacket ==
    /\ worker.pc = "udp"
    /\ \E p \in {worker.pkt}, m \in {matchers[worker.m]} :
       \E byIP \in {MatchIPWithSource(m.sets, p.ip, p.mac, p.ver)} :
       \E l \in {IF Fits(byIP, "udp", p.port) THEN [set |-> None, host |-> None, m |-> m]
                 ELSE MatchLearnedIPWithSource(m, p.ip, p.mac, p.ver)} :
       \E host \in {IF Fits(l.set, "udp", p.port) THEN l.host ELSE p.host} :
       \E bySNI \in {IF host = None THEN None ELSE MatchSNIWithSourceTLS(m.sets, host, p.mac, "1.3", p.ver)},
          found \in {FoundUDP(byIP, l, MatchPort(m.sets, "udp", p.port), p)} :
           IF Fits(bySNI, "udp", p.port)
           THEN /\ Decide(bySNI, "sni", host, worker.m, LearnIPToDomain(l.m, p.ip, host, bySNI))
                /\ registerLearnedRoute(bySNI, p.ip)
           ELSE /\ Decide(found.set, found.how, host, worker.m, l.m)
                /\ UNCHANGED routed
    /\ UNCHANGED <<confs, cfg, cur, update, pending, fetch, left>>

-----------------------------------------------------------------------------
(* DNS over IPv4: processDnsPacket loads matcher and configuration itself; the *)
(* address of a query is the one its name resolves to.                         *)

\* A query is blocked, noted for its answer, and redirected or passed on.
DnsQuery ==
    /\ worker.pc = "query"
    /\ LET p == worker.pkt
           set == MatchSNIWithSourceTLS(matchers[cur].sets, p.host, p.mac, None, None)
           passed == set # None /\ Sets[set].route # "block"
       IN  /\ Decide(set, "dns", None, cur, matchers[cur])
           /\ pending' = IF passed /\ Routes(set) THEN [pending EXCEPT ![p.host] = [set |-> Sets[set].id, fresh |-> TRUE]]
                         ELSE pending
           /\ fetch' = IF passed /\ Sets[set].dns THEN Append(fetch, [set |-> set, ip |-> p.ip, cfg |-> cfg]) ELSE fetch
    /\ UNCHANGED <<confs, cfg, cur, update, routed, left>>

\* The answer carries the address; the set is matched again, else the note names it.
DnsResponse ==
    /\ worker.pc = "answer"
    /\ LET p == worker.pkt
           set == MatchSNIWithSourceTLS(matchers[cur].sets, p.host, p.mac, None, None)
           note == pending[p.host]
           named == {s \in Range(confs[cfg].sets) : note # None /\ note.fresh /\ Sets[s].id = note.set /\ ~Sets[s].domainOnly}
       IN  /\ routed' = IF set # None /\ Routes(set) THEN [set |-> Sets[set].id, ip |-> p.ip, cfg |-> cfg]
                        ELSE IF named # {} THEN [set |-> note.set, ip |-> p.ip, cfg |-> cfg] ELSE routed
           /\ pending' = [pending EXCEPT ![p.host] = None]
    /\ worker' = NoPacket
    /\ UNCHANGED <<confs, cfg, cur, matchers, update, last, fetch, escalated, left>>

\* The redirected query is answered with the set and the configuration it began with,
\* or with SERVFAIL.
resolveDNSRedirect ==
    /\ fetch # <<>>
    /\ \/ UNCHANGED routed
       \/ /\ Routes(Head(fetch).set)
          /\ routed' = [set |-> Sets[Head(fetch).set].id, ip |-> Head(fetch).ip, cfg |-> Head(fetch).cfg]
    /\ fetch' = Tail(fetch)
    /\ UNCHANGED <<confs, cfg, cur, matchers, update, worker, last, pending, escalated, left>>

\* Two minutes pass; the ticker takes the note away.
NoteExpires(h) ==
    /\ pending[h] # None /\ pending[h].fresh
    /\ pending' = [pending EXCEPT ![h].fresh = FALSE]
    /\ UNCHANGED <<confs, cfg, cur, matchers, update, worker, last, fetch, routed, escalated, left>>

cleanupDNSPendingRoutes ==
    /\ \E h \in Hosts : pending[h] # None /\ ~pending[h].fresh
    /\ pending' = [h \in Hosts |-> IF pending[h] # None /\ pending[h].fresh THEN pending[h] ELSE None]
    /\ UNCHANGED <<confs, cfg, cur, matchers, update, worker, last, fetch, routed, escalated, left>>

-----------------------------------------------------------------------------
(* Escalations: module Escalation says when a host is moved; here it may happen to *)
(* the connection of the packet decided last, by the set it was handled with and   *)
(* the configuration in force by now.                                              *)

SetEscalation(h) ==
    /\ last.set # None /\ last.pkt.proto = "tcp" /\ last.pkt.host = h
    /\ LET next == GetSetById(confs[cfg], Sets[last.set].to)
       IN  /\ Sets[last.set].to # None /\ next # None /\ Sets[next].enabled
           /\ escalated' = [escalated EXCEPT ![h] = Sets[next].id]
    /\ UNCHANGED <<confs, cfg, cur, matchers, update, worker, last, pending, fetch, routed, left>>

\* Its time is over, or the user takes it back.
ClearEscalation(h) ==
    /\ escalated[h] # None
    /\ escalated' = [escalated EXCEPT ![h] = None]
    /\ UNCHANGED <<confs, cfg, cur, matchers, update, worker, last, pending, fetch, routed, left>>

-----------------------------------------------------------------------------
(* A new configuration *)

\* The matcher is kept when the sets are the same; else the learned addresses are
\* carried over here, and the worker is given configuration and matcher one after
\* the other.
UpdateConfig(conf) ==
    /\ update = "no" /\ left.updates > 0
    /\ left' = [left EXCEPT !.updates = @ - 1]
    /\ confs' = Append(confs, conf)
    /\ matchers' = IF conf.sets = confs[cfg].sets THEN matchers
                   ELSE Append(matchers, TransferLearnedIPs(conf.sets, matchers[cur]))
    /\ update' = "cfg"
    /\ UNCHANGED <<cfg, cur, worker, last, pending, fetch, routed, escalated>>

StoreConfig ==
    /\ update = "cfg"
    /\ cfg' = Len(confs)
    /\ update' = "matcher"
    /\ UNCHANGED <<confs, cur, matchers, worker, last, pending, fetch, routed, escalated, left>>

StoreMatcher ==
    /\ update = "matcher"
    /\ cur' = Len(matchers)
    /\ update' = IF cur = Len(matchers) THEN "no" ELSE "reset"
    /\ UNCHANGED <<confs, cfg, matchers, worker, last, pending, fetch, routed, escalated, left>>

\* With a new matcher the hosts go back to their sets.
ResetEscalations ==
    /\ update = "reset"
    /\ escalated' = [h \in Hosts |-> None]
    /\ update' = "no"
    /\ UNCHANGED <<confs, cfg, cur, matchers, worker, last, pending, fetch, routed, left>>

-----------------------------------------------------------------------------
Init ==
    /\ confs = <<Startup>> /\ cfg = 1
    /\ matchers = <<NewMatcher(Startup.sets)>> /\ cur = 1
    /\ update = "no"
    /\ worker = NoPacket
    /\ last = Undecided
    /\ pending = [h \in Hosts |-> None]
    /\ fetch = <<>>
    /\ routed = None
    /\ escalated = [h \in Hosts |-> None]
    /\ left = [packets |-> MaxPackets, updates |-> MaxUpdates]

Next ==
    \/ \E p \in Packets : dispatch(p)
    \/ LoadMatcher \/ handleTCPPacket \/ handleUDPPacket
    \/ DnsQuery \/ DnsResponse \/ resolveDNSRedirect
    \/ \E ip \in IPs : Expire(cur, ip)
    \/ \E h \in Hosts : NoteExpires(h) \/ SetEscalation(h) \/ ClearEscalation(h)
    \/ cleanupDNSPendingRoutes
    \/ \E conf \in Configs : UpdateConfig(conf)
    \/ StoreConfig \/ StoreMatcher \/ ResetEscalations

Spec == Init /\ [][Next]_vars

-----------------------------------------------------------------------------
(* Properties *)

\* A packet or query matches a set bound to devices by address, learned domain, name or
\* DNS only if its own device is one of them (or none of those excluded): the learned
\* address of another device's connection does not lend its set.  Two ways to a set do
\* not ask for the device and are not claimed: a set that has only ports
\* (MatchTCPPort), and the set an escalated host was moved to, which replaces the one
\* that matched when it is enabled (handler.go:396-411, 682-697).
DevicesRespected ==
    last.matched # None /\ last.how # "port" =>
        \/ Sets[last.matched].macs = {}
        \/ ~Sets[last.matched].exclude /\ last.pkt.mac \in Sets[last.matched].macs
        \/ Sets[last.matched].exclude /\ last.pkt.mac \notin Sets[last.matched].macs

\* A matcher has only learned what its own configuration says: the set of a learned
\* address is an enabled one of it, has the domain among its targets and is not bound
\* to names only; also after a reload while packets are handled (TransferLearnedIPs).
LearnedCurrent ==
    \A k \in DOMAIN matchers, ip \in IPs :
        LET e == matchers[k].learned[ip]
        IN  e # None => /\ Contains(matchers[k].sets, e.set) /\ Sets[e.set].enabled /\ ~Sets[e.set].domainOnly
                        /\ \/ \E d \in Range(ParentsOf[e.host]) : d \in Sets[e.set].domains
                           \/ \E r \in Sets[e.set].regexes : e.host \in r

\* The inputs on which the rules of routeSetDeviceGate admit exactly the devices that
\* the global filter and the set's own devices admit.
Agreeing ==
    {conf \in Configs : \A set \in Range(conf.sets), mac \in Macs :
        Admits(routeSetDeviceGate(conf.devices, Sets[set]), mac)
            <=> /\ setMatchesSource(set, mac)
                /\ \/ ~conf.devices.enabled \/ conf.devices.macs = {}
                   \/ mac \in conf.devices.macs <=> ~conf.devices.black}

\* The kernel and the matcher agree on the devices of a set: the rules of the stored
\* configuration admit a packet exactly if the global filter and the set do.
GatesAgree == confs[cfg] \in Agreeing

=============================================================================
