-------------------------- MODULE SetMatchingProofs --------------------------
(* Proofs about SetMatching, for every configuration, set, packet and number of *)
(* updates: the kernel's gate and the matcher agree on devices, no packet is    *)
(* handled by a set its device is not bound to, and what a matcher has learned  *)
(* is what its own configuration says.                                          *)
EXTENDS SetMatching, WellFoundedInduction, TLAPS

-----------------------------------------------------------------------------
(* Least elements and sequences *)

LEMMA LeastNat == ASSUME NEW T, T \subseteq Nat, T # {} PROVE \E n \in T : \A m \in T : n <= m
  <1> DEFINE R == {p \in Nat \X Nat : p[1] < p[2]}
  <1>1. PICK n \in T : \A m \in T : ~(<<m, n>> \in R)
    <2>1. IsWellFoundedOn(R, Nat)
      BY NatLessThanWellFounded DEF OpToRel
    <2> HIDE DEF R
    <2> QED
      BY <2>1, WFMin
  <1>2. ASSUME NEW m \in T PROVE n <= m
    <2>1. <<m, n>> \in Nat \X Nat /\ <<m, n>>[1] = m /\ <<m, n>>[2] = n
      OBVIOUS
    <2>2. ~(m < n)
      BY <1>1, <2>1
    <2> QED
      BY <2>2
  <1> QED
    BY <1>2

LEMMA MinIn == ASSUME NEW T, T \subseteq Nat, T # {} PROVE Min(T) \in T
  BY LeastNat DEF Min

IsSeq(s) == Len(s) \in Nat /\ DOMAIN s = 1 .. Len(s) /\ s = [i \in 1 .. Len(s) |-> s[i]]

LEMMA AppendIs ==
  ASSUME NEW s, IsSeq(s), NEW x
  PROVE  /\ IsSeq(Append(s, x)) /\ Len(Append(s, x)) = Len(s) + 1
         /\ \A i \in 1 .. Len(s) : Append(s, x)[i] = s[i]
         /\ Append(s, x)[Len(s) + 1] = x
  <1> DEFINE S == {s[i] : i \in 1 .. Len(s)} \cup {x}
  <1>1. s \in Seq(S)
    BY DEF IsSeq
  <1> HIDE DEF S
  <1>2. x \in S
    BY DEF S
  <1>3. Append(s, x) \in Seq(S) /\ Len(Append(s, x)) = Len(s) + 1
    BY <1>1, <1>2
  <1>4. (\A i \in 1 .. Len(s) : Append(s, x)[i] = s[i]) /\ Append(s, x)[Len(s) + 1] = x
    BY <1>1, <1>2
  <1>5. IsSeq(Append(s, x))
    <2> DEFINE t == Append(s, x)
    <2> HIDE DEF t
    <2>1. t \in Seq(S)
      BY <1>3 DEF t
    <2>2. IsSeq(t)
      BY <2>1 DEF IsSeq
    <2> QED
      BY <2>2 DEF t
  <1> QED
    BY <1>3, <1>4, <1>5

LEMMA SeqIs == ASSUME NEW S, NEW t \in Seq(S), NEW n \in Nat, DOMAIN t = 1 .. n PROVE Len(t) = n /\ IsSeq(t)
  BY DEF IsSeq

-----------------------------------------------------------------------------
(* The kernel's gate *)

\* What the jumps and the returns of a gate amount to.
LEMMA AdmitsIs ==
  ASSUME NEW gate, NEW mac, gate.enabled \in BOOLEAN, gate.black \in BOOLEAN, "any" \notin gate.macs, mac # "any"
  PROVE  Admits(gate, mac) <=> (gate.enabled => (mac \in gate.macs <=> ~gate.black))
  <1>1. CASE gate.enabled /\ ~gate.black
    <2>1. ASSUME NEW j \in {[mac |-> m] : m \in gate.macs}, j.mac \in {"any", mac} PROVE mac \in gate.macs
      BY <2>1
    <2>2. mac \in gate.macs => \E j \in {[mac |-> m] : m \in gate.macs} : j.mac \in {"any", mac}
      <3>1. [mac |-> mac].mac = mac
        OBVIOUS
      <3> QED
        BY <3>1
    <2> QED
      BY <1>1, <2>1, <2>2 DEF Admits, EmitGatedJump, routeAddBlacklistGate
  <1>2. CASE gate.enabled /\ gate.black
    BY <1>2 DEF Admits, EmitGatedJump, routeAddBlacklistGate
  <1>3. CASE ~gate.enabled
    BY <1>3 DEF Admits, EmitGatedJump, routeAddBlacklistGate
  <1> QED
    BY <1>1, <1>2, <1>3

LEMMA WhiteAdmits ==
  ASSUME NEW macs, NEW mac, "any" \notin macs, mac # "any"
  PROVE  Admits([enabled |-> TRUE, black |-> FALSE, macs |-> macs], mac) <=> mac \in macs
  <1> DEFINE gate == [enabled |-> TRUE, black |-> FALSE, macs |-> macs]
  <1>1. EmitGatedJump(gate) = {[mac |-> m] : m \in macs} /\ routeAddBlacklistGate(gate) = {}
    BY DEF EmitGatedJump, routeAddBlacklistGate
  <1> HIDE DEF gate
  <1>2. ASSUME NEW j \in EmitGatedJump(gate), j.mac \in {"any", mac} PROVE mac \in macs
    BY <1>1, <1>2
  <1>3. mac \in macs => \E j \in EmitGatedJump(gate) : j.mac \in {"any", mac}
    <2>1. [mac |-> mac].mac = mac
      OBVIOUS
    <2> QED
      BY <1>1, <2>1
  <1> QED
    BY <1>1, <1>2, <1>3 DEF gate, Admits

LEMMA BlackAdmits ==
  ASSUME NEW macs, NEW mac
  PROVE  Admits([enabled |-> TRUE, black |-> TRUE, macs |-> macs], mac) <=> mac \notin macs
  <1> DEFINE gate == [enabled |-> TRUE, black |-> TRUE, macs |-> macs]
  <1>1. EmitGatedJump(gate) = {[mac |-> "any"]} /\ routeAddBlacklistGate(gate) = macs
    BY DEF EmitGatedJump, routeAddBlacklistGate
  <1>2. [mac |-> "any"].mac = "any"
    OBVIOUS
  <1> HIDE DEF gate
  <1> QED
    BY <1>1, <1>2 DEF gate, Admits

\* The folded gate admits what the global filter and the set's own devices admit.
LEMMA GateFolds ==
  ASSUME NEW devices, devices.enabled \in BOOLEAN, devices.black \in BOOLEAN, "any" \notin devices.macs,
         NEW set, set.exclude \in BOOLEAN, "any" \notin set.macs, NEW mac, mac # "any"
  PROVE  Admits(routeSetDeviceGate(devices, set), mac)
            <=> /\ set.macs = {} \/ (IF set.exclude THEN mac \notin set.macs ELSE mac \in set.macs)
                /\ \/ ~devices.enabled \/ devices.macs = {}
                   \/ mac \in devices.macs <=> ~devices.black
  <1> DEFINE global == routeDeviceGateFor(devices)
             white == global.enabled /\ ~global.black
             gate == routeSetDeviceGate(devices, set)
  <1>1. /\ global.enabled \in BOOLEAN /\ global.black \in BOOLEAN /\ "any" \notin global.macs
        /\ global.enabled <=> devices.enabled /\ devices.macs # {}
        /\ global.enabled => global.macs = devices.macs /\ (global.black <=> devices.black)
        /\ ~global.enabled => global.macs = {}
    BY DEF routeDeviceGateFor, NoGate
  <1>2. CASE set.macs = {}
    <2>1. gate = global
      BY <1>2 DEF routeSetDeviceGate
    <2> HIDE DEF gate, global
    <2>2. Admits(gate, mac) <=> (global.enabled => (mac \in global.macs <=> ~global.black))
      BY <1>1, <2>1, AdmitsIs
    <2> QED
      BY <1>1, <1>2, <2>2 DEF gate
  <1>3. CASE set.macs # {} /\ set.exclude /\ white
    <2>1. gate = [enabled |-> TRUE, black |-> FALSE, macs |-> global.macs \ set.macs]
      BY <1>3 DEF routeSetDeviceGate
    <2>2. Admits(gate, mac) <=> mac \in global.macs \ set.macs
      BY <1>1, <2>1, WhiteAdmits
    <2> HIDE DEF gate, global
    <2> QED
      BY <1>1, <1>3, <2>2 DEF gate
  <1>4. CASE set.macs # {} /\ set.exclude /\ ~white
    <2>1. gate = [enabled |-> TRUE, black |-> TRUE, macs |-> global.macs \cup set.macs]
      BY <1>4 DEF routeSetDeviceGate
    <2>2. Admits(gate, mac) <=> mac \notin global.macs \cup set.macs
      BY <1>1, <2>1, BlackAdmits
    <2> HIDE DEF gate, global
    <2> QED
      BY <1>1, <1>4, <2>2 DEF gate
  <1>5. CASE set.macs # {} /\ ~set.exclude /\ white
    <2>1. gate = [enabled |-> TRUE, black |-> FALSE, macs |-> global.macs \cap set.macs]
      BY <1>5 DEF routeSetDeviceGate
    <2>2. Admits(gate, mac) <=> mac \in global.macs \cap set.macs
      BY <1>1, <2>1, WhiteAdmits
    <2> HIDE DEF gate, global
    <2> QED
      BY <1>1, <1>5, <2>2 DEF gate
  <1>6. CASE set.macs # {} /\ ~set.exclude /\ ~white
    <2>1. gate = [enabled |-> TRUE, black |-> FALSE, macs |-> set.macs \ global.macs]
      BY <1>6 DEF routeSetDeviceGate
    <2>2. Admits(gate, mac) <=> mac \in set.macs \ global.macs
      BY <1>1, <2>1, WhiteAdmits
    <2> HIDE DEF gate, global
    <2> QED
      BY <1>1, <1>6, <2>2 DEF gate
  <1> QED
    BY <1>2, <1>3, <1>4, <1>5, <1>6

LEMMA AllAgree == Agreeing = Configs
  <1> SUFFICES ASSUME NEW conf \in Configs, NEW set \in Range(conf.sets), NEW mac \in Macs
               PROVE  Admits(routeSetDeviceGate(conf.devices, Sets[set]), mac)
                        <=> /\ setMatchesSource(set, mac)
                            /\ \/ ~conf.devices.enabled \/ conf.devices.macs = {}
                               \/ mac \in conf.devices.macs <=> ~conf.devices.black
    BY DEF Agreeing
  <1>1. conf.sets \in Seq(DOMAIN Sets)
    BY ConfigsAssumption
  <1>2. set \in DOMAIN Sets
    BY <1>1 DEF Range
  <1>3. mac # "any"
    BY PacketsAssumption DEF Macs
  <1>4. /\ conf.devices.enabled \in BOOLEAN /\ conf.devices.black \in BOOLEAN /\ "any" \notin conf.devices.macs
        /\ Sets[set].exclude \in BOOLEAN /\ "any" \notin Sets[set].macs
    BY <1>2, ConfigsAssumption, SetsAssumption
  <1> QED
    BY <1>3, <1>4, GateFolds DEF setMatchesSource

-----------------------------------------------------------------------------
(* What the matcher finds *)

\* Every candidate has a place.
Placed(C) == \A c \in C : c.at \in Nat

LEMMA FirstIn == ASSUME NEW C, Placed(C), C # {} PROVE \E c \in C : First(C) = c.set
  <1> DEFINE T == {c.at : c \in C}
  <1>1. T \subseteq Nat /\ T # {}
    BY DEF Placed
  <1>2. PICK n \in T : \A m \in T : n <= m
    BY <1>1, LeastNat
  <1>3. \E c \in C : \A d \in C : c.at <= d.at
    BY <1>2
  <1> QED
    BY <1>3 DEF First

\* The set that is selected is one of the candidates and open to the device.
LEMMA SelectOpen ==
  ASSUME NEW C, Placed(C), NEW mac, NEW tls, NEW ver
  PROVE  LET set == selectSetBySourceAndTLS(C, mac, tls, ver)
         IN  set # None => setMatchesSource(set, mac) /\ \E c \in C : c.set = set
  <1> DEFINE set == selectSetBySourceAndTLS(C, mac, tls, ver)
             open == {c \in C : setMatchesSource(c.set, mac)}
  <1>1. CASE open = {}
    BY <1>1 DEF selectSetBySourceAndTLS
  <1>2. CASE open # {}
    <2>1. PICK D : D \subseteq open /\ D # {} /\ set = First(D)
      <3> DEFINE fitting == {c \in open : MatchesTLSVersion(c.set, tls) /\ MatchesIPVersion(c.set, ver)}
                 E == IF fitting # {} THEN fitting ELSE open
                 bound == {c \in E : Sets[c.set].macs # {}}
                 D == IF bound # {} THEN bound ELSE E
      <3>1. set = First(D)
        BY <1>2 DEF selectSetBySourceAndTLS
      <3>2. E \subseteq open /\ E # {}
        BY <1>2
      <3> HIDE DEF E
      <3>3. D \subseteq open /\ D # {}
        BY <3>2
      <3> QED
        BY <3>1, <3>3
    <2>2. Placed(D)
      BY <2>1 DEF Placed
    <2>3. PICK c \in D : set = c.set
      BY <2>1, <2>2, FirstIn
    <2> QED
      BY <2>1, <2>3
  <1> QED
    BY <1>1, <1>2

\* A set of the list that is enabled and has the host among its targets.
Targets(set, host) ==
    \/ \E d \in Range(ParentsOf[host]) : d \in Sets[set].domains
    \/ \E r \in Sets[set].regexes : host \in r

Knows(all, host, set) == Contains(all, set) /\ Sets[set].enabled /\ Targets(set, host)

LEMMA PlaceKnown ==
  ASSUME NEW all \in Seq(DOMAIN Sets), NEW i \in Enabled(all)
  PROVE  i \in Nat /\ all[i] \in DOMAIN Sets /\ Sets[all[i]].enabled /\ Contains(all, all[i])
  BY DEF Enabled, Contains

LEMMA DomainPlaced ==
  ASSUME NEW all \in Seq(DOMAIN Sets), NEW host PROVE Placed(findDomainCandidates(all, host))
  <1> SUFFICES ASSUME NEW c \in findDomainCandidates(all, host) PROVE c.at \in Nat
    BY DEF Placed
  <1>1. PICK i \in Enabled(all) : c = [at |-> i, set |-> all[i]]
    BY DEF findDomainCandidates, Candidates
  <1> QED
    BY <1>1, PlaceKnown

LEMMA DomainKnown ==
  ASSUME NEW all \in Seq(DOMAIN Sets), NEW host \in Hosts, NEW c \in findDomainCandidates(all, host)
  PROVE  Knows(all, host, c.set)
  <1> DEFINE naming(n) == {i \in Enabled(all) : ParentsOf[host][n] \in Sets[all[i]].domains}
             named == {n \in DOMAIN ParentsOf[host] : naming(n) # {}}
  <1>1. named # {} /\ c \in Candidates(all, naming(Min(named)))
    BY DEF findDomainCandidates
  <1>2. named \subseteq Nat
    BY PacketsAssumption DEF Hosts
  <1>3. Min(named) \in named
    BY <1>1, <1>2, MinIn
  <1>4. PICK i \in naming(Min(named)) : c = [at |-> i, set |-> all[i]]
    BY <1>1 DEF Candidates
  <1>5. c.set = all[i] /\ i \in Enabled(all) /\ ParentsOf[host][Min(named)] \in Sets[all[i]].domains
    BY <1>4
  <1>6. ParentsOf[host][Min(named)] \in Range(ParentsOf[host])
    BY <1>3 DEF Range
  <1> QED
    BY <1>5, <1>6, PlaceKnown DEF Knows, Targets

LEMMA RegexKnown ==
  ASSUME NEW all \in Seq(DOMAIN Sets), NEW host, NEW c \in RegexCandidates(all, host)
  PROVE  c.at \in Nat /\ Knows(all, host, c.set)
  <1> DEFINE having(r) == {i \in Enabled(all) : r \in Sets[all[i]].regexes}
             hit == {r \in UNION {Sets[all[i]].regexes : i \in Enabled(all)} : host \in r}
  <1>1. PICK r \in hit : c = [at |-> Min(having(r)), set |-> all[Min(having(r))]]
    BY DEF RegexCandidates, Candidates
  <1>2. having(r) # {} /\ host \in r
    OBVIOUS
  <1>3. having(r) \subseteq Nat
    BY PlaceKnown
  <1>4. Min(having(r)) \in having(r)
    BY <1>2, <1>3, MinIn
  <1> QED
    BY <1>1, <1>2, <1>4, PlaceKnown DEF Knows, Targets

LEMMA RegexPlaced ==
  ASSUME NEW all \in Seq(DOMAIN Sets), NEW host PROVE Placed(RegexCandidates(all, host))
  BY RegexKnown DEF Placed

LEMMA PrefixRest == \A l \in 0 .. 128 : 128 - l \in Nat
  OBVIOUS

LEMMA NetworksPlaced ==
  ASSUME NEW all \in Seq(DOMAIN Sets), NEW ip PROVE Placed(sortEntriesBySpecificity(all, ip))
  <1> SUFFICES ASSUME NEW c \in sortEntriesBySpecificity(all, ip) PROVE c.at \in Nat
    BY DEF Placed
  <1>1. PICK i \in Enabled(all) : \E n \in Sets[all[i]].nets : c.at = 128 - n.len
    BY DEF sortEntriesBySpecificity
  <1>2. PICK n \in Sets[all[i]].nets : c.at = 128 - n.len
    BY <1>1
  <1>3. n.len \in 0 .. 128
    <2>1. all[i] \in DOMAIN Sets
      BY PlaceKnown
    <2> QED
      BY <2>1, SetsAssumption
  <1>4. 128 - n.len \in Nat
    BY <1>3, PrefixRest, Zenon
  <1> QED
    BY <1>2, <1>4, Zenon

LEMMA SourceOpen ==
  ASSUME NEW all \in Seq(DOMAIN Sets), NEW host, NEW mac, NEW tls, NEW ver
  PROVE  LET set == MatchSNIWithSourceTLS(all, host, mac, tls, ver)
         IN  set # None => setMatchesSource(set, mac) /\ (host \in Hosts => Knows(all, host, set))
  <1> DEFINE C == findDomainCandidates(all, host)
             D == RegexCandidates(all, host)
             byDomain == selectSetBySourceAndTLS(C, mac, tls, ver)
             byRegex == selectSetBySourceAndTLS(D, mac, tls, ver)
  <1>1. byDomain # None => setMatchesSource(byDomain, mac) /\ \E c \in C : c.set = byDomain
    <2>1. Placed(C)
      BY DomainPlaced
    <2> HIDE DEF C
    <2> QED
      BY <2>1, SelectOpen
  <1>2. byRegex # None => setMatchesSource(byRegex, mac) /\ \E c \in D : c.set = byRegex
    <2>1. Placed(D)
      BY RegexPlaced
    <2> HIDE DEF D
    <2> QED
      BY <2>1, SelectOpen
  <1>3. MatchSNIWithSourceTLS(all, host, mac, tls, ver) = IF byDomain # None THEN byDomain ELSE byRegex
    BY DEF MatchSNIWithSourceTLS
  <1>4. \A c \in C : host \in Hosts => Knows(all, host, c.set)
    BY DomainKnown
  <1>5. \A c \in D : Knows(all, host, c.set)
    BY RegexKnown
  <1> HIDE DEF C, D, byDomain, byRegex
  <1> QED
    BY <1>1, <1>2, <1>3, <1>4, <1>5

LEMMA PlainKnown ==
  ASSUME NEW all \in Seq(DOMAIN Sets), NEW host \in Hosts, MatchSNI(all, host) # None
  PROVE  Knows(all, host, MatchSNI(all, host))
  <1> DEFINE C == findDomainCandidates(all, host)
             D == RegexCandidates(all, host)
  <1>1. MatchSNI(all, host) = IF C # {} THEN First(C) ELSE IF D # {} THEN First(D) ELSE None
    BY DEF MatchSNI
  <1>2. Placed(C) /\ \A c \in C : Knows(all, host, c.set)
    BY DomainPlaced, DomainKnown
  <1>3. Placed(D) /\ \A c \in D : Knows(all, host, c.set)
    BY RegexPlaced, RegexKnown
  <1> HIDE DEF C, D
  <1> QED
    BY <1>1, <1>2, <1>3, FirstIn

-----------------------------------------------------------------------------
(* What a matcher has learned *)

IsEntry(e) == DOMAIN e = {"host", "set", "fresh"} /\ e = [f \in DOMAIN e |-> e[f]]

\* An entry says what the configuration of its matcher says.
Sound(all, e) ==
    e # None => IsEntry(e) /\ e.host \in Hosts /\ Knows(all, e.host, e.set) /\ ~Sets[e.set].domainOnly

IsMatcher(m) ==
    /\ DOMAIN m = {"sets", "learned", "lru"} /\ m = [f \in DOMAIN m |-> m[f]]
    /\ m.sets \in Seq(DOMAIN Sets)
    /\ DOMAIN m.learned = IPs /\ m.learned = [i \in IPs |-> m.learned[i]]
    /\ \A i \in IPs : Sound(m.sets, m.learned[i])

LEMMA NewIsMatcher == ASSUME NEW sets \in Seq(DOMAIN Sets) PROVE IsMatcher(NewMatcher(sets))
  BY DEF IsMatcher, NewMatcher, Sound

\* A matcher whose entries are replaced by sound ones.
LEMMA RelearnedIsMatcher ==
  ASSUME NEW m, IsMatcher(m), NEW l, DOMAIN l = IPs, l = [i \in IPs |-> l[i]],
         \A i \in IPs : Sound(m.sets, l[i]), NEW q
  PROVE  LET n == [m EXCEPT !.learned = l, !.lru = q] IN IsMatcher(n) /\ n.sets = m.sets
  <1> DEFINE n == [m EXCEPT !.learned = l, !.lru = q]
  <1>1. /\ DOMAIN n = {"sets", "learned", "lru"} /\ n = [f \in DOMAIN n |-> n[f]]
        /\ n.sets = m.sets /\ n.learned = l
    BY DEF IsMatcher
  <1> HIDE DEF n
  <1>2. IsMatcher(n)
    BY <1>1 DEF IsMatcher
  <1> QED
    BY <1>1, <1>2 DEF n

LEMMA EntrySound ==
  ASSUME NEW all, NEW host \in Hosts, NEW set, Knows(all, host, set), ~Sets[set].domainOnly
  PROVE  Sound(all, [host |-> host, set |-> set, fresh |-> TRUE])
  <1> DEFINE e == [host |-> host, set |-> set, fresh |-> TRUE]
  <1>1. IsEntry(e) /\ e.host = host /\ e.set = set
    BY DEF IsEntry
  <1> HIDE DEF e
  <1>2. Sound(all, e)
    BY <1>1 DEF Sound
  <1> QED
    BY <1>2 DEF e

LEMMA AgeKept ==
  ASSUME NEW all, NEW e, e # None, Sound(all, e), NEW b
  PROVE  Sound(all, [e EXCEPT !.fresh = b])
  <1> DEFINE n == [e EXCEPT !.fresh = b]
  <1>1. IsEntry(n) /\ n.host = e.host /\ n.set = e.set
    BY DEF Sound, IsEntry
  <1> HIDE DEF n
  <1>2. Sound(all, n)
    BY <1>1 DEF Sound
  <1> QED
    BY <1>2 DEF n

LEMMA LearnKept ==
  ASSUME NEW m, IsMatcher(m), NEW ip \in IPs, NEW host \in Hosts, NEW set, Knows(m.sets, host, set)
  PROVE  IsMatcher(LearnIPToDomain(m, ip, host, set))
  <1>1. CASE Sets[set].domainOnly
    BY <1>1 DEF LearnIPToDomain
  <1>2. CASE ~Sets[set].domainOnly
    <2>1. PICK kept : LearnIPToDomain(m, ip, host, set) =
                        [m EXCEPT !.lru = kept,
                                  !.learned = [i \in IPs |-> IF i = ip THEN [host |-> host, set |-> set, fresh |-> TRUE]
                                                             ELSE IF Contains(kept, i) THEN m.learned[i] ELSE None]]
      BY <1>2 DEF LearnIPToDomain
    <2> DEFINE new == [host |-> host, set |-> set, fresh |-> TRUE]
               l == [i \in IPs |-> IF i = ip THEN new ELSE IF Contains(kept, i) THEN m.learned[i] ELSE None]
    <2>2. Sound(m.sets, new)
      BY <1>2, EntrySound
    <2> HIDE DEF new
    <2>3. \A i \in IPs : Sound(m.sets, l[i])
      <3> SUFFICES ASSUME NEW i \in IPs PROVE Sound(m.sets, l[i])
        OBVIOUS
      <3>1. l[i] = new \/ l[i] = m.learned[i] \/ l[i] = None
        OBVIOUS
      <3>2. Sound(m.sets, m.learned[i]) /\ Sound(m.sets, None)
        BY DEF IsMatcher, Sound
      <3> QED
        BY <2>2, <3>1, <3>2
    <2>4. DOMAIN l = IPs /\ l = [i \in IPs |-> l[i]]
      OBVIOUS
    <2>5. LearnIPToDomain(m, ip, host, set) = [m EXCEPT !.lru = kept, !.learned = l]
      BY <2>1 DEF new
    <2> HIDE DEF l
    <2>6. [m EXCEPT !.lru = kept, !.learned = l] = [m EXCEPT !.learned = l, !.lru = kept]
      BY DEF IsMatcher
    <2>7. IsMatcher([m EXCEPT !.learned = l, !.lru = kept])
      BY <2>3, <2>4, RelearnedIsMatcher
    <2> QED
      BY <2>5, <2>6, <2>7
  <1> QED
    BY <1>1, <1>2

LEMMA LearnedFound ==
  ASSUME NEW m, IsMatcher(m), NEW ip \in IPs, NEW mac, NEW ver
  PROVE  LET found == MatchLearnedIPWithSource(m, ip, mac, ver)
         IN  /\ IsMatcher(found.m) /\ found.m.sets = m.sets
             /\ found.set # None => setMatchesSource(found.set, mac) /\ found.host \in Hosts
  <1> DEFINE found == MatchLearnedIPWithSource(m, ip, mac, ver)
             e == m.learned[ip]
             alt == MatchSNIWithSourceTLS(m.sets, e.host, mac, None, ver)
             hit == [m EXCEPT !.learned[ip].fresh = TRUE, !.lru = <<ip>> \o SelectSeq(@, LAMBDA i : i # ip)]
             gone == [m EXCEPT !.learned[ip] = None, !.lru = SelectSeq(@, LAMBDA i : i # ip)]
  <1>1. m.sets \in Seq(DOMAIN Sets) /\ Sound(m.sets, e)
    BY DEF IsMatcher
  <1>2. alt # None => setMatchesSource(alt, mac)
    BY <1>1, SourceOpen
  <1>3. \/ found = [set |-> None, host |-> None, m |-> m]
        \/ e # None /\ found = [set |-> None, host |-> None, m |-> gone]
        \/ e # None /\ setMatchesSource(e.set, mac) /\ found = [set |-> e.set, host |-> e.host, m |-> hit]
        \/ e # None /\ alt # None /\ found = [set |-> alt, host |-> e.host, m |-> hit]
    BY DEF MatchLearnedIPWithSource
  <1>4. ASSUME e # None PROVE IsMatcher(hit) /\ hit.sets = m.sets
    <2> DEFINE l == [m.learned EXCEPT ![ip] = [e EXCEPT !.fresh = TRUE]]
    <2>1. PICK q : hit = [m EXCEPT !.learned = l, !.lru = q]
      BY DEF IsMatcher
    <2>2. Sound(m.sets, [e EXCEPT !.fresh = TRUE])
      BY <1>1, <1>4, AgeKept
    <2>3. DOMAIN l = IPs /\ l = [i \in IPs |-> l[i]] /\ \A i \in IPs : Sound(m.sets, l[i])
      BY <2>2 DEF IsMatcher
    <2> HIDE DEF l, hit
    <2> QED
      BY <2>1, <2>3, RelearnedIsMatcher
  <1>5. IsMatcher(gone) /\ gone.sets = m.sets
    <2> DEFINE l == [m.learned EXCEPT ![ip] = None]
    <2>1. PICK q : gone = [m EXCEPT !.learned = l, !.lru = q]
      BY DEF IsMatcher
    <2>2. Sound(m.sets, None)
      BY DEF Sound
    <2>3. DOMAIN l = IPs /\ l = [i \in IPs |-> l[i]] /\ \A i \in IPs : Sound(m.sets, l[i])
      BY <2>2 DEF IsMatcher
    <2> HIDE DEF l, gone
    <2> QED
      BY <2>1, <2>3, RelearnedIsMatcher
  <1> HIDE DEF found, alt, hit, gone
  <1> QED
    BY <1>1, <1>2, <1>3, <1>4, <1>5 DEF found, Sound

LEMMA TransferKept ==
  ASSUME NEW sets \in Seq(DOMAIN Sets), NEW old, IsMatcher(old)
  PROVE  IsMatcher(TransferLearnedIPs(sets, old))
  <1> DEFINE new == [i \in {j \in IPs : old.learned[j] # None /\ old.learned[j].fresh} |->
                        MatchSNI(sets, old.learned[i].host)]
             keep == {i \in DOMAIN new : new[i] # None /\ ~Sets[new[i]].domainOnly}
             l == [i \in IPs |-> IF i \in keep THEN [host |-> old.learned[i].host, set |-> new[i], fresh |-> TRUE]
                                 ELSE None]
  <1>1. TransferLearnedIPs(sets, old) = [NewMatcher(sets) EXCEPT !.learned = l, !.lru = SetToSeq(keep)]
    BY DEF TransferLearnedIPs
  <1>2. ASSUME NEW i \in IPs PROVE Sound(sets, l[i])
    <2>1. CASE i \in keep
      <3>1. old.learned[i] # None /\ new[i] = MatchSNI(sets, old.learned[i].host) /\ new[i] # None
        BY <2>1
      <3>2. old.learned[i].host \in Hosts
        BY <3>1 DEF IsMatcher, Sound
      <3>3. Knows(sets, old.learned[i].host, new[i])
        BY <3>1, <3>2, PlainKnown
      <3>4. ~Sets[new[i]].domainOnly
        BY <2>1
      <3>5. l[i] = [host |-> old.learned[i].host, set |-> new[i], fresh |-> TRUE]
        BY <2>1
      <3> HIDE DEF l, new
      <3> QED
        BY <3>2, <3>3, <3>4, <3>5, EntrySound
    <2>2. CASE i \notin keep
      <3>1. l[i] = None
        BY <2>2
      <3> QED
        BY <3>1 DEF Sound
    <2> QED
      BY <2>1, <2>2
  <1>3. DOMAIN l = IPs /\ l = [i \in IPs |-> l[i]]
    OBVIOUS
  <1>4. IsMatcher(NewMatcher(sets)) /\ NewMatcher(sets).sets = sets
    BY NewIsMatcher DEF NewMatcher
  <1> DEFINE n == NewMatcher(sets)  q == SetToSeq(keep)
  <1> HIDE DEF l, keep, new, n, q
  <1>5. IsMatcher(n) /\ \A i \in IPs : Sound(n.sets, l[i])
    BY <1>2, <1>4 DEF n
  <1>6. IsMatcher([n EXCEPT !.learned = l, !.lru = q])
    BY <1>3, <1>5, RelearnedIsMatcher
  <1> QED
    BY <1>1, <1>6 DEF n, q

-----------------------------------------------------------------------------
(* The inductive invariant *)

ConfsOK == IsSeq(confs) /\ cfg \in 1 .. Len(confs) /\ \A i \in 1 .. Len(confs) : confs[i] \in Configs

MatchersOK == IsSeq(matchers) /\ cur \in 1 .. Len(matchers) /\ \A k \in 1 .. Len(matchers) : IsMatcher(matchers[k])

\* The packet in flight, and the matcher it was given.
WorkerOK ==
    /\ worker \in [pc : {"idle", "load", "tcp", "udp", "query", "answer"}, pkt : Packets \cup {None},
                   cfg : Nat, m : Nat]
    /\ worker.pc # "idle" => worker.pkt \in Packets
    /\ worker.pc \in {"tcp", "udp"} => worker.m \in 1 .. Len(matchers)

Inv == ConfsOK /\ MatchersOK /\ WorkerOK /\ DevicesRespected

LEMMA Starts == Init => Inv
  <1> SUFFICES ASSUME Init PROVE Inv
    OBVIOUS
  <1>1. ConfsOK
    BY ConfigsAssumption DEF Init, ConfsOK, IsSeq
  <1>2. MatchersOK
    <2>1. IsMatcher(NewMatcher(Startup.sets))
      BY ConfigsAssumption, NewIsMatcher
    <2> QED
      BY <2>1 DEF Init, MatchersOK, IsSeq
  <1>3. WorkerOK /\ DevicesRespected
    BY DEF Init, WorkerOK, NoPacket, DevicesRespected, Undecided
  <1> QED
    BY <1>1, <1>2, <1>3 DEF Inv

LEMMA MatcherReplaced ==
  ASSUME MatchersOK, NEW k \in 1 .. Len(matchers), NEW m, IsMatcher(m),
         matchers' = [matchers EXCEPT ![k] = m], cur' = cur
  PROVE  MatchersOK' /\ Len(matchers') = Len(matchers)
  <1>1. /\ IsSeq(matchers') /\ Len(matchers') = Len(matchers) /\ matchers'[k] = m
        /\ \A i \in 1 .. Len(matchers) : i # k => matchers'[i] = matchers[i]
    <2> DEFINE S == {matchers[i] : i \in 1 .. Len(matchers)} \cup {m}
    <2>1. IsSeq(matchers)
      BY DEF MatchersOK
    <2>2. matchers' \in Seq(S) /\ DOMAIN matchers' = 1 .. Len(matchers)
      BY <2>1 DEF IsSeq
    <2>3. matchers'[k] = m /\ \A i \in 1 .. Len(matchers) : i # k => matchers'[i] = matchers[i]
      BY <2>1 DEF IsSeq
    <2>4. Len(matchers) \in Nat
      BY <2>1 DEF IsSeq
    <2> HIDE DEF S
    <2>5. IsSeq(matchers') /\ Len(matchers') = Len(matchers)
      BY <2>2, <2>4, SeqIs
    <2> QED
      BY <2>3, <2>5
  <1> QED
    BY <1>1 DEF MatchersOK

LEMMA DecideKept ==
  ASSUME Inv, NEW set, NEW how, NEW host, NEW k \in 1 .. Len(matchers), NEW m, IsMatcher(m),
         Decide(set, how, host, k, m),
         set # None /\ how # "port" => setMatchesSource(set, worker.pkt.mac), UNCHANGED <<confs, cfg, cur>>
  PROVE  Inv'
  <1>1. MatchersOK'
    BY MatcherReplaced DEF Inv, Decide
  <1>2. WorkerOK'
    BY DEF Decide, NoPacket, WorkerOK
  <1>3. DevicesRespected'
    <2>1. last'.matched = set /\ last'.pkt = worker.pkt /\ (set # None => last'.how = how)
      BY DEF Decide
    <2> QED
      BY <2>1 DEF DevicesRespected, setMatchesSource
  <1>4. ConfsOK'
    BY DEF Inv, ConfsOK
  <1> QED
    BY <1>1, <1>2, <1>3, <1>4 DEF Inv

LEMMA NetworkOpen ==
  ASSUME NEW all \in Seq(DOMAIN Sets), NEW ip, NEW mac, NEW ver
  PROVE  LET set == MatchIPWithSource(all, ip, mac, ver) IN set # None => setMatchesSource(set, mac)
  <1> DEFINE C == sortEntriesBySpecificity(all, ip)
  <1>1. Placed(C)
    BY NetworksPlaced
  <1>2. MatchIPWithSource(all, ip, mac, ver) = selectSetBySourceAndTLS(C, mac, None, ver)
    BY DEF MatchIPWithSource
  <1> HIDE DEF C
  <1> QED
    BY <1>1, <1>2, SelectOpen

LEMMA TCPKept == Inv /\ handleTCPPacket => Inv'
  <1> SUFFICES ASSUME Inv, handleTCPPacket PROVE Inv'
    OBVIOUS
  <1> DEFINE p == worker.pkt
             k == worker.m
             m == matchers[k]
             l == MatchLearnedIPWithSource(m, p.ip, p.mac, p.ver)
             byIP == MatchIPWithSource(m.sets, p.ip, p.mac, p.ver)
             bySNI == IF p.host = None THEN None ELSE MatchSNIWithSourceTLS(m.sets, p.host, p.mac, p.tls, p.ver)
  <1>1. p \in Packets /\ k \in 1 .. Len(matchers) /\ IsMatcher(m) /\ UNCHANGED <<confs, cfg, cur>>
    BY DEF Inv, WorkerOK, MatchersOK, handleTCPPacket
  <1>2. p.ip \in IPs /\ (p.host # None => p.host \in Hosts) /\ m.sets \in Seq(DOMAIN Sets)
    BY <1>1, PacketsAssumption DEF Hosts, IsMatcher
  <1>3. IsMatcher(l.m) /\ l.m.sets = m.sets /\ (l.set # None => setMatchesSource(l.set, p.mac))
    BY <1>1, <1>2, LearnedFound
  <1>4. byIP # None => setMatchesSource(byIP, p.mac)
    BY <1>2, NetworkOpen
  <1>5. bySNI # None => p.host \in Hosts /\ setMatchesSource(bySNI, p.mac) /\ Knows(m.sets, p.host, bySNI)
    BY <1>2, SourceOpen
  <1>6. \/ bySNI # None /\ Decide(bySNI, "sni", p.host, k, LearnIPToDomain(l.m, p.ip, p.host, bySNI))
        \/ \E set, how, h : /\ Decide(set, how, h, k, l.m)
                            /\ set # None /\ how # "port" => set = l.set \/ set = byIP
    <2> DEFINE found == FoundTCP(l, byIP, MatchPort(m.sets, "tcp", p.port), p)
               kept == IF ~Copies(found.set) /\ Declines(found, p) THEN None ELSE found.set
    <2>1. \/ Fits(bySNI, "tcp", p.port) /\ Decide(bySNI, "sni", p.host, k, LearnIPToDomain(l.m, p.ip, p.host, bySNI))
          \/ Decide(kept, found.how, IF Copies(found.set) THEN None ELSE p.host, k, l.m)
      BY DEF handleTCPPacket
    <2>2. found.how # "port" => found.set = l.set \/ found.set = byIP
      BY DEF FoundTCP
    <2>3. kept = None \/ kept = found.set
      OBVIOUS
    <2> HIDE DEF kept, found, l, byIP, bySNI
    <2> QED
      BY <2>1, <2>2, <2>3 DEF Fits
  <1>7. CASE bySNI # None /\ Decide(bySNI, "sni", p.host, k, LearnIPToDomain(l.m, p.ip, p.host, bySNI))
    <2>1. IsMatcher(LearnIPToDomain(l.m, p.ip, p.host, bySNI))
      <3> HIDE DEF l, bySNI
      <3> QED
        BY <1>2, <1>3, <1>5, <1>7, LearnKept
    <2> QED
      BY <1>1, <1>5, <1>7, <2>1, DecideKept
  <1>8. CASE \E set, how, h : /\ Decide(set, how, h, k, l.m)
                              /\ set # None /\ how # "port" => set = l.set \/ set = byIP
    <2> HIDE DEF l, byIP
    <2>1. PICK set, how, h : /\ Decide(set, how, h, k, l.m)
                             /\ set # None /\ how # "port" => set = l.set \/ set = byIP
      BY <1>8
    <2>2. set # None /\ how # "port" => setMatchesSource(set, worker.pkt.mac)
      BY <1>3, <1>4, <2>1
    <2>3. IsMatcher(l.m) /\ k \in 1 .. Len(matchers) /\ UNCHANGED <<confs, cfg, cur>>
      BY <1>1, <1>3
    <2>4. Decide(set, how, h, k, l.m)
      BY <2>1
    <2> HIDE DEF k
    <2> QED
      BY <2>2, <2>3, <2>4, DecideKept
  <1> QED
    BY <1>6, <1>7, <1>8

LEMMA UDPKept == Inv /\ handleUDPPacket => Inv'
  <1> SUFFICES ASSUME Inv, handleUDPPacket PROVE Inv'
    OBVIOUS
  <1> DEFINE p == worker.pkt
             k == worker.m
             m == matchers[k]
             byIP == MatchIPWithSource(m.sets, p.ip, p.mac, p.ver)
             looked == MatchLearnedIPWithSource(m, p.ip, p.mac, p.ver)
             l == IF Fits(byIP, "udp", p.port) THEN [set |-> None, host |-> None, m |-> m] ELSE looked
             host == IF Fits(l.set, "udp", p.port) THEN l.host ELSE p.host
             bySNI == IF host = None THEN None ELSE MatchSNIWithSourceTLS(m.sets, host, p.mac, "1.3", p.ver)
  <1>1. p \in Packets /\ k \in 1 .. Len(matchers) /\ IsMatcher(m) /\ UNCHANGED <<confs, cfg, cur>>
    BY DEF Inv, WorkerOK, MatchersOK, handleUDPPacket
  <1>2. p.ip \in IPs /\ (p.host # None => p.host \in Hosts) /\ m.sets \in Seq(DOMAIN Sets)
    BY <1>1, PacketsAssumption DEF Hosts, IsMatcher
  <1>3. /\ IsMatcher(l.m) /\ l.m.sets = m.sets
        /\ l.set # None => setMatchesSource(l.set, p.mac) /\ l.host \in Hosts
    <2>1. /\ IsMatcher(looked.m) /\ looked.m.sets = m.sets
          /\ looked.set # None => setMatchesSource(looked.set, p.mac) /\ looked.host \in Hosts
      BY <1>1, <1>2, LearnedFound
    <2> HIDE DEF looked
    <2> QED
      BY <1>1, <2>1
  <1>4. byIP # None => setMatchesSource(byIP, p.mac)
    BY <1>2, NetworkOpen
  <1>5. bySNI # None => host \in Hosts /\ setMatchesSource(bySNI, p.mac) /\ Knows(m.sets, host, bySNI)
    <2>1. host # None => host \in Hosts
      <3> HIDE DEF l
      <3> QED
        BY <1>2, <1>3 DEF Fits
    <2> HIDE DEF host
    <2> QED
      BY <1>2, <2>1, SourceOpen
  <1>6. \/ bySNI # None /\ Decide(bySNI, "sni", host, k, LearnIPToDomain(l.m, p.ip, host, bySNI))
        \/ \E set, how, h : /\ Decide(set, how, h, k, l.m)
                            /\ set # None /\ how # "port" => set = l.set \/ set = byIP
    <2> DEFINE found == FoundUDP(byIP, l, MatchPort(m.sets, "udp", p.port), p)
    <2>1. \/ Fits(bySNI, "udp", p.port) /\ Decide(bySNI, "sni", host, k, LearnIPToDomain(l.m, p.ip, host, bySNI))
          \/ Decide(found.set, found.how, host, k, l.m)
      BY DEF handleUDPPacket
    <2>2. found.how # "port" => found.set = l.set \/ found.set = byIP
      BY DEF FoundUDP
    <2> HIDE DEF found, l, byIP, bySNI
    <2> QED
      BY <2>1, <2>2 DEF Fits
  <1> HIDE DEF l, byIP, bySNI, host
  <1>7. CASE bySNI # None /\ Decide(bySNI, "sni", host, k, LearnIPToDomain(l.m, p.ip, host, bySNI))
    <2>1. IsMatcher(LearnIPToDomain(l.m, p.ip, host, bySNI))
      BY <1>2, <1>3, <1>5, <1>7, LearnKept
    <2> QED
      BY <1>1, <1>5, <1>7, <2>1, DecideKept
  <1>8. CASE \E set, how, h : /\ Decide(set, how, h, k, l.m)
                              /\ set # None /\ how # "port" => set = l.set \/ set = byIP
    <2>1. PICK set, how, h : /\ Decide(set, how, h, k, l.m)
                             /\ set # None /\ how # "port" => set = l.set \/ set = byIP
      BY <1>8
    <2>2. set # None /\ how # "port" => setMatchesSource(set, worker.pkt.mac)
      BY <1>3, <1>4, <2>1
    <2>3. IsMatcher(l.m) /\ k \in 1 .. Len(matchers) /\ UNCHANGED <<confs, cfg, cur>>
      BY <1>1, <1>3
    <2>4. Decide(set, how, h, k, l.m)
      BY <2>1
    <2> HIDE DEF k
    <2> QED
      BY <2>2, <2>3, <2>4, DecideKept
  <1> QED
    BY <1>6, <1>7, <1>8

LEMMA QueryKept == Inv /\ DnsQuery => Inv'
  <1> SUFFICES ASSUME Inv, DnsQuery PROVE Inv'
    OBVIOUS
  <1> DEFINE set == MatchSNIWithSourceTLS(matchers[cur].sets, worker.pkt.host, worker.pkt.mac, None, None)
  <1>1. cur \in 1 .. Len(matchers) /\ IsMatcher(matchers[cur])
    BY DEF Inv, MatchersOK
  <1>2. matchers[cur].sets \in Seq(DOMAIN Sets)
    BY <1>1 DEF IsMatcher
  <1>3. set # None => setMatchesSource(set, worker.pkt.mac)
    BY <1>2, SourceOpen
  <1>4. Decide(set, "dns", None, cur, matchers[cur]) /\ UNCHANGED <<confs, cfg, cur>>
    BY DEF DnsQuery
  <1> HIDE DEF set
  <1> QED
    BY <1>1, <1>3, <1>4, DecideKept

LEMMA UpdateKept == ASSUME Inv, NEW conf \in Configs, UpdateConfig(conf) PROVE Inv'
  <1>1. confs' = Append(confs, conf) /\ UNCHANGED <<cfg, cur, worker, last>>
    BY DEF UpdateConfig
  <1>2. ConfsOK'
    <2>1. /\ IsSeq(confs') /\ Len(confs') = Len(confs) + 1 /\ confs'[Len(confs) + 1] = conf
          /\ \A i \in 1 .. Len(confs) : confs'[i] = confs[i]
      BY <1>1, AppendIs DEF Inv, ConfsOK
    <2>2. Len(confs) \in Nat
      BY DEF Inv, ConfsOK, IsSeq
    <2> QED
      BY <1>1, <2>1, <2>2 DEF Inv, ConfsOK
  <1>3. MatchersOK' /\ Len(matchers) <= Len(matchers')
    <2>1. CASE matchers' = matchers
      BY <1>1, <2>1 DEF Inv, MatchersOK, IsSeq
    <2>2. CASE matchers' # matchers
      <3> DEFINE m == TransferLearnedIPs(conf.sets, matchers[cur])
      <3>1. matchers' = Append(matchers, m)
        BY <2>2 DEF UpdateConfig
      <3>2. IsMatcher(m)
        BY ConfigsAssumption, TransferKept DEF Inv, MatchersOK
      <3> HIDE DEF m
      <3>3. /\ IsSeq(matchers') /\ Len(matchers') = Len(matchers) + 1 /\ matchers'[Len(matchers) + 1] = m
            /\ \A i \in 1 .. Len(matchers) : matchers'[i] = matchers[i]
        BY <3>1, AppendIs DEF Inv, MatchersOK
      <3>4. Len(matchers) \in Nat
        BY DEF Inv, MatchersOK, IsSeq
      <3> QED
        BY <1>1, <3>2, <3>3, <3>4 DEF Inv, MatchersOK
    <2> QED
      BY <2>1, <2>2
  <1>4. Len(matchers) \in Nat /\ Len(matchers') \in Nat
    BY <1>3 DEF Inv, MatchersOK, IsSeq
  <1>5. WorkerOK'
    BY <1>1, <1>3, <1>4 DEF Inv, WorkerOK
  <1>6. DevicesRespected'
    BY <1>1 DEF Inv, DevicesRespected
  <1> QED
    BY <1>2, <1>3, <1>5, <1>6 DEF Inv

LEMMA ExpireKept == ASSUME Inv, NEW ip \in IPs, Expire(cur, ip) PROVE Inv'
  <1> DEFINE old == matchers[cur]
             e == old.learned[ip]
             l == [old.learned EXCEPT ![ip] = [e EXCEPT !.fresh = FALSE]]
             new == [old EXCEPT !.learned = l, !.lru = old.lru]
  <1>1. cur \in 1 .. Len(matchers) /\ IsMatcher(old) /\ e # None
    BY DEF Inv, MatchersOK, Expire
  <1>2. Sound(old.sets, [e EXCEPT !.fresh = FALSE])
    BY <1>1, AgeKept DEF IsMatcher
  <1>3. DOMAIN l = IPs /\ l = [i \in IPs |-> l[i]] /\ \A i \in IPs : Sound(old.sets, l[i])
    BY <1>1, <1>2 DEF IsMatcher
  <1>4. matchers' = [matchers EXCEPT ![cur] = new]
    <2>1. matchers' = [matchers EXCEPT ![cur] = [old EXCEPT !.learned = l]]
      BY DEF Expire
    <2>2. [old EXCEPT !.learned = l] = new
      BY <1>1 DEF IsMatcher
    <2> QED
      BY <2>1, <2>2
  <1>5. IsMatcher(new)
    <2> HIDE DEF l
    <2> QED
      BY <1>1, <1>3, RelearnedIsMatcher
  <1>6. UNCHANGED <<confs, cfg, cur, worker, last>>
    BY DEF Expire
  <1> HIDE DEF new
  <1>7. MatchersOK' /\ Len(matchers') = Len(matchers)
    BY <1>1, <1>4, <1>5, <1>6, MatcherReplaced DEF Inv
  <1> QED
    BY <1>6, <1>7 DEF Inv, ConfsOK, WorkerOK, DevicesRespected

LEMMA Kept == Inv /\ [Next]_vars => Inv'
  <1> SUFFICES ASSUME Inv, [Next]_vars PROVE Inv'
    OBVIOUS
  <1>1. ASSUME NEW p \in Packets, dispatch(p) PROVE Inv'
    <2>1. worker' = [pc |-> "load", pkt |-> p, cfg |-> cfg, m |-> 0] /\ last' = Undecided
          /\ UNCHANGED <<confs, cfg, cur, matchers>>
      BY <1>1 DEF dispatch
    <2>2. cfg \in Nat
      BY DEF Inv, ConfsOK, IsSeq
    <2>3. WorkerOK'
      BY <2>1, <2>2 DEF WorkerOK
    <2> QED
      BY <2>1, <2>3 DEF Inv, ConfsOK, MatchersOK, DevicesRespected, Undecided
  <1>2. ASSUME LoadMatcher PROVE Inv'
    <2>1. worker' = [worker EXCEPT !.pc = worker.pkt.proto, !.m = cur] /\ worker.pc = "load"
          /\ UNCHANGED <<confs, cfg, cur, matchers, last>>
      BY <1>2 DEF LoadMatcher
    <2>2. worker.pkt \in Packets /\ worker.pkt.proto \in {"tcp", "udp", "query", "answer"}
      BY <2>1, PacketsAssumption DEF Inv, WorkerOK
    <2>3. cur \in 1 .. Len(matchers) /\ cur \in Nat
      BY DEF Inv, MatchersOK, IsSeq
    <2>4. WorkerOK'
      BY <2>1, <2>2, <2>3 DEF Inv, WorkerOK
    <2> QED
      BY <2>1, <2>4 DEF Inv, ConfsOK, MatchersOK, DevicesRespected
  <1>3. ASSUME DnsResponse PROVE Inv'
    BY <1>3 DEF DnsResponse, Inv, ConfsOK, MatchersOK, WorkerOK, NoPacket, DevicesRespected
  <1>4. ASSUME StoreConfig PROVE Inv'
    <2>1. cfg' = Len(confs) /\ UNCHANGED <<confs, cur, matchers, worker, last>>
      BY <1>4 DEF StoreConfig
    <2>2. Len(confs) \in 1 .. Len(confs)
      BY DEF Inv, ConfsOK, IsSeq
    <2> QED
      BY <2>1, <2>2 DEF Inv, ConfsOK, MatchersOK, WorkerOK, DevicesRespected
  <1>5. ASSUME StoreMatcher PROVE Inv'
    <2>1. cur' = Len(matchers) /\ UNCHANGED <<confs, cfg, matchers, worker, last>>
      BY <1>5 DEF StoreMatcher
    <2>2. Len(matchers) \in 1 .. Len(matchers)
      BY DEF Inv, MatchersOK, IsSeq
    <2> QED
      BY <2>1, <2>2 DEF Inv, ConfsOK, MatchersOK, WorkerOK, DevicesRespected
  <1>6. ASSUME UNCHANGED <<confs, cfg, cur, matchers, worker, last>> PROVE Inv'
    BY <1>6 DEF Inv, ConfsOK, MatchersOK, WorkerOK, DevicesRespected
  <1>7. resolveDNSRedirect \/ cleanupDNSPendingRoutes \/ ResetEscalations \/ UNCHANGED vars
            \/ (\E h \in Hosts : NoteExpires(h) \/ SetEscalation(h) \/ ClearEscalation(h))
            => UNCHANGED <<confs, cfg, cur, matchers, worker, last>>
    BY DEF resolveDNSRedirect, cleanupDNSPendingRoutes, NoteExpires, ResetEscalations, SetEscalation,
           ClearEscalation, vars
  <1> QED
    BY <1>1, <1>2, <1>3, <1>4, <1>5, <1>6, <1>7, TCPKept, UDPKept, QueryKept, ExpireKept, UpdateKept DEF Next

-----------------------------------------------------------------------------
(* The theorems *)

LEMMA Always == Spec => []Inv
  BY Starts, Kept, PTL DEF Spec

\* For every configuration, device and packet, and whatever reload is under way: the
\* set a packet or a query matches by address, learned domain, name or DNS (not by port
\* alone) is one its device is bound to (selectSetBySourceAndTLS,
\* MatchLearnedIPWithSource).  An escalation may still replace that set by one of
\* another device.
THEOREM DevicesAlwaysRespected == Spec => []DevicesRespected
  <1>1. Inv => DevicesRespected
    BY DEF Inv
  <1> QED
    BY <1>1, Always, PTL

\* Every matcher that was ever built only holds learned addresses its own configuration
\* justifies: an enabled set of it that has the domain, however the entries were carried
\* over by TransferLearnedIPs and whichever matcher a packet in flight still writes to.
THEOREM LearnedAlwaysCurrent == Spec => []LearnedCurrent
  <1>1. Inv => LearnedCurrent
    <2> SUFFICES ASSUME Inv, NEW k \in DOMAIN matchers, NEW ip \in IPs, matchers[k].learned[ip] # None
                 PROVE  LET e == matchers[k].learned[ip]
                        IN  /\ Contains(matchers[k].sets, e.set) /\ Sets[e.set].enabled /\ ~Sets[e.set].domainOnly
                            /\ \/ \E d \in Range(ParentsOf[e.host]) : d \in Sets[e.set].domains
                               \/ \E r \in Sets[e.set].regexes : e.host \in r
      BY DEF LearnedCurrent
    <2>1. IsMatcher(matchers[k])
      BY DEF Inv, MatchersOK, IsSeq
    <2>2. Sound(matchers[k].sets, matchers[k].learned[ip])
      BY <2>1 DEF IsMatcher
    <2> QED
      BY <2>2 DEF Sound, Knows, Targets
  <1> QED
    BY <1>1, Always, PTL

\* For every global filter and every set: the one gate routeSetDeviceGate folds them into,
\* and the jumps and returns made of it, admit exactly the devices that both admit.
THEOREM GatesAlwaysAgree == Spec => []GatesAgree
  <1>1. Inv => GatesAgree
    BY AllAgree DEF Inv, ConfsOK, GatesAgree
  <1> QED
    BY <1>1, Always, PTL

=============================================================================
