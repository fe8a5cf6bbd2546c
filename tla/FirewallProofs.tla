--------------------------- MODULE FirewallProofs ---------------------------
(***************************************************************************)
(* Proofs about the firewall tables: a shutdown that no other call         *)
(* overlapped and whose commands succeeded leaves no chain and no sysctl   *)
(* value of b4 behind, and no rule but the CONNMARK rule of an earlier     *)
(* mark.                                                                   *)
(***************************************************************************)
EXTENDS Firewall, WellFoundedInduction, TLAPS

----------------------------------------------------------------------------
(* Sequences *)

LEMMA One == ASSUME NEW S, NEW a \in S PROVE <<a>> \in Seq(S)
  OBVIOUS

LEMMA Two == ASSUME NEW S, NEW a \in S, NEW b \in S PROVE <<a, b>> \in Seq(S)
  OBVIOUS

LEMMA Three == ASSUME NEW S, NEW a \in S, NEW b \in S, NEW c \in S PROVE <<a, b, c>> \in Seq(S)
  OBVIOUS

LEMMA Four ==
  ASSUME NEW S, NEW a \in S, NEW b \in S, NEW c \in S, NEW d \in S
  PROVE  <<a, b, c, d>> \in Seq(S)
  OBVIOUS

LEMMA Six ==
  ASSUME NEW S, NEW a \in S, NEW b \in S, NEW c \in S, NEW d \in S, NEW e \in S, NEW f \in S
  PROVE  <<a, b, c, d, e, f>> \in Seq(S)
  OBVIOUS

LEMMA Ten ==
  ASSUME NEW S, NEW a \in S, NEW b \in S, NEW c \in S, NEW d \in S, NEW e \in S, NEW f \in S,
         NEW g \in S, NEW h \in S, NEW i \in S, NEW j \in S
  PROVE  <<a, b, c, d, e, f, g, h, i, j>> \in Seq(S)
  OBVIOUS

LEMMA Empty == ASSUME NEW S PROVE << >> \in Seq(S)
  OBVIOUS

LEMMA Joined ==
  ASSUME NEW S, NEW s \in Seq(S), NEW t \in Seq(S)
  PROVE  /\ s \o t \in Seq(S) /\ Len(s \o t) = Len(s) + Len(t)
         /\ \A i \in 1 .. Len(s) : (s \o t)[i] = s[i]
         /\ \A i \in 1 .. Len(t) : (s \o t)[Len(s) + i] = t[i]
  OBVIOUS

\* u is t after s.
IsJoin(u, s, t) ==
    /\ Len(u) = Len(s) + Len(t)
    /\ \A i \in 1 .. Len(s) : u[i] = s[i]
    /\ \A i \in 1 .. Len(t) : u[Len(s) + i] = t[i]

LEMMA JoinIs == ASSUME NEW S, NEW s \in Seq(S), NEW t \in Seq(S) PROVE s \o t \in Seq(S) /\ IsJoin(s \o t, s, t)
  BY Joined DEF IsJoin

LEMMA ElementOf == ASSUME NEW S, NEW s \in Seq(S), NEW i \in 1 .. Len(s) PROVE s[i] \in S
  OBVIOUS

LEMMA Join3 ==
  ASSUME NEW S, NEW s1 \in Seq(S), NEW s2 \in Seq(S), NEW s3 \in Seq(S)
  PROVE  s1 \o s2 \o s3 \in Seq(S)
  OBVIOUS

LEMMA Join4 ==
  ASSUME NEW S, NEW s1 \in Seq(S), NEW s2 \in Seq(S), NEW s3 \in Seq(S), NEW s4 \in Seq(S)
  PROVE  s1 \o s2 \o s3 \o s4 \in Seq(S)
  OBVIOUS

LEMMA Join8 ==
  ASSUME NEW S, NEW s1 \in Seq(S), NEW s2 \in Seq(S), NEW s3 \in Seq(S), NEW s4 \in Seq(S),
         NEW s5 \in Seq(S), NEW s6 \in Seq(S), NEW s7 \in Seq(S), NEW s8 \in Seq(S)
  PROVE  s1 \o s2 \o s3 \o s4 \o s5 \o s6 \o s7 \o s8 \in Seq(S)
  OBVIOUS

----------------------------------------------------------------------------
(* The commands of a call *)

\* What may stand in a chain of iptables.
IptRules(ch) ==
    CASE ch = "POSTROUTING" -> {"j_B4"}
      [] ch = "FORWARD" -> {"j_B4", "mac_j_B4", "mac_return"} \cup ClampRules
      [] ch = "PREROUTING" -> {"j_B4_PREROUTING"}
      [] ch = "OUTPUT" -> {"q_dnsresp", "accept_m1", "accept_m2", "j_B4", "save_m1", "save_m2"} \cup ClampRules
      [] ch = "NAT" -> {"client_return", "j_B4_MASQ"}
      [] OTHER -> {"q_dup", "q_out", "q_reply", "q_dns", "reply_m1", "reply_m2", "masquerade"} \cup ClampRules

Rules ==
    QueueRules \cup ClampRules \cup JumpRules \cup
    {"mac_return", "client_return", "masquerade", "lo_return", "accept_m1", "accept_m2", "save_m1",
     "save_m2", "reply_m1", "reply_m2", "skip_m1", "skip_m2"}

Dos == {"chain", "check", "apply", "save", "set", "sweep", "drop", "restore", "forget", "tableexists",
        "droptable", "table", "add", "natchain", "flush"}

Uses == {"-"} \cup Rules \cup SUBSET Rules

Cmds == [do : Dos, ch : Chains \cup {"-", "b4_mangle"}, at : {"-", "I", "A"}, r : Uses]

IptChains == BuiltIn \cup UserChains

IptCmds ==
    {c \in Cmds :
        /\ c.do \in {"chain", "check", "apply", "save", "set", "sweep", "drop", "restore", "forget"}
        /\ c.do = "apply" => c.ch \in IptChains /\ c.r \in IptRules(c.ch) /\ c.at \in {"I", "A"}
        /\ c.do = "sweep" => c.ch \in IptChains
        /\ c.do \in {"chain", "drop"} => c.ch \in UserChains}

NftTable == NftChains \cup {"b4_mangle"}

NftCmds ==
    {c \in Cmds :
        /\ c.do \in {"tableexists", "drop", "droptable", "restore", "forget", "table", "chain", "add",
                     "save", "set", "natchain", "flush"}
        /\ c.do \in {"add", "flush"} => c.ch \in NftChains \cup {"b4_nat"}
        /\ c.do = "add" => c.at = "A"
        /\ c.do \in {"chain", "table", "natchain"} => c.ch \in NftTable \cup {"b4_nat"}
        /\ c.do = "drop" => c.ch = "b4_nat"}

CmdsOf(b) == IF b = "ipt" THEN IptCmds ELSE NftCmds

\* The commands that belong together follow each other: a value is set after it was
\* saved and forgotten after it was restored; what a command may skip is what it asks
\* about.
NeatAt(s, k) ==
    /\ s[k].do = "set" => k > 1 /\ s[k - 1].do = "save"
    /\ s[k].do = "forget" => k > 1 /\ s[k - 1].do = "restore"
    /\ s[k].do = "check" => k < Len(s) /\ s[k + 1].do = "apply"
    /\ s[k].do = "restore" => k < Len(s) /\ s[k + 1].do = "forget"
    /\ s[k].do = "tableexists" => k + 5 <= Len(s) /\ s[k + 5].do = "table"

Neat(s) == \A k \in 1 .. Len(s) : NeatAt(s, k)

Plain(b) == {c \in CmdsOf(b) : c.do \notin {"set", "forget", "check", "restore", "tableexists"}}

NeatCalls(b) == {s \in Seq(CmdsOf(b)) : Neat(s)}

SomeCalls(b) == {s \in NeatCalls(b) : Len(s) >= 1}

LEMMA PlainNeat == ASSUME NEW b, NEW s \in Seq(Plain(b)) PROVE s \in NeatCalls(b)
  <1>1. \A k \in 1 .. Len(s) : s[k] \in Plain(b)
    OBVIOUS
  <1>2. Plain(b) \subseteq CmdsOf(b)
    BY DEF Plain
  <1>3. s \in Seq(CmdsOf(b))
    BY <1>2
  <1>4. Neat(s)
    BY <1>1 DEF Neat, NeatAt, Plain
  <1> QED
    BY <1>3, <1>4 DEF NeatCalls

LEMMA NeatJoined ==
  ASSUME NEW b, NEW s \in NeatCalls(b), NEW t \in NeatCalls(b)
  PROVE  s \o t \in NeatCalls(b)
  <1>1. s \in Seq(CmdsOf(b)) /\ t \in Seq(CmdsOf(b)) /\ Neat(s) /\ Neat(t)
    BY DEF NeatCalls
  <1> DEFINE u == s \o t
  <1>2. /\ u \in Seq(CmdsOf(b)) /\ Len(u) = Len(s) + Len(t)
        /\ \A i \in 1 .. Len(s) : u[i] = s[i]
        /\ \A i \in 1 .. Len(t) : u[Len(s) + i] = t[i]
    BY <1>1, Joined
  <1>3. Len(s) \in Nat /\ Len(t) \in Nat
    BY <1>1
  <1> HIDE DEF u
  <1>4. ASSUME NEW k \in 1 .. Len(s) PROVE NeatAt(u, k)
    <2>1. NeatAt(s, k)
      BY <1>1 DEF Neat
    <2>0. /\ k > 1 => k - 1 \in 1 .. Len(s)
          /\ k < Len(s) => k + 1 \in 1 .. Len(s)
          /\ k + 5 <= Len(s) => k + 5 \in 1 .. Len(s)
      BY <1>3
    <2>2. u[k] = s[k] /\ (k > 1 => u[k - 1] = s[k - 1]) /\ (k < Len(s) => u[k + 1] = s[k + 1])
      BY <2>0, <1>2
    <2>3. k + 5 <= Len(s) => u[k + 5] = s[k + 5]
      BY <2>0, <1>2
    <2>4. (k < Len(s) => k < Len(u)) /\ (k + 5 <= Len(s) => k + 5 <= Len(u))
      BY <1>2, <1>3
    <2> QED
      BY <2>1, <2>2, <2>3, <2>4 DEF NeatAt
  <1>5. ASSUME NEW j \in 1 .. Len(t) PROVE NeatAt(u, Len(s) + j)
    <2> DEFINE k == Len(s) + j
    <2>1. u[k] = t[j]
      BY <1>2
    <2>2. j > 1 => u[k - 1] = t[j - 1]
      <3>1. j > 1 => j - 1 \in 1 .. Len(t) /\ k - 1 = Len(s) + (j - 1)
        BY <1>3
      <3> QED
        BY <3>1, <1>2
    <2>3. j < Len(t) => u[k + 1] = t[j + 1]
      <3>1. j < Len(t) => j + 1 \in 1 .. Len(t) /\ k + 1 = Len(s) + (j + 1)
        BY <1>3
      <3> QED
        BY <3>1, <1>2
    <2>4. j + 5 <= Len(t) => u[k + 5] = t[j + 5]
      <3>1. j + 5 <= Len(t) => j + 5 \in 1 .. Len(t) /\ k + 5 = Len(s) + (j + 5)
        BY <1>3
      <3> QED
        BY <3>1, <1>2
    <2>5. (j > 1 => k > 1) /\ (j < Len(t) => k < Len(u)) /\ (j + 5 <= Len(t) => k + 5 <= Len(u))
      BY <1>2, <1>3
    <2> HIDE DEF k
    <2>6. NeatAt(t, j)
      BY <1>1 DEF Neat
    <2>7. NeatAt(u, k)
      BY <2>1, <2>2, <2>3, <2>4, <2>5, <2>6 DEF NeatAt
    <2> QED
      BY <2>7 DEF k
  <1>6. Neat(u)
    <2> SUFFICES ASSUME NEW k \in 1 .. Len(u) PROVE NeatAt(u, k)
      BY DEF Neat
    <2>1. CASE k \in 1 .. Len(s)
      BY <2>1, <1>4
    <2>2. CASE k \notin 1 .. Len(s)
      <3> DEFINE j == k - Len(s)
      <3>1. j \in 1 .. Len(t) /\ k = Len(s) + j
        BY <2>2, <1>2, <1>3
      <3> HIDE DEF j
      <3> QED
        BY <3>1, <1>5
    <2> QED
      BY <2>1, <2>2
  <1> QED
    BY <1>2, <1>6 DEF NeatCalls, u

LEMMA SomeJoined ==
  ASSUME NEW b, NEW s \in NeatCalls(b), NEW t \in NeatCalls(b), s \in SomeCalls(b) \/ t \in SomeCalls(b)
  PROVE  s \o t \in SomeCalls(b)
  <1>1. s \o t \in NeatCalls(b)
    BY NeatJoined
  <1>2. s \in Seq(CmdsOf(b)) /\ t \in Seq(CmdsOf(b))
    BY DEF NeatCalls
  <1>3. Len(s) \in Nat /\ Len(t) \in Nat /\ Len(s \o t) = Len(s) + Len(t)
    BY <1>2, Joined
  <1>4. Len(s) >= 1 \/ Len(t) >= 1
    BY DEF SomeCalls
  <1>5. Len(s \o t) >= 1
    BY <1>3, <1>4
  <1> QED
    BY <1>1, <1>5 DEF SomeCalls

----------------------------------------------------------------------------
(* What the calls are made of *)

LEMMA CmdIs ==
  ASSUME NEW do \in Dos, NEW ch \in Chains \cup {"-", "b4_mangle"}, NEW at \in {"-", "I", "A"},
         NEW r \in Uses
  PROVE  /\ Cmd(do, ch, at, r) \in Cmds
         /\ Cmd(do, ch, at, r).do = do /\ Cmd(do, ch, at, r).ch = ch /\ Cmd(do, ch, at, r).r = r
         /\ Cmd(do, ch, at, r).at = at
  BY DEF Cmd, Cmds

LEMMA ChainsAre == Chains = IptChains \cup NftChains \cup {"b4_nat"}
  BY DEF Chains, ChainsOf, IptChains

LEMMA RulesInUse == ASSUME NEW ch \in IptChains PROVE IptRules(ch) \subseteq Rules
  BY DEF IptChains, BuiltIn, UserChains, IptRules, Rules, ClampRules, JumpRules, QueueRules

IptApplies == {c \in IptCmds : c.do = "apply"}

LEMMA RuleFits ==
  ASSUME NEW ch \in IptChains, NEW at \in {"I", "A"}, NEW r \in IptRules(ch)
  PROVE  Rule(ch, at, r) \in IptApplies
  <1>1. /\ r \in Uses /\ "apply" \in Dos
        /\ ch \in Chains \cup {"-", "b4_mangle"} /\ at \in {"-", "I", "A"}
    BY RulesInUse, ChainsAre DEF Dos, Uses
  <1>2. /\ Rule(ch, at, r) \in Cmds /\ Rule(ch, at, r).do = "apply" /\ Rule(ch, at, r).ch = ch
        /\ Rule(ch, at, r).r = r /\ Rule(ch, at, r).at = at
    BY <1>1, CmdIs DEF Rule
  <1> QED
    BY <1>2 DEF IptApplies, IptCmds

\* Looking for a rule and inserting it.
LEMMA InstallingNeat == ASSUME NEW rules \in Seq(IptApplies) PROVE Installing(rules) \in NeatCalls("ipt")
  <1> DEFINE s == Installing(rules)
             at(i) == rules[(i + 1) \div 2]
  <1>1. s = [i \in 1 .. 2 * Len(rules) |-> IF i % 2 = 1 THEN [at(i) EXCEPT !.do = "check"] ELSE at(i)]
    BY DEF Installing
  <1>2. Len(rules) \in Nat /\ \A i \in 1 .. Len(rules) : rules[i] \in IptApplies
    OBVIOUS
  <1>3. \A i \in 1 .. 2 * Len(rules) : at(i) \in IptApplies
    <2>1. \A i \in 1 .. 2 * Len(rules) : (i + 1) \div 2 \in 1 .. Len(rules)
      BY <1>2
    <2> QED
      BY <1>2, <2>1
  <1>4. ASSUME NEW c \in IptApplies PROVE [c EXCEPT !.do = "check"] \in IptCmds /\ [c EXCEPT !.do = "check"].do = "check"
    BY DEF IptApplies, IptCmds, Cmds, Dos
  <1>5. \A c \in IptApplies : c \in IptCmds /\ c.do = "apply"
    BY DEF IptApplies
  <1> HIDE DEF s, at
  <1>6. \A i \in 1 .. 2 * Len(rules) : s[i] \in IptCmds
    BY <1>1, <1>3, <1>4, <1>5
  <1>7. s \in Seq(IptCmds) /\ Len(s) = 2 * Len(rules)
    <2>1. DOMAIN s = 1 .. 2 * Len(rules) /\ s = [i \in 1 .. 2 * Len(rules) |-> s[i]]
      BY <1>1
    <2> QED
      BY <1>2, <1>6, <2>1
  <1>8. ASSUME NEW k \in 1 .. Len(s) PROVE NeatAt(s, k)
    <2>1. CASE k % 2 = 1
      <3>1. k + 1 \in 1 .. 2 * Len(rules) /\ (k + 1) % 2 # 1
        BY <1>2, <1>7, <2>1
      <3>2. s[k].do = "check" /\ s[k + 1].do = "apply"
        BY <1>1, <1>3, <1>4, <1>5, <1>7, <2>1, <3>1
      <3> QED
        BY <3>1, <3>2, <1>7 DEF NeatAt
    <2>2. CASE k % 2 # 1
      <3>1. s[k].do = "apply"
        BY <1>1, <1>3, <1>5, <1>7, <2>2
      <3> QED
        BY <3>1 DEF NeatAt
    <2> QED
      BY <2>1, <2>2
  <1> QED
    BY <1>7, <1>8 DEF NeatCalls, CmdsOf, Neat, s

\* The values are saved and set, restored and forgotten.
LEMMA SysctlNeat ==
  ASSUME NEW b \in {"ipt", "nft"}
  PROVE  SysctlApply \in SomeCalls(b) /\ SysctlRevert \in SomeCalls(b)
  <1> DEFINE sv == Cmd("save", "-", "-", "-")
             st == Cmd("set", "-", "-", "-")
             re == Cmd("restore", "-", "-", "-")
             fo == Cmd("forget", "-", "-", "-")
  <1>0. ASSUME NEW do \in {"save", "set", "restore", "forget"}
        PROVE  Cmd(do, "-", "-", "-") \in CmdsOf(b) /\ Cmd(do, "-", "-", "-").do = do
    <2>1. do \in Dos /\ "-" \in Uses
      BY DEF Dos, Uses
    <2>2. Cmd(do, "-", "-", "-") \in Cmds /\ Cmd(do, "-", "-", "-").do = do
      BY <2>1, CmdIs
    <2> QED
      BY <2>2 DEF CmdsOf, IptCmds, NftCmds
  <1>1. sv \in CmdsOf(b) /\ st \in CmdsOf(b) /\ re \in CmdsOf(b) /\ fo \in CmdsOf(b)
    BY <1>0
  <1>2. sv.do = "save" /\ st.do = "set" /\ re.do = "restore" /\ fo.do = "forget"
    BY <1>0
  <1> HIDE DEF sv, st, re, fo
  <1>3. ASSUME NEW x \in CmdsOf(b), NEW y \in CmdsOf(b),
               (x.do = "save" /\ y.do = "set") \/ (x.do = "restore" /\ y.do = "forget")
        PROVE  <<x, y>> \in SomeCalls(b)
    <2> DEFINE s == <<x, y>>
    <2>1. s \in Seq(CmdsOf(b)) /\ Len(s) = 2 /\ s[1] = x /\ s[2] = y
      BY Two
    <2> HIDE DEF s
    <2>2. \A k \in 1 .. 2 : NeatAt(s, k)
      <3>1. NeatAt(s, 1)
        BY <1>3, <2>1 DEF NeatAt
      <3>2. NeatAt(s, 2)
        BY <1>3, <2>1 DEF NeatAt
      <3> QED
        BY <3>1, <3>2
    <2>4. s \in NeatCalls(b)
      BY <2>1, <2>2 DEF NeatCalls, Neat
    <2>5. Len(s) >= 1
      BY <2>1
    <2>3. s \in SomeCalls(b)
      BY <2>4, <2>5 DEF SomeCalls
    <2> QED
      BY <2>3 DEF s
  <1>4. <<sv, st>> \in SomeCalls(b) /\ <<re, fo>> \in SomeCalls(b)
    BY <1>1, <1>2, <1>3
  <1> QED
    BY <1>4 DEF SysctlApply, SysctlRevert, sv, st, re, fo

\* The settings of a configuration.
Setting == [engine : {"ipt", "nft"}, mark : {"m1", "m2"}, connmark : BOOLEAN,
            dev : {"off", "black", "white"}, masq : BOOLEAN, dup : BOOLEAN,
            mss : SUBSET {"set", "dev", "global"}]

LEMMA MarksAre ==
  ASSUME NEW c \in Setting
  PROVE  /\ MarkRules[c.mark].accept \in {"accept_m1", "accept_m2"}
         /\ MarkRules[c.mark].save \in {"save_m1", "save_m2"}
         /\ MarkRules[c.mark].reply \in {"reply_m1", "reply_m2"}
         /\ MarkRules[c.mark].skip \in {"skip_m1", "skip_m2"}
  <1>1. c.mark = "m1" \/ c.mark = "m2"
    BY DEF Setting
  <1> QED
    BY <1>1 DEF MarkRules

LEMMA ManifestParts ==
  ASSUME NEW c \in Setting
  PROVE  /\ PreroutingRules \in Seq(IptApplies) /\ DupRules(c) \in Seq(IptApplies) /\ OutboundRules \in Seq(IptApplies)
         /\ DeviceRules(c) \in Seq(IptApplies) /\ OutputRules(c) \in Seq(IptApplies)
         /\ ConnmarkRules(c) \in Seq(IptApplies)
         /\ buildMasqueradeManifest(c) \in Seq(IptApplies) /\ buildMSSManifest(c, "B4_PREROUTING") \in Seq(IptApplies)
  <1> DEFINE S == IptApplies
             R(ch, at, r) == Rule(ch, at, r)
  <1>c. /\ "B4" \in IptChains /\ "B4_PREROUTING" \in IptChains /\ "B4_MASQ" \in IptChains
        /\ "POSTROUTING" \in IptChains /\ "FORWARD" \in IptChains /\ "PREROUTING" \in IptChains
        /\ "OUTPUT" \in IptChains /\ "NAT" \in IptChains
    BY DEF IptChains, BuiltIn, UserChains
  <1>1. PreroutingRules \in Seq(S)
    <2>1. "q_reply" \in IptRules("B4_PREROUTING") /\ "q_dns" \in IptRules("B4_PREROUTING")
      BY DEF IptRules
    <2>2. Rule("B4_PREROUTING", "I", "q_reply") \in S /\ Rule("B4_PREROUTING", "I", "q_dns") \in S
      BY <1>c, <2>1, RuleFits
    <2> QED
      BY <2>2, Two DEF PreroutingRules
  <1>2. DupRules(c) \in Seq(S) /\ OutboundRules \in Seq(S)
    <2>1. "q_dup" \in IptRules("B4") /\ "q_out" \in IptRules("B4")
      BY DEF IptRules
    <2>2. Rule("B4", "A", "q_dup") \in S /\ Rule("B4", "A", "q_out") \in S
      BY <1>c, <2>1, RuleFits
    <2> QED
      BY <2>2, One, Empty DEF DupRules, OutboundRules
  <1>3. DeviceRules(c) \in Seq(S)
    <2>1. /\ "j_B4" \in IptRules("POSTROUTING") /\ "j_B4" \in IptRules("FORWARD")
          /\ "mac_return" \in IptRules("FORWARD") /\ "mac_j_B4" \in IptRules("FORWARD")
      BY DEF IptRules
    <2>2. /\ Rule("POSTROUTING", "I", "j_B4") \in S /\ Rule("FORWARD", "I", "j_B4") \in S
          /\ Rule("FORWARD", "I", "mac_return") \in S /\ Rule("FORWARD", "I", "mac_j_B4") \in S
      BY <1>c, <2>1, RuleFits
    <2>3. c.dev \in {"off", "black", "white"}
      BY DEF Setting
    <2>4. /\ << Rule("POSTROUTING", "I", "j_B4") >> \in Seq(S)
          /\ << Rule("FORWARD", "I", "j_B4"), Rule("FORWARD", "I", "mac_return") >> \in Seq(S)
          /\ << Rule("FORWARD", "I", "mac_j_B4") >> \in Seq(S)
      BY <2>2, One, Two
    <2> QED
      BY <2>3, <2>4, Zenon DEF DeviceRules
  <1>4. OutputRules(c) \in Seq(S) /\ ConnmarkRules(c) \in Seq(S)
    <2> DEFINE m == MarkRules[c.mark]
    <2>0. /\ m.accept \in {"accept_m1", "accept_m2"} /\ m.save \in {"save_m1", "save_m2"}
          /\ m.reply \in {"reply_m1", "reply_m2"}
      BY MarksAre
    <2> HIDE DEF m
    <2>1. /\ "j_B4_PREROUTING" \in IptRules("PREROUTING") /\ "q_dnsresp" \in IptRules("OUTPUT")
          /\ m.accept \in IptRules("OUTPUT") /\ "j_B4" \in IptRules("OUTPUT")
          /\ m.save \in IptRules("OUTPUT") /\ m.reply \in IptRules("B4_PREROUTING")
      BY <2>0 DEF IptRules
    <2>2. /\ Rule("PREROUTING", "I", "j_B4_PREROUTING") \in S /\ Rule("OUTPUT", "I", "q_dnsresp") \in S
          /\ Rule("OUTPUT", "I", m.accept) \in S /\ Rule("OUTPUT", "A", "j_B4") \in S
          /\ Rule("OUTPUT", "I", m.save) \in S /\ Rule("B4_PREROUTING", "I", m.reply) \in S
      BY <1>c, <2>1, RuleFits
    <2>3. << Rule("PREROUTING", "I", "j_B4_PREROUTING"), Rule("OUTPUT", "I", "q_dnsresp"),
             Rule("OUTPUT", "I", m.accept), Rule("OUTPUT", "A", "j_B4") >> \in Seq(S)
      BY <2>2, Four
    <2>4. << Rule("OUTPUT", "I", m.save), Rule("B4_PREROUTING", "I", m.reply) >> \in Seq(S)
      BY <2>2, Two
    <2> QED
      BY <2>3, <2>4, Empty DEF OutputRules, ConnmarkRules, m
  <1>5. buildMasqueradeManifest(c) \in Seq(S)
    <2>1. /\ "client_return" \in IptRules("NAT") /\ "j_B4_MASQ" \in IptRules("NAT")
          /\ "masquerade" \in IptRules("B4_MASQ")
      BY DEF IptRules
    <2>2. /\ Rule("NAT", "I", "client_return") \in S /\ Rule("NAT", "A", "j_B4_MASQ") \in S
          /\ Rule("B4_MASQ", "A", "masquerade") \in S
      BY <1>c, <2>1, RuleFits
    <2> QED
      BY <2>2, Three, Empty DEF buildMasqueradeManifest
  <1>6. buildMSSManifest(c, "B4_PREROUTING") \in Seq(S)
    <2>1. ASSUME NEW ch \in {"OUTPUT", "FORWARD", "B4_PREROUTING"}, NEW r \in ClampRules
          PROVE  Rule(ch, "I", r) \in S
      <3>1. r \in IptRules(ch) /\ ch \in IptChains
        BY <1>c DEF IptRules
      <3> QED
        BY <3>1, RuleFits
    <2>2. /\ "mss_set" \in ClampRules /\ "mss_dev" \in ClampRules /\ "mss_reply" \in ClampRules
          /\ "mss_global" \in ClampRules
      BY DEF ClampRules
    <2>3. ASSUME NEW r \in ClampRules
          PROVE  << Rule("OUTPUT", "I", r), Rule("FORWARD", "I", r), Rule("B4_PREROUTING", "I", r) >> \in Seq(S)
      BY <2>1, Three
    <2>4. << Rule("FORWARD", "I", "mss_dev") >> \in Seq(S) /\ << Rule("FORWARD", "I", "mss_reply") >> \in Seq(S)
      BY <2>1, <2>2, One
    <2> DEFINE pre == "B4_PREROUTING"
               A == IF "set" \in c.mss
                    THEN << Rule("OUTPUT", "I", "mss_set"), Rule("FORWARD", "I", "mss_set"), Rule(pre, "I", "mss_set") >>
                    ELSE << >>
               B0 == IF "global" \in c.mss THEN << >> ELSE << Rule("FORWARD", "I", "mss_reply") >>
               B == IF "dev" \in c.mss THEN << Rule("FORWARD", "I", "mss_dev") >> \o B0 ELSE << >>
               G == IF "global" \in c.mss
                    THEN << Rule("OUTPUT", "I", "mss_global"), Rule("FORWARD", "I", "mss_global"),
                            Rule(pre, "I", "mss_global") >>
                    ELSE << >>
    <2>5. A \in Seq(S) /\ G \in Seq(S)
      BY <2>2, <2>3, Empty
    <2>6. B0 \in Seq(S)
      BY <2>4, Empty
    <2> HIDE DEF B0
    <2>7. B \in Seq(S)
      BY <2>4, <2>6, Empty, Joined
    <2>8. buildMSSManifest(c, "B4_PREROUTING") = A \o B \o G
      BY DEF buildMSSManifest, B0
    <2> HIDE DEF A, B, G
    <2>9. A \o B \o G \in Seq(IptApplies)
      BY <2>5, <2>7, Join3
    <2> QED
      BY <2>8, <2>9
  <1> QED
    BY <1>1, <1>2, <1>3, <1>4, <1>5, <1>6

LEMMA ManifestFits == ASSUME NEW c \in Setting PROVE buildManifest(c) \in Seq(IptApplies)
  BY ManifestParts, Join8 DEF buildManifest

LEMMA ChainFits ==
  ASSUME NEW b \in {"ipt", "nft"}, NEW do \in {"chain", "table", "natchain"}, NEW ch \in Chains \cup {"b4_mangle"},
         b = "ipt" => do = "chain" /\ ch \in UserChains, b = "nft" => ch \in NftTable \cup {"b4_nat"}
  PROVE  Cmd(do, ch, "-", "-") \in Plain(b) /\ Cmd(do, ch, "-", "-").do = do
  <1>1. do \in Dos /\ ch \in Chains \cup {"-", "b4_mangle"} /\ "-" \in Uses
    BY DEF Dos, Uses
  <1>2. LET c == Cmd(do, ch, "-", "-") IN c \in Cmds /\ c.do = do /\ c.ch = ch
    BY <1>1, CmdIs
  <1> QED
    BY <1>2 DEF Plain, CmdsOf, IptCmds, NftCmds

LEMMA EnsureChainsPlain ==
  ASSUME NEW b \in {"ipt", "nft"}, NEW C, C = IF b = "ipt" THEN UserChains ELSE NftChains,
         NEW chs \in Seq(C)
  PROVE  EnsureChains(chs) \in Seq(Plain(b))
  <1> DEFINE s == EnsureChains(chs)
  <1>1. C \subseteq Chains
    BY ChainsAre DEF IptChains
  <1>2. ASSUME NEW ch \in C PROVE Cmd("chain", ch, "-", "-") \in Plain(b)
    BY <1>1, ChainFits DEF NftTable
  <1>3. s = [i \in 1 .. Len(chs) |-> Cmd("chain", chs[i], "-", "-")] /\ Len(chs) \in Nat
    BY DEF EnsureChains
  <1>4. \A i \in 1 .. Len(chs) : chs[i] \in C
    OBVIOUS
  <1>5. \A i \in 1 .. Len(chs) : Cmd("chain", chs[i], "-", "-") \in Plain(b)
    BY <1>2, <1>4
  <1> QED
    BY <1>3, <1>5

LEMMA ChainLists ==
  ASSUME NEW c \in Setting
  PROVE  /\ ManifestChains(c) \in Seq(UserChains)
         /\ << "b4_chain", "prerouting", "output" >> \in Seq(NftChains)
  <1>1. /\ "B4" \in UserChains /\ "B4_PREROUTING" \in UserChains /\ "B4_MASQ" \in UserChains
        /\ "b4_chain" \in NftChains /\ "prerouting" \in NftChains /\ "output" \in NftChains
    BY DEF UserChains, NftChains
  <1>2. << "B4", "B4_PREROUTING" >> \in Seq(UserChains) /\ << "B4_MASQ" >> \in Seq(UserChains)
    BY <1>1, One, Two
  <1>3. << "b4_chain", "prerouting", "output" >> \in Seq(NftChains)
    BY <1>1, Three
  <1>4. (IF c.masq THEN << "B4_MASQ" >> ELSE << >>) \in Seq(UserChains)
    BY <1>2, Empty
  <1> QED
    BY <1>2, <1>3, <1>4, Joined DEF ManifestChains

LEMMA IptApplyNeat == ASSUME NEW c \in Setting PROVE iptApply(c) \in SomeCalls("ipt")
  <1>1. EnsureChains(ManifestChains(c)) \in NeatCalls("ipt")
    BY ChainLists, EnsureChainsPlain, PlainNeat
  <1>2. Installing(buildManifest(c)) \in NeatCalls("ipt")
    BY ManifestFits, InstallingNeat
  <1> QED
    BY <1>1, <1>2, SysctlNeat, NeatJoined, SomeJoined DEF iptApply, SomeCalls

\* The commands that take away.
Removals(b) == {c \in Plain(b) : c.do \in {"sweep", "drop", "droptable"}}

LEMMA SweepFits ==
  ASSUME NEW ch \in IptChains, NEW R \in SUBSET Rules
  PROVE  LET c == Cmd("sweep", ch, "-", R) IN c \in Removals("ipt") /\ c.do = "sweep" /\ c.ch = ch /\ c.r = R
  <1>1. "sweep" \in Dos /\ ch \in Chains \cup {"-", "b4_mangle"} /\ R \in Uses
    BY ChainsAre DEF Dos, Uses
  <1>2. LET c == Cmd("sweep", ch, "-", R) IN c \in Cmds /\ c.do = "sweep" /\ c.ch = ch /\ c.r = R
    BY <1>1, CmdIs
  <1> QED
    BY <1>2 DEF Removals, Plain, CmdsOf, IptCmds

LEMMA DropFits ==
  ASSUME NEW b \in {"ipt", "nft"}, NEW ch, IF b = "ipt" THEN ch \in UserChains ELSE ch = "b4_nat"
  PROVE  LET c == Cmd("drop", ch, "-", "-") IN c \in Removals(b) /\ c.do = "drop" /\ c.ch = ch
  <1>1. "drop" \in Dos /\ ch \in Chains \cup {"-", "b4_mangle"} /\ "-" \in Uses
    BY ChainsAre DEF Dos, IptChains, Uses
  <1>2. LET c == Cmd("drop", ch, "-", "-") IN c \in Cmds /\ c.do = "drop" /\ c.ch = ch
    BY <1>1, CmdIs
  <1> QED
    BY <1>2 DEF Removals, Plain, CmdsOf, IptCmds, NftCmds

\* Reverse gives the same elements.
LEMMA Reversed ==
  ASSUME NEW S, NEW s \in Seq(S)
  PROVE  /\ Reverse(s) \in Seq(S) /\ Len(Reverse(s)) = Len(s)
         /\ \A i \in 1 .. Len(s) : Len(s) - i + 1 \in 1 .. Len(s) /\ Reverse(s)[Len(s) - i + 1] = s[i]
  <1>1. Reverse(s) = [i \in 1 .. Len(s) |-> s[(Len(s) - i) + 1]] /\ Len(s) \in Nat
    BY DEF Reverse
  <1>2. \A i \in 1 .. Len(s) : (Len(s) - i) + 1 \in 1 .. Len(s) /\ s[(Len(s) - i) + 1] \in S
    BY <1>1
  <1>3. Reverse(s) \in Seq(S) /\ Len(Reverse(s)) = Len(s)
    BY <1>1, <1>2
  <1>4. ASSUME NEW i \in 1 .. Len(s) PROVE Reverse(s)[Len(s) - i + 1] = s[i]
    <2>1. (Len(s) - (Len(s) - i + 1)) + 1 = i
      BY <1>1
    <2> QED
      BY <1>1, <1>2, <2>1
  <1> QED
    BY <1>2, <1>3, <1>4

\* Every rule of the manifest is swept, and every chain is dropped.
LEMMA RemoveRulesIs ==
  ASSUME NEW rules \in Seq(IptApplies)
  PROVE  /\ RemoveRules(rules) \in Seq(Removals("ipt"))
         /\ \A i \in 1 .. Len(rules) : \E j \in 1 .. Len(RemoveRules(rules)) :
                RemoveRules(rules)[j] = Cmd("sweep", rules[i].ch, "-", {rules[i].r})
  <1> DEFINE cmd(i) == Cmd("sweep", rules[i].ch, "-", {rules[i].r})
             t == [i \in DOMAIN rules |-> cmd(i)]
  <1>1. ASSUME NEW i \in 1 .. Len(rules) PROVE rules[i].ch \in IptChains /\ {rules[i].r} \in SUBSET Rules
    <2>1. rules[i] \in IptApplies
      OBVIOUS
    <2> QED
      BY <2>1, RulesInUse DEF IptApplies, IptCmds
  <1>2. ASSUME NEW i \in 1 .. Len(rules) PROVE cmd(i) \in Removals("ipt")
    BY <1>1, SweepFits
  <1>5. RemoveRules(rules) = Reverse(t)
    BY DEF RemoveRules
  <1> HIDE DEF cmd
  <1>3. t \in Seq(Removals("ipt")) /\ Len(t) = Len(rules)
    BY <1>2
  <1>4. \A i \in 1 .. Len(rules) : t[i] = cmd(i)
    OBVIOUS
  <1> HIDE DEF t
  <1>6. \A i \in 1 .. Len(rules) : \E j \in 1 .. Len(Reverse(t)) : Reverse(t)[j] = cmd(i)
    <2>1. TAKE i \in 1 .. Len(rules)
    <2>2. Len(t) - i + 1 \in 1 .. Len(Reverse(t)) /\ Reverse(t)[Len(t) - i + 1] = cmd(i)
      BY <1>3, <1>4, Reversed
    <2> QED
      BY <2>2
  <1>7. Reverse(t) \in Seq(Removals("ipt"))
    BY <1>3, Reversed
  <1> QED
    BY <1>5, <1>6, <1>7 DEF cmd

LEMMA RemoveChainsIs ==
  ASSUME NEW chs \in Seq(UserChains)
  PROVE  /\ RemoveChains(chs) \in Seq(Removals("ipt"))
         /\ \A i \in 1 .. Len(chs) : \E j \in 1 .. Len(RemoveChains(chs)) :
                RemoveChains(chs)[j] = Cmd("drop", chs[i], "-", "-")
  <1> DEFINE t == [i \in DOMAIN chs |-> Cmd("drop", chs[i], "-", "-")]
  <1>2. \A i \in 1 .. Len(chs) : Cmd("drop", chs[i], "-", "-") \in Removals("ipt")
    BY DropFits
  <1>3. t \in Seq(Removals("ipt")) /\ Len(t) = Len(chs)
    BY <1>2
  <1>4. \A i \in 1 .. Len(chs) : t[i] = Cmd("drop", chs[i], "-", "-")
    OBVIOUS
  <1>5. RemoveChains(chs) = Reverse(t)
    BY DEF RemoveChains
  <1> HIDE DEF t
  <1> QED
    BY <1>3, <1>4, <1>5, Reversed

LEMMA JumpsFit == clearB4JumpRules \in Seq(Removals("ipt"))
  <1>1. /\ {"j_B4"} \in SUBSET Rules /\ {"j_B4", "mac_j_B4", "mac_return"} \in SUBSET Rules
        /\ {"j_B4_PREROUTING"} \cup QueueRules \in SUBSET Rules /\ {"accept_m1", "accept_m2"} \in SUBSET Rules
        /\ {"q_dnsresp"} \in SUBSET Rules /\ {"masquerade", "client_return"} \in SUBSET Rules
        /\ ClampRules \in SUBSET Rules
    BY DEF Rules, QueueRules, ClampRules, JumpRules
  <1>2. /\ "POSTROUTING" \in IptChains /\ "FORWARD" \in IptChains /\ "PREROUTING" \in IptChains
        /\ "OUTPUT" \in IptChains /\ "NAT" \in IptChains
    BY DEF IptChains, BuiltIn
  <1>3. /\ Cmd("sweep", "POSTROUTING", "-", {"j_B4"}) \in Removals("ipt")
        /\ Cmd("sweep", "FORWARD", "-", {"j_B4", "mac_j_B4", "mac_return"}) \in Removals("ipt")
        /\ Cmd("sweep", "PREROUTING", "-", {"j_B4_PREROUTING"} \cup QueueRules) \in Removals("ipt")
        /\ Cmd("sweep", "OUTPUT", "-", {"accept_m1", "accept_m2"}) \in Removals("ipt")
        /\ Cmd("sweep", "OUTPUT", "-", {"j_B4"}) \in Removals("ipt")
        /\ Cmd("sweep", "OUTPUT", "-", {"q_dnsresp"}) \in Removals("ipt")
        /\ Cmd("sweep", "NAT", "-", {"masquerade", "client_return"}) \in Removals("ipt")
        /\ Cmd("sweep", "OUTPUT", "-", ClampRules) \in Removals("ipt")
        /\ Cmd("sweep", "FORWARD", "-", ClampRules) \in Removals("ipt")
        /\ Cmd("sweep", "PREROUTING", "-", ClampRules) \in Removals("ipt")
    BY <1>1, <1>2, SweepFits
  <1> QED
    BY <1>3, Ten DEF clearB4JumpRules

LEMMA TeardownFits == teardownMasqueradeChain \in Seq(Removals("ipt"))
  <1>1. {"j_B4_MASQ"} \in SUBSET Rules /\ "NAT" \in IptChains /\ "B4_MASQ" \in UserChains
    BY DEF Rules, JumpRules, IptChains, BuiltIn, UserChains
  <1> QED
    BY <1>1, SweepFits, DropFits, Two DEF teardownMasqueradeChain

\* What a clear consists of.
Sweeping(c) ==
    clearB4JumpRules \o RemoveRules(buildManifest(c)) \o RemoveChains(ManifestChains(c)) \o teardownMasqueradeChain

LEMMA SweepingFits == ASSUME NEW c \in Setting PROVE Sweeping(c) \in Seq(Removals("ipt"))
  BY JumpsFit, ManifestFits, RemoveRulesIs, ChainLists, RemoveChainsIs, TeardownFits, Join4 DEF Sweeping

Dropping == << Cmd("drop", "b4_nat", "-", "-"), Cmd("droptable", "-", "-", "-") >>

LEMMA DroppingFits ==
  Dropping \in Seq(Removals("nft")) /\ Len(Dropping) = 2 /\ Dropping[1].do = "drop" /\ Dropping[1].ch = "b4_nat"
      /\ Dropping[2].do = "droptable"
  <1>1. LET c == Cmd("droptable", "-", "-", "-") IN c \in Cmds /\ c.do = "droptable"
    <2>1. "droptable" \in Dos /\ "-" \in Uses
      BY DEF Dos, Uses
    <2> QED
      BY <2>1, CmdIs
  <1>2. Cmd("droptable", "-", "-", "-") \in Removals("nft")
    BY <1>1 DEF Removals, Plain, CmdsOf, NftCmds
  <1>3. LET c == Cmd("drop", "b4_nat", "-", "-") IN c \in Removals("nft") /\ c.do = "drop" /\ c.ch = "b4_nat"
    BY DropFits
  <1> QED
    BY <1>1, <1>2, <1>3, Two DEF Dropping

LEMMA ClearIs ==
  ASSUME NEW c \in Setting
  PROVE  iptClear(c) = Sweeping(c) \o SysctlRevert /\ nftClear = Dropping \o SysctlRevert
  BY DEF iptClear, nftClear, Sweeping, Dropping

\* A clear takes away and then restores the values.
LEMMA ClearNeat ==
  ASSUME NEW c \in Setting PROVE iptClear(c) \in NeatCalls("ipt") /\ nftClear \in NeatCalls("nft")
  <1>1. Removals("ipt") \subseteq Plain("ipt") /\ Removals("nft") \subseteq Plain("nft")
    BY DEF Removals
  <1>2. Sweeping(c) \in Seq(Plain("ipt")) /\ Dropping \in Seq(Plain("nft"))
    BY <1>1, SweepingFits, DroppingFits
  <1> QED
    BY <1>2, PlainNeat, SysctlNeat, NeatJoined, ClearIs DEF SomeCalls

\* The commands between the creation of the table and the masquerade chain, and after it.
NftBody == {c \in Plain("nft") : c.do \in {"chain", "add"} /\ (c.do = "add" => c.ch \in NftChains)}

LEMMA AddFits ==
  ASSUME NEW ch \in NftChains \cup {"b4_nat"}, NEW r \in Rules
  PROVE  Add(ch, r) \in Plain("nft") /\ Add(ch, r).do = "add" /\ Add(ch, r).ch = ch
  <1>1. "add" \in Dos /\ ch \in Chains \cup {"-", "b4_mangle"} /\ r \in Uses
    BY ChainsAre DEF Dos, Uses
  <1>2. Add(ch, r) \in Cmds /\ Add(ch, r).do = "add" /\ Add(ch, r).ch = ch /\ Add(ch, r).at = "A"
    BY <1>1, CmdIs DEF Add
  <1> QED
    BY <1>2 DEF Plain, CmdsOf, NftCmds

LEMMA NftRulesFit ==
  ASSUME NEW c \in Setting
  PROVE  /\ nftDeviceRules(c) \in Seq(NftBody) /\ nftMarkRules(c) \in Seq(NftBody)
         /\ nftQueueRules(c) \in Seq(NftBody) /\ nftApplyMSSClamp(c) \in Seq(NftBody)
         /\ nftApplyMasquerade(c) \in Seq(Plain("nft"))
  <1> DEFINE S == NftBody
             T == NftChains
  <1>c. /\ "postrouting" \in T /\ "forward" \in T /\ "prerouting" \in T /\ "output" \in T /\ "b4_chain" \in T
    BY DEF NftChains
  <1>r. /\ "j_B4" \in Rules /\ "mac_j_B4" \in Rules /\ "mac_return" \in Rules /\ "lo_return" \in Rules
        /\ MarkRules[c.mark].save \in Rules /\ MarkRules[c.mark].accept \in Rules
        /\ MarkRules[c.mark].skip \in Rules /\ MarkRules[c.mark].reply \in Rules /\ "q_dup" \in Rules /\ "q_out" \in Rules /\ "q_dns" \in Rules
        /\ "q_dnsresp" \in Rules /\ "q_reply" \in Rules /\ "client_return" \in Rules /\ "masquerade" \in Rules
        /\ "mss_set" \in Rules /\ "mss_dev" \in Rules /\ "mss_reply" \in Rules /\ "mss_global" \in Rules
    BY MarksAre DEF Rules, QueueRules, ClampRules, JumpRules
  <1>a. \A ch \in T : \A r \in Rules : Add(ch, r) \in S
    BY AddFits DEF NftBody
  <1>f. Cmd("chain", "forward", "-", "-") \in S /\ Cmd("chain", "postrouting", "-", "-") \in S
    BY ChainFits, ChainsAre DEF NftTable, NftChains, NftBody
  <1> HIDE DEF S, T
  <1>1. nftDeviceRules(c) \in Seq(S)
    <2>1. c.dev \in {"off", "black", "white"}
      BY DEF Setting
    <2>2. /\ Add("postrouting", "j_B4") \in S /\ Add("forward", "mac_return") \in S
          /\ Add("forward", "j_B4") \in S /\ Add("forward", "mac_j_B4") \in S
      BY <1>a, <1>c, <1>r
    <2>3. /\ << Cmd("chain", "postrouting", "-", "-"), Add("postrouting", "j_B4") >> \in Seq(S)
          /\ << Cmd("chain", "forward", "-", "-"), Add("forward", "mac_return"), Add("forward", "j_B4") >> \in Seq(S)
          /\ << Cmd("chain", "forward", "-", "-"), Add("forward", "mac_j_B4") >> \in Seq(S)
      BY <1>f, <2>2, Two, Three
    <2> QED
      BY <2>1, <2>3, Zenon DEF nftDeviceRules
  <1>2. nftMarkRules(c) \in Seq(S)
    <2> DEFINE m == MarkRules[c.mark]
               A == << Add("output", "lo_return") >>
               B == IF c.connmark THEN << Add("output", m.save) >> ELSE << >>
               D == << Add("output", m.accept), Add("output", "j_B4"), Add("b4_chain", m.skip) >>
               E == IF c.connmark THEN << Add("prerouting", m.reply) >> ELSE << >>
    <2>1. /\ Add("output", "lo_return") \in S /\ Add("output", m.save) \in S
          /\ Add("output", m.accept) \in S /\ Add("output", "j_B4") \in S
          /\ Add("b4_chain", m.skip) \in S /\ Add("prerouting", m.reply) \in S
      BY <1>a, <1>c, <1>r
    <2>2. A \in Seq(S) /\ D \in Seq(S)
      BY <2>1, One, Three
    <2>3. B \in Seq(S) /\ E \in Seq(S)
      BY <2>1, One, Empty
    <2>4. nftMarkRules(c) = A \o B \o D \o E
      BY DEF nftMarkRules
    <2> HIDE DEF A, B, D, E
    <2>5. A \o B \o D \o E \in Seq(S)
      BY <2>2, <2>3, Join4
    <2> QED
      BY <2>4, <2>5
  <1>3. nftQueueRules(c) \in Seq(S)
    <2>1. /\ Add("b4_chain", "q_dup") \in S /\ Add("b4_chain", "q_out") \in S /\ Add("prerouting", "q_dns") \in S
          /\ Add("output", "q_dnsresp") \in S /\ Add("prerouting", "q_reply") \in S
      BY <1>a, <1>c, <1>r
    <2>2. << Add("b4_chain", "q_out"), Add("prerouting", "q_dns"), Add("output", "q_dnsresp"),
             Add("prerouting", "q_reply") >> \in Seq(S)
      BY <2>1, Four
    <2>3. (IF c.dup THEN << Add("b4_chain", "q_dup") >> ELSE << >>) \in Seq(S)
      BY <2>1, One, Empty
    <2> QED
      BY <2>2, <2>3, Joined DEF nftQueueRules
  <1>4. nftApplyMasquerade(c) \in Seq(Plain("nft"))
    <2> DEFINE P == Plain("nft")
    <2>1. Add("b4_nat", "client_return") \in P /\ Add("b4_nat", "masquerade") \in P
      BY <1>r, AddFits
    <2>2. Cmd("natchain", "b4_nat", "-", "-") \in P
      BY ChainFits, ChainsAre
    <2>3. Cmd("flush", "b4_nat", "-", "-") \in P
      <3>1. "flush" \in Dos /\ "b4_nat" \in Chains \cup {"-", "b4_mangle"} /\ "-" \in Uses
        BY ChainsAre DEF Dos, Uses
      <3>2. LET x == Cmd("flush", "b4_nat", "-", "-") IN x \in Cmds /\ x.do = "flush" /\ x.ch = "b4_nat"
        BY <3>1, CmdIs
      <3> QED
        BY <3>2 DEF Plain, CmdsOf, NftCmds
    <2>4. << Cmd("natchain", "b4_nat", "-", "-"), Cmd("flush", "b4_nat", "-", "-"),
             Add("b4_nat", "client_return"), Add("b4_nat", "masquerade") >> \in Seq(P)
      BY <2>1, <2>2, <2>3, Four
    <2> QED
      BY <2>4, Empty DEF nftApplyMasquerade
  <1>5. nftApplyMSSClamp(c) \in Seq(S)
    <2> DEFINE A == IF c.mss # {} THEN << Cmd("chain", "forward", "-", "-") >> ELSE << >>
               B == IF "global" \in c.mss
                    THEN << Add("output", "mss_global"), Add("forward", "mss_global"), Add("prerouting", "mss_global") >>
                    ELSE << >>
               D == IF "dev" \in c.mss THEN << Add("forward", "mss_dev"), Add("forward", "mss_reply") >> ELSE << >>
               E == IF "set" \in c.mss
                    THEN << Add("output", "mss_set"), Add("forward", "mss_set"), Add("prerouting", "mss_set") >>
                    ELSE << >>
    <2>1. A \in Seq(S)
      BY <1>f, One, Empty
    <2>2. B \in Seq(S)
      <3>1. Add("output", "mss_global") \in S /\ Add("forward", "mss_global") \in S /\ Add("prerouting", "mss_global") \in S
        BY <1>a, <1>c, <1>r
      <3> QED
        BY <3>1, Three, Empty
    <2>3. D \in Seq(S)
      <3>1. Add("forward", "mss_dev") \in S /\ Add("forward", "mss_reply") \in S
        BY <1>a, <1>c, <1>r
      <3> QED
        BY <3>1, Two, Empty
    <2>4. E \in Seq(S)
      <3>1. Add("output", "mss_set") \in S /\ Add("forward", "mss_set") \in S /\ Add("prerouting", "mss_set") \in S
        BY <1>a, <1>c, <1>r
      <3> QED
        BY <3>1, Three, Empty
    <2>5. nftApplyMSSClamp(c) = A \o B \o D \o E
      BY DEF nftApplyMSSClamp
    <2> HIDE DEF A, B, D, E
    <2>6. A \o B \o D \o E \in Seq(S)
      BY <2>1, <2>2, <2>3, <2>4, Join4
    <2> QED
      BY <2>5, <2>6
  <1> QED
    BY <1>1, <1>2, <1>3, <1>4, <1>5 DEF S

\* The commands of the clear of nftables.
LEMMA NftClearIs ==
  /\ nftClear \in Seq(CmdsOf("nft")) /\ Len(nftClear) = 4 /\ nftClear[1].do = "drop" /\ nftClear[1].ch = "b4_nat"
  /\ nftClear[2].do = "droptable" /\ nftClear[3].do = "restore" /\ nftClear[4].do = "forget"
  <1>1. Dropping \in Seq(CmdsOf("nft"))
    BY DroppingFits DEF Removals, Plain
  <1>2. SysctlRevert \in Seq(CmdsOf("nft")) /\ Len(SysctlRevert) = 2
    BY SysctlNeat DEF SomeCalls, NeatCalls, SysctlRevert
  <1>3. SysctlRevert[1].do = "restore" /\ SysctlRevert[2].do = "forget"
    BY DEF SysctlRevert, Cmd
  <1>4. nftClear = Dropping \o SysctlRevert
    BY DEF nftClear, Dropping
  <1>5. nftClear \in Seq(CmdsOf("nft")) /\ IsJoin(nftClear, Dropping, SysctlRevert)
    BY <1>1, <1>2, <1>4, JoinIs
  <1>6. nftClear[1] = Dropping[1] /\ nftClear[2] = Dropping[2] /\ Len(nftClear) = 2 + 2
    BY <1>2, <1>5, DroppingFits DEF IsJoin
  <1>7. nftClear[2 + 1] = SysctlRevert[1] /\ nftClear[2 + 2] = SysctlRevert[2]
    BY <1>2, <1>5, DroppingFits DEF IsJoin
  <1> QED
    BY <1>3, <1>5, <1>6, <1>7, DroppingFits

\* Where there is no table the clearing is skipped.
LEMMA HeadNeat ==
  << Cmd("tableexists", "-", "-", "-") >> \o nftClear \o << Cmd("table", "b4_mangle", "-", "-") >> \in SomeCalls("nft")
  <1> DEFINE te == Cmd("tableexists", "-", "-", "-")
             tb == Cmd("table", "b4_mangle", "-", "-")
             S == CmdsOf("nft")
             v == << te >> \o nftClear
             s == v \o << tb >>
  <1>1. te \in S /\ te.do = "tableexists"
    <2>1. "tableexists" \in Dos /\ "-" \in Uses
      BY DEF Dos, Uses
    <2>2. te \in Cmds /\ te.do = "tableexists"
      BY <2>1, CmdIs
    <2> QED
      BY <2>2 DEF CmdsOf, NftCmds
  <1>2. tb \in S /\ tb.do = "table"
    <2>1. tb \in Plain("nft") /\ tb.do = "table"
      BY ChainFits DEF NftTable
    <2> QED
      BY <2>1 DEF Plain
  <1>3. /\ nftClear \in Seq(S) /\ Len(nftClear) = 4 /\ nftClear[1].do = "drop" /\ nftClear[2].do = "droptable"
        /\ nftClear[3].do = "restore" /\ nftClear[4].do = "forget"
    BY NftClearIs
  <1> HIDE DEF te, tb, S
  <1>4. << te >> \in Seq(S) /\ Len(<< te >>) = 1 /\ << te >>[1] = te
    BY <1>1, One
  <1>5. << tb >> \in Seq(S) /\ Len(<< tb >>) = 1 /\ << tb >>[1] = tb
    BY <1>2, One
  <1>6. v \in Seq(S) /\ Len(v) = 5 /\ v[1] = te /\ \A i \in 1 .. 4 : v[1 + i] = nftClear[i]
    <2>1. v \in Seq(S) /\ IsJoin(v, << te >>, nftClear)
      BY <1>3, <1>4, JoinIs
    <2> HIDE DEF v
    <2>2. v[1] = << te >>[1] /\ Len(v) = 5
      BY <1>3, <1>4, <2>1 DEF IsJoin
    <2> QED
      BY <1>3, <1>4, <2>1, <2>2 DEF IsJoin
  <1> HIDE DEF v
  <1>7. s \in Seq(S) /\ Len(s) = 6 /\ (\A i \in 1 .. 5 : s[i] = v[i]) /\ s[5 + 1] = tb
    <2>1. s \in Seq(S) /\ IsJoin(s, v, << tb >>)
      BY <1>5, <1>6, JoinIs
    <2> HIDE DEF s
    <2>2. s[5 + 1] = << tb >>[1] /\ Len(s) = 6
      BY <1>5, <1>6, <2>1 DEF IsJoin
    <2> QED
      BY <1>5, <1>6, <2>1, <2>2 DEF IsJoin
  <1>8. s[1].do = "tableexists" /\ s[2].do = "drop" /\ s[3].do = "droptable" /\ s[4].do = "restore"
        /\ s[5].do = "forget" /\ s[6].do = "table"
    <2>1. v[1 + 1] = nftClear[1] /\ v[1 + 2] = nftClear[2] /\ v[1 + 3] = nftClear[3] /\ v[1 + 4] = nftClear[4]
      BY <1>6
    <2>2. v[1].do = "tableexists" /\ v[2].do = "drop" /\ v[3].do = "droptable" /\ v[4].do = "restore"
          /\ v[5].do = "forget"
      BY <1>1, <1>3, <1>6, <2>1
    <2>3. s[1] = v[1] /\ s[2] = v[2] /\ s[3] = v[3] /\ s[4] = v[4] /\ s[5] = v[5] /\ s[6] = tb
      BY <1>7
    <2> QED
      BY <1>2, <2>2, <2>3
  <1> HIDE DEF s
  <1>9. Neat(s)
    <2> SUFFICES ASSUME NEW k \in 1 .. 6 PROVE NeatAt(s, k)
      BY <1>7 DEF Neat
    <2>1. NeatAt(s, 1)
      BY <1>7, <1>8 DEF NeatAt
    <2>2. NeatAt(s, 2) /\ NeatAt(s, 3) /\ NeatAt(s, 6)
      BY <1>8 DEF NeatAt
    <2>3. NeatAt(s, 4)
      BY <1>7, <1>8 DEF NeatAt
    <2>4. NeatAt(s, 5)
      BY <1>8 DEF NeatAt
    <2> QED
      BY <2>1, <2>2, <2>3, <2>4
  <1>10. s \in NeatCalls("nft")
    BY <1>7, <1>9 DEF NeatCalls, S
  <1>11. s \in SomeCalls("nft")
    <2>1. Len(s) >= 1
      BY <1>7
    <2> QED
      BY <1>10, <2>1 DEF SomeCalls
  <1> QED
    BY <1>11 DEF s, v, te, tb

LEMMA NftApplyNeat == ASSUME NEW c \in Setting PROVE nftApply(c) \in SomeCalls("nft")
  <1> DEFINE N == NeatCalls("nft")
             M == SomeCalls("nft")
             h == << Cmd("tableexists", "-", "-", "-") >> \o nftClear \o << Cmd("table", "b4_mangle", "-", "-") >>
             e == EnsureChains(<< "b4_chain", "prerouting", "output" >>)
  <1>1. h \in M
    BY HeadNeat
  <1>2. e \in N
    <2>1. e \in Seq(Plain("nft"))
      BY ChainLists, EnsureChainsPlain
    <2> QED
      BY <2>1, PlainNeat
  <1>3. /\ nftDeviceRules(c) \in N /\ nftMarkRules(c) \in N /\ nftQueueRules(c) \in N
        /\ nftApplyMasquerade(c) \in N /\ nftApplyMSSClamp(c) \in N
    <2>1. NftBody \subseteq Plain("nft")
      BY DEF NftBody
    <2>2. \A s \in Seq(NftBody) : s \in Seq(Plain("nft"))
      BY <2>1
    <2> QED
      BY <2>2, NftRulesFit, PlainNeat
  <1>4. SysctlApply \in N
    BY SysctlNeat DEF SomeCalls
  <1>5. \A s \in M : \A t \in N : s \o t \in M
    BY SomeJoined DEF SomeCalls
  <1>6. nftApply(c) = h \o e \o nftDeviceRules(c) \o nftMarkRules(c) \o nftQueueRules(c) \o SysctlApply
                        \o nftApplyMasquerade(c) \o nftApplyMSSClamp(c)
    BY DEF nftApply
  <1> HIDE DEF h, e, N, M
  <1>7. h \o e \o nftDeviceRules(c) \o nftMarkRules(c) \in M
    BY <1>1, <1>2, <1>3, <1>5
  <1>8. h \o e \o nftDeviceRules(c) \o nftMarkRules(c) \o nftQueueRules(c) \o SysctlApply
                        \o nftApplyMasquerade(c) \o nftApplyMSSClamp(c) \in M
    BY <1>3, <1>4, <1>5, <1>7
  <1> QED
    BY <1>6, <1>8 DEF M

\* A clear ends by restoring and forgetting; before that it only takes away.
ClearShape(b, s) ==
    /\ s \in NeatCalls(b) /\ Len(s) >= 2
    /\ \A k \in 1 .. Len(s) - 2 : s[k].do \in {"sweep", "drop", "droptable"}
    /\ s[Len(s) - 1].do = "restore" /\ s[Len(s)].do = "forget"

LEMMA ClearShaped ==
  ASSUME NEW c \in Setting PROVE ClearShape("ipt", iptClear(c)) /\ ClearShape("nft", nftClear)
  <1>1. ASSUME NEW b \in {"ipt", "nft"}, NEW t \in Seq(Removals(b)), t \o SysctlRevert \in NeatCalls(b)
        PROVE  ClearShape(b, t \o SysctlRevert)
    <2> DEFINE S == CmdsOf(b)
               s == t \o SysctlRevert
    <2>1. SysctlRevert \in Seq(S) /\ Len(SysctlRevert) = 2
      BY SysctlNeat DEF SomeCalls, NeatCalls, SysctlRevert
    <2>2. SysctlRevert[1].do = "restore" /\ SysctlRevert[2].do = "forget"
      BY DEF SysctlRevert, Cmd
    <2>3. t \in Seq(S) /\ Len(t) \in Nat
      BY DEF Removals, Plain
    <2>4. /\ Len(s) = Len(t) + 2 /\ \A i \in 1 .. Len(t) : s[i] = t[i]
          /\ s[Len(t) + 1] = SysctlRevert[1] /\ s[Len(t) + 2] = SysctlRevert[2]
      BY <2>1, <2>3, Joined
    <2>5. \A i \in 1 .. Len(t) : t[i].do \in {"sweep", "drop", "droptable"}
      <3>1. \A i \in 1 .. Len(t) : t[i] \in Removals(b)
        OBVIOUS
      <3> QED
        BY <3>1 DEF Removals
    <2> HIDE DEF s
    <2>6. Len(s) >= 2 /\ Len(s) - 2 = Len(t) /\ Len(s) - 1 = Len(t) + 1 /\ Len(s) = Len(t) + 2
      BY <2>3, <2>4
    <2>7. ClearShape(b, s)
      BY <1>1, <2>2, <2>4, <2>5, <2>6 DEF ClearShape, s
    <2> QED
      BY <2>7 DEF s
  <1> QED
    BY <1>1, ClearNeat, SweepingFits, DroppingFits, ClearIs

Names == {"add", "clear", "renew"}

\* The engine of a configuration.
Eng(c) == Settings[c].engine

LEMMA CallsNeat ==
  ASSUME NEW c \in Configs, NEW name \in Names
  PROVE  /\ Calls[name][c] \in SomeCalls(Eng(c))
         /\ ClearShape(Eng(c), Calls["clear"][c])
         /\ Eng(c) \in {"ipt", "nft"}
  <1> DEFINE b == Eng(c)
  <1>1. Settings[c] \in Setting /\ b \in {"ipt", "nft"}
    BY SettingsAssumption DEF Setting, Eng
  <1>2. AddRules(c) \in SomeCalls(b)
    BY <1>1, IptApplyNeat, NftApplyNeat DEF AddRules, Eng
  <1>3. ClearRules(c) \in SomeCalls(b) /\ ClearShape(b, ClearRules(c))
    <2>1. ClearShape(b, ClearRules(c))
      BY <1>1, ClearShaped DEF ClearRules, Eng
    <2>2. ClearRules(c) \in NeatCalls(b) /\ Len(ClearRules(c)) >= 2
      BY <2>1 DEF ClearShape
    <2>3. ClearRules(c) \in Seq(CmdsOf(b))
      BY <2>2 DEF NeatCalls
    <2>4. Len(ClearRules(c)) >= 1
      BY <2>2, <2>3
    <2> QED
      BY <2>1, <2>2, <2>4 DEF SomeCalls
  <1>4. ClearRules(c) \o AddRules(c) \in SomeCalls(b)
    BY <1>2, <1>3, SomeJoined DEF SomeCalls
  <1>5. /\ Calls["add"][c] = AddRules(c) /\ Calls["clear"][c] = ClearRules(c)
        /\ Calls["renew"][c] = ClearRules(c) \o AddRules(c)
    BY DEF Calls
  <1> QED
    BY <1>1, <1>2, <1>3, <1>4, <1>5 DEF Names

\* Where the AddRules of a renew begins, nothing is set or forgotten.
LEMMA RenewAdds ==
  ASSUME NEW c \in Configs
  PROVE  LET s == Calls["renew"][c] IN
         AddAt(c) \in 1 .. Len(s) /\ s[AddAt(c)].do # "set" /\ s[AddAt(c)].do # "forget"
  <1> DEFINE b == Eng(c)
             clr == ClearRules(c)
             add == AddRules(c)
             s == clr \o add
  <1>1. Calls["add"][c] = add /\ Calls["clear"][c] = clr /\ Calls["renew"][c] = s
    BY DEF Calls
  <1>2. add \in SomeCalls(b) /\ clr \in SomeCalls(b)
    BY <1>1, CallsNeat DEF Names
  <1>3. add \in Seq(CmdsOf(b)) /\ Len(add) >= 1 /\ Neat(add) /\ clr \in Seq(CmdsOf(b))
    BY <1>2 DEF SomeCalls, NeatCalls
  <1> HIDE DEF clr, add
  <1>4. IsJoin(s, clr, add) /\ Len(clr) \in Nat /\ Len(add) \in Nat
    BY <1>3, JoinIs
  <1> HIDE DEF s
  <1>5. 1 \in 1 .. Len(add) /\ NeatAt(add, 1)
    BY <1>3, <1>4 DEF Neat
  <1>6. add[1].do # "set" /\ add[1].do # "forget"
    BY <1>5 DEF NeatAt
  <1>7. s[Len(clr) + 1] = add[1] /\ Len(clr) + 1 \in 1 .. Len(s)
    BY <1>3, <1>4, <1>5 DEF IsJoin
  <1> QED
    BY <1>1, <1>6, <1>7 DEF AddAt, clr

----------------------------------------------------------------------------
(* The calls under way *)

Phases == {"down", "starting", "up", "stopping", "leaving", "stopped"}

Values == {"orig", "b4", "default"}

CallsUnderWay == [Callers -> [name : Names, c : Configs, at : Nat]]

\* A caller is idle or at one of the commands of its call.
InCall(a) == op[a].at <= Len(Commands(a))

TypeOK ==
    /\ backend \in {"ipt", "nft"} /\ cfg \in Configs /\ phase \in Phases
    /\ op \in CallsUnderWay
    /\ sysctl \in Values /\ snap \in Values \cup {"none"}
    /\ mixed \in BOOLEAN /\ dirty \in BOOLEAN
    /\ \A a \in Callers : InCall(a)

\* Who may be in a call in which phase: outside of "up" and "stopping" only main's
\* start-up issues commands, and what main issues while stopping is a clear.
QuietDown ==
    /\ phase \in {"down", "stopped", "starting"} => ~Busy("monitor") /\ ~Busy("refresh")
    /\ phase \in {"down", "stopped", "up", "leaving"} => ~Busy("main")
    /\ phase = "stopping" /\ Busy("main") => op["main"].name = "clear" /\ op["main"].c = cfg
    /\ phase = "starting" /\ Busy("main") => op["main"].name = "renew"

LEMMA ThreeCallers == "main" \in Callers /\ "monitor" \in Callers /\ "refresh" \in Callers
  BY DEF Callers

LEMMA NoCallIs ==
  ASSUME cfg \in Configs
  PROVE  NoCall \in [name : Names, c : Configs, at : Nat] /\ NoCall.at = 0
  <1>1. (CHOOSE c \in Configs : TRUE) \in Configs
    OBVIOUS
  <1> QED
    BY <1>1 DEF NoCall, Names

LEMMA CallIs ==
  ASSUME NEW name \in Names, NEW c \in Configs
  PROVE  /\ Call(name, c) \in [name : Names, c : Configs, at : Nat]
         /\ Call(name, c).name = name /\ Call(name, c).c = c /\ Call(name, c).at = 1
  BY DEF Call

\* The commands of a caller that is in a call.
LEMMA AtCommand ==
  ASSUME TypeOK, NEW a \in Callers
  PROVE  /\ Commands(a) \in SomeCalls(Eng(op[a].c)) /\ Commands(a) \in Seq(CmdsOf(Eng(op[a].c)))
         /\ Len(Commands(a)) \in Nat /\ Len(Commands(a)) >= 1 /\ Neat(Commands(a))
         /\ op[a].at \in Nat
         /\ Busy(a) => op[a].at \in 1 .. Len(Commands(a)) /\ Current(a) \in CmdsOf(Eng(op[a].c))
         /\ op[a].name = "clear" => ClearShape(Eng(op[a].c), Commands(a))
  <1>1. op[a].c \in Configs /\ op[a].name \in Names /\ op[a].at \in Nat /\ InCall(a)
    BY DEF TypeOK, CallsUnderWay
  <1>2. Commands(a) \in SomeCalls(Eng(op[a].c))
    BY <1>1, CallsNeat DEF Commands
  <1>3. Commands(a) \in Seq(CmdsOf(Eng(op[a].c))) /\ Len(Commands(a)) >= 1 /\ Neat(Commands(a))
    BY <1>2 DEF SomeCalls, NeatCalls
  <1>4. Len(Commands(a)) \in Nat
    BY <1>3
  <1>5. ASSUME Busy(a) PROVE op[a].at \in 1 .. Len(Commands(a))
    BY <1>1, <1>4, <1>5 DEF Busy, InCall
  <1>6. ASSUME Busy(a) PROVE Current(a) \in CmdsOf(Eng(op[a].c))
    BY <1>3, <1>5, <1>6, ElementOf DEF Current
  <1>7. ASSUME op[a].name = "clear" PROVE ClearShape(Eng(op[a].c), Commands(a))
    BY <1>1, <1>7, CallsNeat DEF Commands, Names
  <1> QED
    BY <1>1, <1>2, <1>3, <1>4, <1>5, <1>6, <1>7

LEMMA ClearLength == Len(nftClear) = 4
  BY DEF nftClear, SysctlRevert

\* What a command skips.
LEMMA Skips ==
  ASSUME NEW cmd
  PROVE  /\ Advance(cmd) \in {1, 2, 5}
         /\ Advance(cmd) = 2 => cmd.do = "check" \/ (cmd.do = "restore" /\ snap = "none")
         /\ Advance(cmd) = 5 => cmd.do = "tableexists"
         /\ cmd.do = "restore" /\ Advance(cmd) = 1 => snap # "none"
         /\ cmd.do = "restore" /\ snap = "none" => Advance(cmd) = 2
  BY ClearLength DEF Advance

\* Wherever a command leads, a value is set only after it was saved and forgotten only
\* after it was restored from a snapshot.
LEMMA NextCommand ==
  ASSUME NEW b, NEW s \in Seq(CmdsOf(b)), Neat(s), NEW k \in 1 .. Len(s), NEW n \in {1, 2, 5},
         n = Advance(s[k]), k + n <= Len(s)
  PROVE  /\ s[k + n].do = "set" => s[k].do = "save"
         /\ s[k + n].do = "forget" => s[k].do = "restore" /\ snap # "none"
  <1> DEFINE L == Len(s)
  <1>0. L \in Nat /\ k \in 1 .. L /\ k + n \in 1 .. L
    OBVIOUS
  <1>1. NeatAt(s, k) /\ NeatAt(s, k + n)
    BY <1>0 DEF Neat
  <1>2. CASE n = 1
    <2>1. (k + 1) - 1 = k
      BY <1>0
    <2>2. s[k + 1].do = "set" => s[k].do = "save"
      BY <1>1, <1>2, <2>1 DEF NeatAt
    <2>3. s[k + 1].do = "forget" => s[k].do = "restore"
      BY <1>1, <1>2, <2>1 DEF NeatAt
    <2>4. s[k].do = "restore" => snap # "none"
      BY <1>2, Skips
    <2> QED
      BY <1>2, <2>2, <2>3, <2>4
  <1>3. CASE n = 2
    <2>1. (k + 2) - 1 = k + 1
      BY <1>0
    <2>2. s[k].do = "check" \/ s[k].do = "restore"
      BY <1>3, Skips
    <2>3. s[k + 1].do = "apply" \/ s[k + 1].do = "forget"
      BY <1>1, <2>2 DEF NeatAt
    <2>4. s[k + 2].do = "set" => s[k + 1].do = "save"
      BY <1>1, <1>3, <2>1 DEF NeatAt
    <2>5. s[k + 2].do = "forget" => s[k + 1].do = "restore"
      BY <1>1, <1>3, <2>1 DEF NeatAt
    <2> QED
      BY <1>3, <2>3, <2>4, <2>5
  <1>4. CASE n = 5
    <2>1. s[k].do = "tableexists"
      BY <1>4, Skips
    <2>2. s[k + 5].do = "table"
      BY <1>1, <2>1 DEF NeatAt
    <2> QED
      BY <1>4, <2>2
  <1> QED
    BY <1>2, <1>3, <1>4

\* A call goes on or ends.
LEMMA MovedIs ==
  ASSUME TypeOK, NEW a \in Callers, Busy(a), NEW n \in {1, 2, 5}
  PROVE  /\ Moved(a, n) \in [name : Names, c : Configs, at : Nat]
         /\ op[a].at + n > Len(Commands(a)) => Moved(a, n) = NoCall
         /\ op[a].at + n <= Len(Commands(a)) =>
                /\ Moved(a, n).name = op[a].name /\ Moved(a, n).c = op[a].c
                /\ Moved(a, n).at = op[a].at + n
  <1>1. op[a] \in [name : Names, c : Configs, at : Nat] /\ cfg \in Configs
    BY DEF TypeOK, CallsUnderWay
  <1>2. op[a].at \in Nat /\ Len(Commands(a)) \in Nat
    BY AtCommand
  <1>3. CASE op[a].at + n > Len(Commands(a))
    BY <1>2, <1>3, <1>1, NoCallIs DEF Moved
  <1>4. CASE op[a].at + n <= Len(Commands(a))
    <2>1. Moved(a, n) = [op[a] EXCEPT !.at = @ + n]
      BY <1>2, <1>4 DEF Moved
    <2> QED
      BY <1>1, <1>2, <1>4, <2>1
  <1> QED
    BY <1>2, <1>3, <1>4

\* What becomes of the calls when caller a's entry is replaced.
LEMMA Replaced ==
  ASSUME TypeOK, NEW a \in Callers, NEW e \in [name : Names, c : Configs, at : Nat],
         op' = [op EXCEPT ![a] = e]
  PROVE  /\ op' \in CallsUnderWay /\ op'[a] = e
         /\ \A b \in Callers \ {a} : op'[b] = op[b] /\ Commands(b)' = Commands(b) /\ (Busy(b)' <=> Busy(b))
                                     /\ (InCall(b)' <=> InCall(b)) /\ Current(b)' = Current(b)
         /\ Commands(a)' = Calls[e.name][e.c]
  <1>1. op \in CallsUnderWay
    BY DEF TypeOK
  <1>2. op' \in CallsUnderWay /\ op'[a] = e /\ \A b \in Callers \ {a} : op'[b] = op[b]
    BY <1>1 DEF CallsUnderWay
  <1>3. ASSUME NEW b \in Callers \ {a}
        PROVE  Commands(b)' = Commands(b) /\ (Busy(b)' <=> Busy(b)) /\ (InCall(b)' <=> InCall(b))
               /\ Current(b)' = Current(b)
    BY <1>2, <1>3 DEF Commands, Busy, InCall, Current
  <1>4. Commands(a)' = Calls[e.name][e.c]
    BY <1>2 DEF Commands
  <1> QED
    BY <1>2, <1>3, <1>4

\* A new call begins at a command that neither sets nor forgets.
LEMMA BegunIs ==
  ASSUME TypeOK, NEW a \in Callers, NEW name \in Names, NEW c \in Configs,
         op' = [op EXCEPT ![a] = Call(name, c)]
  PROVE  /\ op' \in CallsUnderWay /\ op'[a] = Call(name, c) /\ Busy(a)' /\ InCall(a)'
         /\ op'[a].name = name /\ op'[a].c = c /\ op'[a].at = 1
         /\ Current(a)'.do # "set" /\ Current(a)'.do # "forget"
         /\ Commands(a)' = Calls[name][c]
  <1>1. op' \in CallsUnderWay /\ op'[a] = Call(name, c) /\ Commands(a)' = Calls[name][c]
    <2> DEFINE e == Call(name, c)
    <2>1. e \in [name : Names, c : Configs, at : Nat] /\ e.name = name /\ e.c = c
      BY CallIs
    <2>2. op' = [op EXCEPT ![a] = e]
      OBVIOUS
    <2> HIDE DEF e
    <2>3. op' \in CallsUnderWay /\ op'[a] = e /\ Commands(a)' = Calls[e.name][e.c]
      BY <2>1, <2>2, Replaced
    <2> QED
      BY <2>1, <2>3 DEF e
  <1>2. op'[a].at = 1 /\ op'[a].name = name /\ op'[a].c = c
    BY <1>1, CallIs
  <1> DEFINE s == Calls[name][c]
  <1>4. s \in SomeCalls(Eng(c))
    BY CallsNeat
  <1> HIDE DEF s
  <1>5. s \in Seq(CmdsOf(Eng(c))) /\ Len(s) >= 1 /\ Neat(s)
    BY <1>4 DEF SomeCalls, NeatCalls
  <1>6. Len(s) \in Nat
    BY <1>5
  <1>7. 1 \in 1 .. Len(s) /\ 1 <= Len(s)
    BY <1>5, <1>6
  <1>8. NeatAt(s, 1)
    BY <1>5, <1>7 DEF Neat
  <1>9. s[1].do # "set" /\ s[1].do # "forget"
    BY <1>8 DEF NeatAt
  <1>10. Current(a)' = s[1]
    BY <1>1, <1>2 DEF Current, s
  <1>11. Busy(a)'
    BY <1>2 DEF Busy
  <1>12. InCall(a)'
    BY <1>1, <1>2, <1>7 DEF InCall, s
  <1> QED
    BY <1>1, <1>2, <1>9, <1>10, <1>11, <1>12
----------------------------------------------------------------------------
(* The sysctl values *)

\* Until calls overlap one caller is at work at a time; the snapshot never holds b4's
\* value, b4's value never stands without a snapshot, and a clear that main has
\* finished while stopping has put the value back.
Saved ==
    /\ \A a, b \in Callers : Busy(a) /\ Busy(b) => a = b
    /\ snap # "b4"
    /\ snap = "none" => sysctl # "b4"
    /\ \A a \in Callers : Busy(a) /\ Current(a).do = "set" => snap # "none"
    /\ \A a \in Callers : Busy(a) /\ Current(a).do = "forget" => sysctl # "b4"
    /\ phase = "stopping" => ~Busy("monitor") /\ ~Busy("refresh") /\ (Busy("main") \/ sysctl # "b4")
    /\ phase = "stopped" => sysctl # "b4"

CallsInv == TypeOK /\ QuietDown

SysctlInv == CallsInv /\ (~mixed => Saved)

\* What one command does to the values.
LEMMA ValuesTyped ==
  ASSUME TypeOK, NEW cmd, ExecSysctl(cmd)
  PROVE  /\ sysctl' \in Values /\ snap' \in Values \cup {"none"}
         /\ cmd.do = "set" => sysctl' = "b4" /\ snap' = snap
         /\ cmd.do = "restore" => sysctl' = (IF snap = "none" THEN "default" ELSE snap) /\ snap' = snap
         /\ cmd.do = "save" => sysctl' = sysctl /\ snap' = (IF snap = "none" THEN sysctl ELSE snap)
         /\ cmd.do = "forget" => sysctl' = sysctl /\ snap' = "none"
         /\ cmd.do \notin {"set", "restore", "save", "forget"} => sysctl' = sysctl /\ snap' = snap
  <1>1. sysctl \in Values /\ snap \in Values \cup {"none"}
    BY DEF TypeOK
  <1>2. CASE cmd.do = "set"
    BY <1>1, <1>2, Zenon DEF ExecSysctl, Values
  <1>3. CASE cmd.do = "restore"
    BY <1>1, <1>3 DEF ExecSysctl, Values
  <1>4. CASE cmd.do = "save"
    BY <1>1, <1>4 DEF ExecSysctl, Values
  <1>5. CASE cmd.do = "forget"
    BY <1>1, <1>5 DEF ExecSysctl, Values
  <1>6. CASE cmd.do \notin {"set", "restore", "save", "forget"}
    BY <1>1, <1>6 DEF ExecSysctl, Values
  <1> QED
    BY <1>2, <1>3, <1>4, <1>5, <1>6

\* A call ends.
LEMMA Ends ==
  ASSUME TypeOK, NEW a \in Callers, op' = [op EXCEPT ![a] = NoCall]
  PROVE  /\ op' \in CallsUnderWay /\ ~Busy(a)' /\ \A b \in Callers : InCall(b)'
         /\ \A b \in Callers : Busy(b)' => b # a /\ Busy(b) /\ op'[b] = op[b] /\ Current(b)' = Current(b)
  <1> DEFINE e == NoCall
  <1>1. e \in [name : Names, c : Configs, at : Nat] /\ e.at = 0
    BY NoCallIs DEF TypeOK
  <1>2. op' = [op EXCEPT ![a] = e]
    OBVIOUS
  <1> HIDE DEF e
  <1>3. /\ op' \in CallsUnderWay /\ op'[a] = e
        /\ \A b \in Callers \ {a} : /\ op'[b] = op[b] /\ (Busy(b)' <=> Busy(b))
                                     /\ (InCall(b)' <=> InCall(b)) /\ Current(b)' = Current(b)
        /\ Commands(a)' = Calls[e.name][e.c]
    BY <1>1, <1>2, Replaced
  <1>4. ~Busy(a)'
    BY <1>1, <1>3 DEF Busy
  <1>5. InCall(a)'
    <2>1. Commands(a)' \in SomeCalls(Eng(e.c))
      BY <1>1, <1>3, CallsNeat
    <2>2. Commands(a)' \in Seq(CmdsOf(Eng(e.c)))
      BY <2>1 DEF SomeCalls, NeatCalls
    <2>3. Len(Commands(a)') \in Nat
      BY <2>2
    <2>4. 0 <= Len(Commands(a)')
      BY <2>3
    <2> QED
      BY <1>1, <1>3, <2>4 DEF InCall
  <1>6. \A b \in Callers : InCall(b)
    BY DEF TypeOK
  <1> QED
    BY <1>3, <1>4, <1>5, <1>6

\* A caller in a call moves by n commands.
LEMMA Moves ==
  ASSUME TypeOK, NEW a \in Callers, Busy(a), NEW n \in {1, 2, 5},
         op' = [op EXCEPT ![a] = Moved(a, n)]
  PROVE  /\ op' \in CallsUnderWay /\ \A b \in Callers : InCall(b)'
         /\ \A b \in Callers : Busy(b)' => Busy(b) /\ op'[b].name = op[b].name /\ op'[b].c = op[b].c
         /\ \A b \in Callers \ {a} : Busy(b)' => op'[b] = op[b] /\ Current(b)' = Current(b)
         /\ Busy(a)' => op'[a].c = op[a].c /\ op'[a].at = op[a].at + n
                        /\ op[a].at + n <= Len(Commands(a))
                        /\ Commands(a)' = Commands(a) /\ Current(a)' = Commands(a)[op[a].at + n]
         /\ ~Busy(a)' => op[a].at + n > Len(Commands(a))
  <1> DEFINE e == Moved(a, n)
  <1>1. e \in [name : Names, c : Configs, at : Nat]
    BY MovedIs
  <1>2. op' = [op EXCEPT ![a] = e]
    OBVIOUS
  <1> HIDE DEF e
  <1>4. op[a].at \in Nat /\ Len(Commands(a)) \in Nat /\ op[a].at \in 1 .. Len(Commands(a))
    BY AtCommand
  <1>6. CASE op[a].at + n > Len(Commands(a))
    <2>1. e = NoCall
      BY <1>6, MovedIs DEF e
    <2>2. op' = [op EXCEPT ![a] = NoCall]
      BY <1>2, <2>1
    <2>3. /\ op' \in CallsUnderWay /\ ~Busy(a)' /\ \A b \in Callers : InCall(b)'
          /\ \A b \in Callers : Busy(b)' => b # a /\ Busy(b) /\ op'[b] = op[b] /\ Current(b)' = Current(b)
      BY <2>2, Ends
    <2> QED
      BY <1>6, <2>3
  <1>7. CASE op[a].at + n <= Len(Commands(a))
    <2>0. /\ op' \in CallsUnderWay /\ op'[a] = e
          /\ \A b \in Callers \ {a} : /\ op'[b] = op[b] /\ (Busy(b)' <=> Busy(b))
                                       /\ (InCall(b)' <=> InCall(b)) /\ Current(b)' = Current(b)
          /\ Commands(a)' = Calls[e.name][e.c]
      BY <1>1, <1>2, Replaced
    <2>1. e.name = op[a].name /\ e.c = op[a].c /\ e.at = op[a].at + n
      BY <1>7, MovedIs DEF e
    <2>2. op'[a].name = op[a].name /\ op'[a].c = op[a].c /\ op'[a].at = op[a].at + n
      BY <2>0, <2>1
    <2>3. Commands(a)' = Commands(a)
      BY <2>0, <2>1 DEF Commands
    <2>4. Current(a)' = Commands(a)[op[a].at + n]
      BY <2>2, <2>3 DEF Current
    <2>5. Busy(a)'
      BY <1>4, <2>2 DEF Busy
    <2>6. InCall(a)'
      BY <1>7, <2>2, <2>3 DEF InCall
    <2>7. \A b \in Callers : InCall(b)
      BY DEF TypeOK
    <2> QED
      BY <1>7, <2>0, <2>2, <2>3, <2>4, <2>5, <2>6, <2>7
  <1> QED
    BY <1>4, <1>6, <1>7

\* Only a caller that is in a call issues a command, and a clear issues only commands
\* that take away, restore and forget.
LEMMA ClearCommand ==
  ASSUME CallsInv, phase = "stopping", Busy("main")
  PROVE  /\ ClearShape(Eng(op["main"].c), Commands("main"))
         /\ Current("main").do \in {"sweep", "drop", "droptable", "restore", "forget"}
         /\ op["main"].at < Len(Commands("main")) - 1 => Current("main").do \in {"sweep", "drop", "droptable"}
         /\ op["main"].at = Len(Commands("main")) - 1 => Current("main").do = "restore"
         /\ op["main"].at = Len(Commands("main")) => Current("main").do = "forget"
  <1> DEFINE s == Commands("main")
             k == op["main"].at
  <1>1. TypeOK /\ op["main"].name = "clear"
    BY DEF CallsInv, QuietDown
  <1>2. ClearShape(Eng(op["main"].c), s) /\ k \in 1 .. Len(s) /\ Len(s) \in Nat
    BY <1>1, ThreeCallers, AtCommand
  <1>3. Current("main") = s[k]
    BY DEF Current
  <1> HIDE DEF s, k
  <1>4. CASE k < Len(s) - 1
    <2>1. k \in 1 .. Len(s) - 2
      BY <1>2, <1>4
    <2>2. s[k].do \in {"sweep", "drop", "droptable"}
      BY <1>2, <2>1 DEF ClearShape
    <2>3. k # Len(s) - 1 /\ k # Len(s)
      BY <1>2, <1>4
    <2> QED
      BY <1>2, <1>3, <2>2, <2>3 DEF s, k
  <1>5. CASE k = Len(s) - 1
    <2>1. s[k].do = "restore"
      BY <1>2, <1>5 DEF ClearShape
    <2>2. ~(k < Len(s) - 1) /\ k # Len(s)
      BY <1>2, <1>5
    <2> QED
      BY <1>2, <1>3, <2>1, <2>2 DEF s, k
  <1>6. CASE k = Len(s)
    <2>1. s[k].do = "forget"
      BY <1>2, <1>6 DEF ClearShape
    <2>2. ~(k < Len(s) - 1) /\ k # Len(s) - 1
      BY <1>2, <1>6
    <2> QED
      BY <1>2, <1>3, <2>1, <2>2 DEF s, k
  <1> QED
    BY <1>2, <1>4, <1>5, <1>6

\* A manifest that cannot be built ends the call, or start-up goes on with AddRules.
LEMMA ManifestFailing ==
  ASSUME NEW a \in Callers, ManifestFails(a)
  PROVE  /\ dirty' = TRUE /\ UNCHANGED <<backend, cfg, kernel, chains, sysctl, snap, mixed>> /\ Busy(a)
         /\ \/ op' = [op EXCEPT ![a] = NoCall] /\ phase' \in {phase, "down", "leaving"}
               /\ (phase' = "down" => (a = "main" /\ phase = "starting") \/ phase' = phase)
               /\ (phase' = "leaving" => (a = "main" /\ phase = "stopping") \/ phase' = phase)
               /\ (a = "main" /\ phase = "stopping" => phase' = "leaving")
            \/ /\ op' = [op EXCEPT ![a] = [@ EXCEPT !.at = AddAt(op[a].c)]] /\ phase' = phase
               /\ a = "main" /\ phase = "starting"
  <1> DEFINE goesOn == phase = "starting" /\ a = "main" /\ op[a].at = 1
  <1>1. /\ dirty' = TRUE /\ UNCHANGED <<backend, cfg, kernel, chains, sysctl, snap, mixed>> /\ Busy(a)
        /\ op' = [op EXCEPT ![a] = IF goesOn THEN [@ EXCEPT !.at = AddAt(op[a].c)] ELSE NoCall]
        /\ phase' = CASE a = "main" /\ phase = "starting" /\ ~goesOn -> "down"
                      [] a = "main" /\ phase = "stopping" -> "leaving"
                      [] OTHER -> phase
    BY DEF ManifestFails, MayRun
  <1>2. CASE goesOn
    <2>1. phase' = phase
      BY <1>1, <1>2
    <2> QED
      BY <1>1, <1>2, <2>1
  <1>3. CASE ~goesOn
    <2>1. op' = [op EXCEPT ![a] = NoCall]
      BY <1>1, <1>3
    <2>2. CASE a = "main" /\ phase = "starting"
      BY <1>1, <1>3, <2>1, <2>2
    <2>3. CASE a = "main" /\ phase = "stopping"
      BY <1>1, <2>1, <2>3
    <2>4. CASE ~(a = "main" /\ phase = "starting") /\ ~(a = "main" /\ phase = "stopping")
      <3>1. phase' = phase
        BY <1>1, <2>4
      <3> QED
        BY <1>1, <2>1, <2>4, <3>1
    <2> QED
      BY <2>2, <2>3, <2>4
  <1> QED
    BY <1>2, <1>3

LEMMA SkipsClear ==
  ASSUME TypeOK, QuietDown, phase = "starting", Busy("main"),
         op' = [op EXCEPT !["main"] = [@ EXCEPT !.at = AddAt(op["main"].c)]]
  PROVE  /\ op' \in CallsUnderWay /\ (\A b \in Callers : InCall(b)') /\ op'["main"].name = "renew"
         /\ Current("main")'.do # "set" /\ Current("main")'.do # "forget"
         /\ op'["main"].c = op["main"].c /\ op'["main"].at = AddAt(op["main"].c)
         /\ \A b \in Callers \ {"main"} : op'[b] = op[b] /\ (Busy(b)' <=> Busy(b)) /\ Current(b)' = Current(b)
  <1> USE ThreeCallers
  <1> DEFINE c == op["main"].c
             e == [op["main"] EXCEPT !.at = AddAt(c)]
             s == Calls["renew"][c]
  <1>1. op["main"].name = "renew" /\ op["main"] \in [name : Names, c : Configs, at : Nat]
    BY DEF QuietDown, TypeOK, CallsUnderWay
  <1>2. AddAt(c) \in 1 .. Len(s) /\ s[AddAt(c)].do # "set" /\ s[AddAt(c)].do # "forget"
    BY <1>1, RenewAdds
  <1>3. e \in [name : Names, c : Configs, at : Nat] /\ e.name = "renew" /\ e.c = c /\ e.at = AddAt(c)
    BY <1>1, <1>2
  <1>4. op' = [op EXCEPT !["main"] = e]
    OBVIOUS
  <1> HIDE DEF e
  <1>5. /\ op' \in CallsUnderWay /\ op'["main"] = e
        /\ \A b \in Callers \ {"main"} : op'[b] = op[b] /\ (Busy(b)' <=> Busy(b)) /\ (InCall(b)' <=> InCall(b))
                                        /\ Current(b)' = Current(b)
        /\ Commands("main")' = Calls[e.name][e.c]
    BY <1>3, <1>4, Replaced
  <1>6. Commands("main")' = s /\ Current("main")' = s[AddAt(c)]
    BY <1>3, <1>5 DEF Current
  <1>7. InCall("main")'
    BY <1>2, <1>3, <1>5, <1>6 DEF InCall
  <1>8. \A b \in Callers : InCall(b)
    BY DEF TypeOK
  <1> QED
    BY <1>2, <1>3, <1>5, <1>6, <1>7, <1>8

LEMMA CallsStep == ASSUME CallsInv, Next PROVE CallsInv'
  <1> USE ThreeCallers
  <1>0. TypeOK /\ QuietDown
    BY DEF CallsInv
  <1>t. /\ backend \in {"ipt", "nft"} /\ cfg \in Configs /\ phase \in Phases /\ op \in CallsUnderWay
        /\ sysctl \in Values /\ snap \in Values \cup {"none"} /\ mixed \in BOOLEAN /\ dirty \in BOOLEAN
        /\ \A a \in Callers : InCall(a)
    BY <1>0 DEF TypeOK
  <1>i. ASSUME op' = op
        PROVE  /\ \A a \in Callers : /\ InCall(a)' /\ (Busy(a)' <=> Busy(a)) /\ op'[a].name = op[a].name
                                       /\ op'[a].c = op[a].c
               /\ op' \in CallsUnderWay
    BY <1>t, <1>i DEF InCall, Commands, Busy
  <1>n. ASSUME NEW a \in Callers, NEW name \in Names, NEW c \in Configs,
               op' = [op EXCEPT ![a] = Call(name, c)]
        PROVE  /\ op' \in CallsUnderWay /\ op'[a].name = name /\ op'[a].c = c /\ \A b \in Callers : InCall(b)'
               /\ \A b \in Callers \ {a} : op'[b] = op[b] /\ (Busy(b)' <=> Busy(b))
    <2> DEFINE e == Call(name, c)
    <2>1. e \in [name : Names, c : Configs, at : Nat] /\ e.name = name /\ e.c = c
      BY CallIs
    <2>2. op' = [op EXCEPT ![a] = e]
      BY <1>n
    <2> HIDE DEF e
    <2>3. /\ op' \in CallsUnderWay
          /\ \A b \in Callers \ {a} : op'[b] = op[b] /\ (Busy(b)' <=> Busy(b)) /\ (InCall(b)' <=> InCall(b))
      BY <1>0, <1>n, <2>1, <2>2, Replaced
    <2>7. op'[a] = e
      BY <1>t, <2>2 DEF CallsUnderWay
    <2>5. op'[a].name = name /\ op'[a].c = c
      BY <2>1, <2>7
    <2>6. InCall(a)'
      BY <1>0, <1>n, BegunIs
    <2>4. op'[a].name = name /\ op'[a].c = c /\ InCall(a)'
      BY <2>5, <2>6
    <2> QED
      BY <1>t, <2>3, <2>4
  <1>u. ASSUME op' = Unloaded
        PROVE  op' \in CallsUnderWay /\ \A a \in Callers : InCall(a)' /\ ~Busy(a)'
    <2> DEFINE e == NoCall
    <2>1. e \in [name : Names, c : Configs, at : Nat] /\ e.at = 0
      BY <1>t, NoCallIs
    <2>2. op' = [a \in Callers |-> e]
      BY <1>u DEF Unloaded
    <2> HIDE DEF e
    <2>3. op' \in CallsUnderWay /\ \A a \in Callers : op'[a] = e
      BY <2>1, <2>2 DEF CallsUnderWay
    <2>4. ASSUME NEW a \in Callers PROVE InCall(a)' /\ ~Busy(a)'
      <3>1. Commands(a)' = Calls[e.name][e.c]
        BY <1>u, <2>3 DEF Commands
      <3>2. Commands(a)' \in SomeCalls(Eng(e.c))
        BY <1>t, <2>1, <3>1, CallsNeat
      <3>3. Commands(a)' \in Seq(CmdsOf(Eng(e.c)))
        BY <3>2 DEF SomeCalls, NeatCalls
      <3>4. Len(Commands(a)') \in Nat
        BY <3>3
      <3>5. 0 <= Len(Commands(a)')
        BY <3>4
      <3> QED
        BY <2>1, <2>3, <3>5 DEF InCall, Busy
    <2> QED
      BY <2>3, <2>4
  <1>1. ASSUME NEW a \in Callers, Issue(a) PROVE CallsInv'
    <2>1. /\ Busy(a) /\ ExecSysctl(Current(a)) /\ op' = [op EXCEPT ![a] = Moved(a, Advance(Current(a)))]
          /\ UNCHANGED <<backend, cfg, phase, dirty, mixed>>
      BY <1>1 DEF Issue, MayRun
    <2>2. Advance(Current(a)) \in {1, 2, 5}
      BY Skips
    <2>3. /\ op' \in CallsUnderWay /\ \A b \in Callers : InCall(b)'
          /\ \A b \in Callers : Busy(b)' => Busy(b) /\ op'[b].name = op[b].name /\ op'[b].c = op[b].c
      BY <1>0, <2>1, <2>2, Moves
    <2>4. TypeOK'
      BY <1>0, <1>t, <2>1, <2>3, ValuesTyped DEF TypeOK
    <2>5. QuietDown'
      BY <1>0, <2>1, <2>3 DEF QuietDown
    <2> QED
      BY <2>4, <2>5 DEF CallsInv
  <1>2. ASSUME NEW a \in Callers, CommandFails(a) PROVE CallsInv'
    <2> DEFINE optional == Ignored(Current(a))
    <2>1. /\ Busy(a) /\ op' = [op EXCEPT ![a] = IF optional THEN Moved(a, 1) ELSE NoCall] /\ dirty' = TRUE
          /\ phase' = IF a = "main" /\ phase = "starting" /\ ~optional THEN "down" ELSE phase
          /\ UNCHANGED <<backend, cfg, sysctl, snap, mixed>>
      BY <1>2 DEF CommandFails, MayRun
    <2> HIDE DEF optional
    <2>2. CASE optional
      <3>1. /\ op' \in CallsUnderWay /\ \A b \in Callers : InCall(b)'
            /\ \A b \in Callers : Busy(b)' => Busy(b) /\ op'[b].name = op[b].name /\ op'[b].c = op[b].c
        BY <1>0, <2>1, <2>2, Moves
      <3>2. phase' = phase
        BY <2>1, <2>2
      <3>3. TypeOK'
        BY <1>t, <2>1, <3>1, <3>2 DEF TypeOK
      <3>4. QuietDown'
        BY <1>0, <2>1, <3>1, <3>2 DEF QuietDown
      <3> QED
        BY <3>3, <3>4 DEF CallsInv
    <2>3. CASE ~optional
      <3>1. /\ op' \in CallsUnderWay /\ ~Busy(a)' /\ \A b \in Callers : InCall(b)'
            /\ \A b \in Callers : Busy(b)' => Busy(b) /\ op'[b] = op[b]
        BY <1>0, <2>1, <2>3, Ends
      <3>2. phase' = phase \/ (phase' = "down" /\ phase = "starting" /\ a = "main")
        BY <2>1
      <3>3. phase' \in Phases
        BY <1>t, <3>2 DEF Phases
      <3>4. TypeOK'
        BY <1>t, <2>1, <3>1, <3>3 DEF TypeOK
      <3>5. QuietDown'
        BY <1>0, <2>1, <3>1, <3>2 DEF QuietDown
      <3> QED
        BY <3>4, <3>5 DEF CallsInv
    <2> QED
      BY <2>2, <2>3
  <1>3. ASSUME NEW c \in Configs, Start(c) PROVE CallsInv'
    <2>1. /\ phase \in {"down", "stopped"} /\ cfg' = c /\ phase' = "starting" /\ dirty' = FALSE
          /\ op' = [op EXCEPT !["main"] = Call("renew", c)] /\ UNCHANGED <<sysctl, snap, mixed>>
          /\ backend' = Eng(c)
      BY <1>3 DEF Start, Eng
    <2>e. backend' \in {"ipt", "nft"}
      BY <2>1, CallsNeat DEF Names
    <2>2. /\ op' \in CallsUnderWay /\ (\A b \in Callers : InCall(b)') /\ op'["main"].name = "renew"
          /\ (Busy("monitor")' <=> Busy("monitor")) /\ (Busy("refresh")' <=> Busy("refresh"))
      BY <1>n, <2>1 DEF Names
    <2>3. TypeOK'
      BY <1>t, <2>1, <2>2, <2>e DEF TypeOK, Phases
    <2>4. QuietDown'
      BY <1>0, <2>1, <2>2 DEF QuietDown
    <2> QED
      BY <2>3, <2>4 DEF CallsInv
  <1>4. ASSUME NEW c \in Configs, StoreConfig(c) PROVE CallsInv'
    <2>1. cfg' = c /\ phase = "up" /\ UNCHANGED <<backend, phase, op, sysctl, snap, mixed>>
      BY <1>4 DEF StoreConfig
    <2>d. dirty' \in BOOLEAN
      BY <1>4, <1>t, Zenon DEF StoreConfig
    <2>2. TypeOK'
      BY <1>t, <1>i, <2>1, <2>d DEF TypeOK
    <2>3. QuietDown'
      BY <1>0, <1>i, <2>1 DEF QuietDown
    <2> QED
      BY <2>2, <2>3 DEF CallsInv
  <1>5. ASSUME Started \/ PoolStartFails PROVE CallsInv'
    <2>1. /\ phase = "starting" /\ ~Busy("main") /\ phase' \in {"up", "down"}
          /\ UNCHANGED <<backend, cfg, op, sysctl, snap, dirty, mixed>>
      BY <1>5 DEF Started, PoolStartFails
    <2>2. TypeOK'
      BY <1>t, <1>i, <2>1 DEF TypeOK, Phases
    <2>3. QuietDown'
      BY <1>0, <1>i, <2>1 DEF QuietDown
    <2> QED
      BY <2>2, <2>3 DEF CallsInv
  <1>6. ASSUME Refresh PROVE CallsInv'
    <2>1. /\ phase \in {"up", "stopping", "leaving"} /\ op' = [op EXCEPT !["refresh"] = Call("renew", cfg)]
          /\ UNCHANGED <<backend, cfg, phase, sysctl, snap>>
      BY <1>6 DEF Refresh
    <2>2. dirty' \in BOOLEAN /\ mixed' \in BOOLEAN
      BY <1>6, <1>t, Zenon DEF Refresh, Others
    <2>3. /\ op' \in CallsUnderWay /\ \A b \in Callers : InCall(b)'
          /\ op'["main"] = op["main"] /\ (Busy("main")' <=> Busy("main"))
      <3>1. "renew" \in Names /\ "main" \in Callers \ {"refresh"}
        BY DEF Names, Callers
      <3>2. /\ op' \in CallsUnderWay /\ \A b \in Callers : InCall(b)'
            /\ \A b \in Callers \ {"refresh"} : op'[b] = op[b] /\ (Busy(b)' <=> Busy(b))
        BY <1>n, <1>t, <2>1, <3>1
      <3> QED
        BY <3>1, <3>2
    <2>4. TypeOK'
      BY <1>t, <2>1, <2>2, <2>3 DEF TypeOK
    <2>5. QuietDown'
      BY <1>0, <2>1, <2>3 DEF QuietDown
    <2> QED
      BY <2>4, <2>5 DEF CallsInv
  <1>7. ASSUME Tick PROVE CallsInv'
    <2>1. /\ phase = "up" /\ op' = [op EXCEPT !["monitor"] = Call("add", cfg)]
          /\ UNCHANGED <<backend, cfg, phase, sysctl, snap>>
      BY <1>7 DEF Tick
    <2>2. dirty' \in BOOLEAN /\ mixed' \in BOOLEAN
      BY <1>7, <1>t, Zenon DEF Tick, Others
    <2>3. /\ op' \in CallsUnderWay /\ \A b \in Callers : InCall(b)'
          /\ op'["main"] = op["main"] /\ (Busy("main")' <=> Busy("main"))
      <3>1. "add" \in Names /\ "main" \in Callers \ {"monitor"}
        BY DEF Names, Callers
      <3>2. /\ op' \in CallsUnderWay /\ \A b \in Callers : InCall(b)'
            /\ \A b \in Callers \ {"monitor"} : op'[b] = op[b] /\ (Busy(b)' <=> Busy(b))
        BY <1>n, <1>t, <2>1, <3>1
      <3> QED
        BY <3>1, <3>2
    <2>4. TypeOK'
      BY <1>t, <2>1, <2>2, <2>3 DEF TypeOK
    <2>5. QuietDown'
      BY <1>0, <2>1, <2>3 DEF QuietDown
    <2> QED
      BY <2>4, <2>5 DEF CallsInv
  <1>8. ASSUME Shutdown PROVE CallsInv'
    <2>1. /\ phase' = "stopping" /\ op' = [op EXCEPT !["main"] = Call("clear", cfg)]
          /\ UNCHANGED <<backend, cfg, sysctl, snap>>
      BY <1>8 DEF Shutdown
    <2>2. dirty' \in BOOLEAN /\ mixed' \in BOOLEAN
      BY <1>8, <1>t, Zenon DEF Shutdown, Others
    <2>3. /\ op' \in CallsUnderWay /\ (\A b \in Callers : InCall(b)')
          /\ op'["main"].name = "clear" /\ op'["main"].c = cfg
      BY <1>n, <1>t, <2>1 DEF Names
    <2>4. TypeOK'
      BY <1>t, <2>1, <2>2, <2>3 DEF TypeOK, Phases
    <2>5. QuietDown'
      BY <2>1, <2>3 DEF QuietDown
    <2> QED
      BY <2>4, <2>5 DEF CallsInv
  <1>9. ASSUME Stopped \/ Crash PROVE CallsInv'
    <2>1. /\ phase' \in {"stopped", "down"} /\ op' = Unloaded
          /\ UNCHANGED <<backend, cfg, sysctl, snap, dirty, mixed>>
      BY <1>9 DEF Stopped, Crash
    <2>2. TypeOK'
      BY <1>t, <1>u, <2>1 DEF TypeOK, Phases
    <2>3. QuietDown'
      BY <1>u, <2>1 DEF QuietDown
    <2> QED
      BY <2>2, <2>3 DEF CallsInv
  <1>10. ASSUME NEW S, Wipe(S) PROVE CallsInv'
    <2>1. UNCHANGED <<backend, cfg, phase, op, sysctl, snap, mixed>>
      BY <1>10 DEF Wipe
    <2>2. dirty' \in BOOLEAN
      BY <1>10, <1>t, Zenon DEF Wipe, Idle
    <2>3. TypeOK'
      BY <1>t, <1>i, <2>1, <2>2 DEF TypeOK
    <2>4. QuietDown'
      BY <1>0, <1>i, <2>1 DEF QuietDown
    <2> QED
      BY <2>3, <2>4 DEF CallsInv
  <1>11. ASSUME RefreshTimesOut PROVE CallsInv'
    <2>1. dirty' = TRUE /\ UNCHANGED <<backend, cfg, phase, op, sysctl, snap, mixed>>
      BY <1>11 DEF RefreshTimesOut
    <2>2. TypeOK'
      BY <1>t, <1>i, <2>1 DEF TypeOK
    <2>3. QuietDown'
      BY <1>0, <1>i, <2>1 DEF QuietDown
    <2> QED
      BY <2>2, <2>3 DEF CallsInv
  <1>12. ASSUME NEW a \in Callers, ManifestFails(a) PROVE CallsInv'
    <2>1. /\ dirty' = TRUE /\ UNCHANGED <<backend, cfg, sysctl, snap, mixed>> /\ Busy(a)
          /\ \/ op' = [op EXCEPT ![a] = NoCall] /\ phase' \in {phase, "down", "leaving"}
                /\ (phase' = "down" => (a = "main" /\ phase = "starting") \/ phase' = phase)
                /\ (phase' = "leaving" => (a = "main" /\ phase = "stopping") \/ phase' = phase)
             \/ /\ op' = [op EXCEPT ![a] = [@ EXCEPT !.at = AddAt(op[a].c)]] /\ phase' = phase
                /\ a = "main" /\ phase = "starting"
      BY <1>12, ManifestFailing
    <2>2. CASE op' = [op EXCEPT ![a] = NoCall]
      <3>1. /\ op' \in CallsUnderWay /\ ~Busy(a)' /\ \A b \in Callers : InCall(b)'
            /\ \A b \in Callers : Busy(b)' => Busy(b) /\ op'[b] = op[b]
        BY <1>0, <2>2, Ends
      <3>2. \/ phase' = phase \/ (phase' = "down" /\ phase = "starting" /\ a = "main")
            \/ (phase' = "leaving" /\ phase = "stopping" /\ a = "main")
        BY <2>1
      <3>3. phase' \in Phases
        BY <1>t, <3>2 DEF Phases
      <3>4. TypeOK'
        BY <1>t, <2>1, <3>1, <3>3 DEF TypeOK
      <3>5. QuietDown'
        BY <1>0, <2>1, <3>1, <3>2 DEF QuietDown
      <3> QED
        BY <3>4, <3>5 DEF CallsInv
    <2>3. CASE /\ op' = [op EXCEPT ![a] = [@ EXCEPT !.at = AddAt(op[a].c)]] /\ phase' = phase
               /\ a = "main" /\ phase = "starting"
      <3>1. /\ op' \in CallsUnderWay /\ (\A b \in Callers : InCall(b)') /\ op'["main"].name = "renew"
            /\ \A b \in Callers \ {"main"} : op'[b] = op[b] /\ (Busy(b)' <=> Busy(b))
        BY <1>0, <2>1, <2>3, SkipsClear
      <3>2. TypeOK'
        BY <1>t, <2>1, <2>3, <3>1 DEF TypeOK
      <3>3. "monitor" # "main" /\ "refresh" # "main"
        OBVIOUS
      <3>4. QuietDown'
        BY <1>0, <2>3, <3>1, <3>3 DEF QuietDown
      <3> QED
        BY <3>2, <3>4 DEF CallsInv
    <2> QED
      BY <2>1, <2>2, <2>3
  <1> QED
    BY <1>1, <1>2, <1>3, <1>4, <1>5, <1>6, <1>7, <1>8, <1>9, <1>10, <1>11, <1>12 DEF Next

\* A command of the only caller at work keeps the snapshot and the value in step.
LEMMA SavedIssue == ASSUME CallsInv, Saved, NEW a \in Callers, Issue(a) PROVE Saved'
  <1> DEFINE s == Commands(a)
             k == op[a].at
             n == Advance(Current(a))
             cmd == Current(a)
  <1>0. TypeOK /\ QuietDown
    BY DEF CallsInv
  <1>1. /\ Busy(a) /\ ExecSysctl(cmd) /\ op' = [op EXCEPT ![a] = Moved(a, n)]
        /\ phase' = phase
    BY DEF Issue, MayRun
  <1>2. /\ s \in Seq(CmdsOf(Eng(op[a].c))) /\ Len(s) \in Nat /\ Neat(s) /\ k \in 1 .. Len(s) /\ cmd = s[k]
    BY <1>0, <1>1, AtCommand DEF Current
  <1>3. /\ n \in {1, 2, 5} /\ n = Advance(s[k])
        /\ n = 2 => cmd.do = "check" \/ (cmd.do = "restore" /\ snap = "none")
        /\ n = 5 => cmd.do = "tableexists"
    BY <1>2, Skips
  <1> HIDE DEF n
  <1>4. /\ \A b \in Callers : Busy(b)' => Busy(b)
        /\ Busy(a)' => k + n <= Len(s) /\ Current(a)' = s[k + n]
        /\ ~Busy(a)' => k + n > Len(s)
    BY <1>0, <1>1, <1>3, Moves
  <1>5. /\ cmd.do = "set" => sysctl' = "b4" /\ snap' = snap
        /\ cmd.do = "restore" => sysctl' = (IF snap = "none" THEN "default" ELSE snap) /\ snap' = snap
        /\ cmd.do = "save" => sysctl' = sysctl /\ snap' = (IF snap = "none" THEN sysctl ELSE snap)
        /\ cmd.do = "forget" => sysctl' = sysctl /\ snap' = "none"
        /\ cmd.do \notin {"set", "restore", "save", "forget"} => sysctl' = sysctl /\ snap' = snap
    BY <1>0, <1>1, ValuesTyped
  <1>6. sysctl \in Values /\ "none" \notin Values
    BY <1>0 DEF TypeOK, Values
  <1> HIDE DEF cmd, s, k
  <1>7. /\ \A b1, b2 \in Callers : Busy(b1) /\ Busy(b2) => b1 = b2
        /\ snap # "b4" /\ (snap = "none" => sysctl # "b4")
        /\ phase = "stopping" => ~Busy("monitor") /\ ~Busy("refresh")
    BY DEF Saved
  <1>8. (cmd.do = "set" => snap # "none") /\ (cmd.do = "forget" => sysctl # "b4")
    BY <1>1 DEF Saved, cmd
  <1>9. \A b1, b2 \in Callers : Busy(b1)' /\ Busy(b2)' => b1 = b2
    BY <1>4, <1>7
  <1>10. snap' # "b4"
    BY <1>5, <1>7
  <1>11. snap' = "none" => sysctl' # "b4"
    BY <1>5, <1>6, <1>7, <1>8
  <1>12. ASSUME Busy(a)'
         PROVE  /\ s[k + n].do = "set" => cmd.do = "save"
                /\ s[k + n].do = "forget" => cmd.do = "restore" /\ snap # "none"
    BY <1>2, <1>3, <1>4, <1>12, NextCommand
  <1>13. ASSUME NEW b \in Callers, Busy(b)', Current(b)'.do = "set" PROVE snap' # "none"
    <2>1. b = a
      BY <1>1, <1>4, <1>7, <1>13
    <2>2. cmd.do = "save"
      BY <1>4, <1>12, <1>13, <2>1
    <2> QED
      BY <1>5, <1>6, <2>2
  <1>14. ASSUME NEW b \in Callers, Busy(b)', Current(b)'.do = "forget" PROVE sysctl' # "b4"
    <2>1. b = a
      BY <1>1, <1>4, <1>7, <1>14
    <2>2. cmd.do = "restore" /\ snap # "none"
      BY <1>4, <1>12, <1>14, <2>1
    <2> QED
      BY <1>5, <1>7, <2>2
  <1>15. ASSUME phase = "stopping"
         PROVE  ~Busy("monitor")' /\ ~Busy("refresh")' /\ (Busy("main")' \/ sysctl' # "b4")
    <2>1. a = "main"
      BY <1>1, <1>7, <1>15 DEF Callers
    <2>2. ~Busy("monitor")' /\ ~Busy("refresh")'
      BY <1>4, <1>7, <1>15, ThreeCallers
    <2>3. /\ cmd.do \in {"sweep", "drop", "droptable", "restore", "forget"}
          /\ k < Len(s) - 1 => cmd.do \in {"sweep", "drop", "droptable"}
          /\ k = Len(s) - 1 => cmd.do = "restore"
          /\ k = Len(s) => cmd.do = "forget"
      BY <1>1, <1>15, <2>1, ClearCommand DEF cmd, k, s
    <2>4. ASSUME ~Busy("main")' PROVE sysctl' # "b4"
      <3>1. k + n > Len(s)
        BY <1>4, <2>1, <2>4
      <3>2. CASE cmd.do \in {"sweep", "drop", "droptable"}
        <4>1. n = 1
          BY <1>3, <3>2
        <4>2. k = Len(s)
          BY <1>2, <3>1, <4>1
        <4> QED
          BY <2>3, <3>2, <4>2
      <3>3. CASE cmd.do = "restore"
        BY <1>5, <1>7, <3>3
      <3>4. CASE cmd.do = "forget"
        BY <1>5, <1>8, <3>4
      <3> QED
        BY <2>3, <3>2, <3>3, <3>4
    <2> QED
      BY <2>2, <2>4
  <1>16. phase # "stopped"
    BY <1>0, <1>1 DEF QuietDown, Callers
  <1> QED
    BY <1>1, <1>9, <1>10, <1>11, <1>13, <1>14, <1>15, <1>16 DEF Saved

LEMMA SavedFails == ASSUME CallsInv, Saved, NEW a \in Callers, CommandFails(a) PROVE Saved'
  <1> DEFINE s == Commands(a)
             k == op[a].at
             cmd == Current(a)
             optional == Ignored(cmd)
  <1>0. TypeOK /\ QuietDown
    BY DEF CallsInv
  <1>1. /\ Busy(a) /\ op' = [op EXCEPT ![a] = IF optional THEN Moved(a, 1) ELSE NoCall]
        /\ phase' \in {phase, "down"} /\ (optional => phase' = phase) /\ sysctl' = sysctl /\ snap' = snap
        /\ \/ Refused(cmd)
           \/ cmd.do \in {"chain", "apply", "add", "table", "natchain", "flush", "sweep", "drop", "droptable"}
    BY DEF CommandFails, MayRun
  <1>2. /\ s \in Seq(CmdsOf(Eng(op[a].c))) /\ Len(s) \in Nat /\ Neat(s) /\ k \in 1 .. Len(s) /\ cmd = s[k]
    BY <1>0, <1>1, AtCommand DEF Current
  <1>3. /\ \A b \in Callers : Busy(b)' => Busy(b)
        /\ \A b \in Callers \ {a} : Busy(b)' => Current(b)' = Current(b)
        /\ Busy(a)' => optional /\ k + 1 <= Len(s) /\ Current(a)' = s[k + 1]
    <2>1. CASE optional
      BY <1>0, <1>1, <2>1, Moves
    <2>2. CASE ~optional
      BY <1>0, <1>1, <2>2, Ends
    <2> QED
      BY <2>1, <2>2
  <1>4. cmd.do \notin {"save", "set", "restore", "forget"}
    BY <1>1 DEF Refused
  <1>5. ASSUME phase = "stopping" PROVE phase' = phase /\ ~Busy("monitor")' /\ ~Busy("refresh")' /\ Busy("main")'
    <2>1. a = "main" /\ ~Busy("monitor") /\ ~Busy("refresh")
      BY <1>1, <1>5 DEF Saved, Callers
    <2>2. /\ cmd.do \in {"sweep", "drop", "droptable", "restore", "forget"}
          /\ k = Len(s) - 1 => cmd.do = "restore"
          /\ k = Len(s) => cmd.do = "forget"
      BY <1>1, <1>5, <2>1, ClearCommand
    <2>3. optional
      BY <1>4, <2>2 DEF Ignored
    <2>4. k + 1 <= Len(s)
      BY <1>2, <1>4, <2>2
    <2>7. op' = [op EXCEPT ![a] = Moved(a, 1)] /\ k \in Nat /\ Len(s) \in Nat
      BY <1>1, <1>2, <2>3
    <2>8. ~Busy(a)' => k + 1 > Len(s)
      BY <1>0, <1>1, <2>7, Moves
    <2>5. Busy(a)'
      BY <2>4, <2>7, <2>8
    <2>6. ~Busy("monitor")' /\ ~Busy("refresh")'
      BY <1>3, <2>1, ThreeCallers
    <2> QED
      BY <1>1, <2>1, <2>3, <2>5, <2>6
  <1>6. phase # "stopped"
    BY <1>0, <1>1 DEF QuietDown, Callers
  <1>7. ASSUME NEW b \in Callers, Busy(b)' PROVE Current(b)'.do # "set" /\ Current(b)'.do # "forget"
    <2>1. b = a
      BY <1>1, <1>3, <1>7 DEF Saved
    <2>2. optional /\ k + 1 <= Len(s) /\ Current(a)' = s[k + 1]
      BY <1>3, <1>7, <2>1
    <2>3. k + 1 \in 1 .. Len(s) /\ (k + 1) - 1 = k
      BY <1>2, <2>2
    <2>4. NeatAt(s, k + 1)
      BY <1>2, <2>3 DEF Neat
    <2>5. (s[k + 1].do = "set" => s[k].do = "save") /\ (s[k + 1].do = "forget" => s[k].do = "restore")
      BY <2>3, <2>4 DEF NeatAt
    <2> QED
      BY <1>2, <1>4, <2>1, <2>2, <2>5
  <1> HIDE DEF optional, s, k, cmd
  <1>8. \A b1, b2 \in Callers : Busy(b1)' /\ Busy(b2)' => b1 = b2
    BY <1>3 DEF Saved
  <1>9. /\ phase' # "stopped"
        /\ phase' = "stopping" => ~Busy("monitor")' /\ ~Busy("refresh")' /\ Busy("main")'
    BY <1>1, <1>5, <1>6
  <1> QED
    BY <1>1, <1>7, <1>8, <1>9 DEF Saved

\* A call begins while nobody else is in one.
LEMMA SavedBegins ==
  ASSUME TypeOK, Saved, NEW a \in Callers, NEW name \in Names, NEW c \in Configs,
         op' = [op EXCEPT ![a] = Call(name, c)], sysctl' = sysctl, snap' = snap,
         \A b \in Callers \ {a} : ~Busy(b),
         phase' # "stopped", phase' = "stopping" => a = "main"
  PROVE  Saved'
  <1> DEFINE e == Call(name, c)
  <1>1. e \in [name : Names, c : Configs, at : Nat]
    BY CallIs
  <1>2. op' = [op EXCEPT ![a] = e]
    OBVIOUS
  <1> HIDE DEF e
  <1>3. \A b \in Callers \ {a} : ~Busy(b)'
    BY <1>1, <1>2, Replaced
  <1>4. Busy(a)' /\ Current(a)'.do # "set" /\ Current(a)'.do # "forget"
    BY BegunIs
  <1>5. snap # "b4" /\ (snap = "none" => sysctl # "b4")
    BY DEF Saved
  <1>6. phase' = "stopping" => ~Busy("monitor")' /\ ~Busy("refresh")' /\ Busy("main")'
    BY <1>3, <1>4, ThreeCallers
  <1>7. \A b1, b2 \in Callers : Busy(b1)' /\ Busy(b2)' => b1 = b2
    BY <1>3
  <1>8. \A b \in Callers : Busy(b)' => b = a
    BY <1>3
  <1> QED
    BY <1>4, <1>5, <1>6, <1>7, <1>8 DEF Saved

LEMMA SavedStep == ASSUME SysctlInv, Next, ~mixed' PROVE Saved'
  <1>0. CallsInv /\ TypeOK /\ QuietDown /\ cfg \in Configs
    BY DEF SysctlInv, CallsInv, TypeOK
  <1>m. ASSUME ~mixed PROVE Saved
    BY <1>m DEF SysctlInv
  <1>i. ASSUME op' = op
        PROVE  \A a \in Callers : (Busy(a)' <=> Busy(a)) /\ Current(a)' = Current(a)
    BY <1>i DEF Busy, Current, Commands
  <1>1. ASSUME NEW a \in Callers, Issue(a) PROVE Saved'
    BY <1>0, <1>m, <1>1, SavedIssue DEF Issue
  <1>2. ASSUME NEW a \in Callers, CommandFails(a) PROVE Saved'
    BY <1>0, <1>m, <1>2, SavedFails DEF CommandFails
  <1>3. ASSUME NEW c \in Configs, Start(c) PROVE Saved'
    <2>1. /\ phase \in {"down", "stopped"} /\ phase' = "starting" /\ ~mixed
          /\ op' = [op EXCEPT !["main"] = Call("renew", c)] /\ UNCHANGED <<sysctl, snap>>
      BY <1>3 DEF Start
    <2>2. \A b \in Callers \ {"main"} : ~Busy(b)
      BY <1>0, <2>1 DEF QuietDown, Callers
    <2>3. "renew" \in Names /\ "main" \in Callers
      BY DEF Names, Callers
    <2> QED
      BY <1>0, <1>m, <2>1, <2>2, <2>3, SavedBegins
  <1>4. ASSUME UNCHANGED <<phase, op, sysctl, snap, mixed>> PROVE Saved'
    BY <1>m, <1>i, <1>4, ThreeCallers DEF Saved
  <1>5. ASSUME Started \/ PoolStartFails PROVE Saved'
    <2>1. phase' \in {"up", "down"} /\ UNCHANGED <<backend, op, sysctl, snap, mixed>>
      BY <1>5 DEF Started, PoolStartFails
    <2> QED
      BY <1>m, <1>i, <2>1 DEF Saved
  <1>6. ASSUME Refresh PROVE Saved'
    <2>1. /\ op' = [op EXCEPT !["refresh"] = Call("renew", cfg)] /\ UNCHANGED <<phase, sysctl, snap>>
          /\ phase \in {"up", "stopping"}
      BY <1>6 DEF Refresh
    <2>2. mixed' = (mixed \/ (Others("refresh") \/ phase = "stopping"))
      BY <1>6 DEF Refresh
    <2>3. ~mixed /\ ~Others("refresh") /\ phase # "stopping"
      BY <2>2
    <2>4. \A b \in Callers \ {"refresh"} : ~Busy(b)
      BY <2>3 DEF Others
    <2>5. "renew" \in Names /\ "refresh" \in Callers
      BY DEF Names, Callers
    <2>6. phase' = "up"
      BY <2>1, <2>3
    <2> QED
      BY <1>0, <1>m, <2>1, <2>3, <2>4, <2>5, <2>6, SavedBegins
  <1>7. ASSUME Tick PROVE Saved'
    <2>1. /\ op' = [op EXCEPT !["monitor"] = Call("add", cfg)] /\ UNCHANGED <<phase, sysctl, snap>>
          /\ phase = "up"
      BY <1>7 DEF Tick
    <2>2. mixed' = (mixed \/ Others("monitor"))
      BY <1>7 DEF Tick
    <2>3. ~mixed /\ ~Others("monitor")
      BY <2>2
    <2>4. \A b \in Callers \ {"monitor"} : ~Busy(b)
      BY <2>3 DEF Others
    <2>5. "add" \in Names /\ "monitor" \in Callers
      BY DEF Names, Callers
    <2> QED
      BY <1>0, <1>m, <2>1, <2>3, <2>4, <2>5, SavedBegins
  <1>8. ASSUME Shutdown PROVE Saved'
    <2>1. /\ op' = [op EXCEPT !["main"] = Call("clear", cfg)] /\ UNCHANGED <<backend, sysctl, snap>>
          /\ phase' = "stopping"
      BY <1>8 DEF Shutdown
    <2>2. mixed' = (mixed \/ Others("main"))
      BY <1>8 DEF Shutdown
    <2>3. ~mixed /\ ~Others("main")
      BY <2>2
    <2>4. \A b \in Callers \ {"main"} : ~Busy(b)
      BY <2>3 DEF Others
    <2>5. "clear" \in Names /\ "main" \in Callers
      BY DEF Names, Callers
    <2> QED
      BY <1>0, <1>m, <2>1, <2>3, <2>4, <2>5, SavedBegins
  <1>9. ASSUME Stopped \/ Crash PROVE Saved'
    <2>1. /\ op' = Unloaded /\ UNCHANGED <<backend, sysctl, snap, mixed>>
          /\ phase' = "down" \/ (phase' = "stopped" /\ phase = "stopping" /\ ~Busy("main"))
      BY <1>9 DEF Stopped, Crash
    <2>2. \A a \in Callers : ~Busy(a)'
      <3> DEFINE e == NoCall
      <3>1. e.at = 0 /\ op' = [a \in Callers |-> e]
        BY <1>0, <2>1, NoCallIs DEF Unloaded
      <3> HIDE DEF e
      <3> QED
        BY <3>1 DEF Busy
    <2>3. Saved
      BY <1>m, <2>1
    <2>4. phase' = "stopped" => sysctl' # "b4"
      BY <2>1, <2>3 DEF Saved
    <2>5. snap' # "b4" /\ (snap' = "none" => sysctl' # "b4")
      BY <2>1, <2>3 DEF Saved
    <2>6. phase' # "stopping"
      BY <2>1
    <2> QED
      BY <2>2, <2>4, <2>5, <2>6 DEF Saved
  <1>10. ASSUME NEW c \in Configs, StoreConfig(c) PROVE Saved'
    BY <1>4, <1>10 DEF StoreConfig
  <1>11. ASSUME NEW S, Wipe(S) PROVE Saved'
    BY <1>4, <1>11 DEF Wipe
  <1>12. ASSUME RefreshTimesOut PROVE Saved'
    BY <1>4, <1>12 DEF RefreshTimesOut
  <1>13. ASSUME NEW a \in Callers, ManifestFails(a) PROVE Saved'
    <2>1. /\ UNCHANGED <<sysctl, snap, mixed>> /\ Busy(a)
          /\ \/ op' = [op EXCEPT ![a] = NoCall] /\ phase' \in {phase, "down", "leaving"}
                /\ (a = "main" /\ phase = "stopping" => phase' = "leaving")
             \/ /\ op' = [op EXCEPT ![a] = [@ EXCEPT !.at = AddAt(op[a].c)]] /\ phase' = phase
                /\ a = "main" /\ phase = "starting"
      BY <1>13, ManifestFailing
    <2>2. Saved /\ \A b \in Callers : Busy(b) => b = a
      <3>1. Saved
        BY <1>m, <2>1
      <3> QED
        BY <2>1, <3>1 DEF Saved
    <2>3. snap' # "b4" /\ (snap' = "none" => sysctl' # "b4")
      BY <2>1, <2>2 DEF Saved
    <2>4. phase # "stopped" /\ (phase = "stopping" => a = "main")
      <3>1. phase # "stopped"
        BY <1>0, <2>1 DEF QuietDown, Callers
      <3>2. phase = "stopping" => a = "main"
        BY <2>1, <2>2 DEF Saved, Callers
      <3> QED
        BY <3>1, <3>2
    <2>5. CASE op' = [op EXCEPT ![a] = NoCall]
      <3>1. \A b \in Callers : ~Busy(b)'
        BY <1>0, <2>2, <2>5, Ends
      <3>2. phase' # "stopped" /\ phase' # "stopping"
        BY <2>1, <2>4, <3>1
      <3> QED
        BY <2>3, <3>1, <3>2 DEF Saved
    <2>6. CASE /\ op' = [op EXCEPT ![a] = [@ EXCEPT !.at = AddAt(op[a].c)]] /\ phase' = phase
               /\ a = "main" /\ phase = "starting"
      <3>1. /\ Current("main")'.do # "set" /\ Current("main")'.do # "forget"
            /\ \A b \in Callers \ {"main"} : Busy(b)' <=> Busy(b)
        BY <1>0, <2>1, <2>6, SkipsClear
      <3>2. \A b \in Callers : Busy(b)' => b = "main"
        BY <2>2, <2>6, <3>1
      <3>3. phase' = "starting"
        BY <2>6
      <3> QED
        BY <2>3, <3>1, <3>2, <3>3 DEF Saved
    <2> QED
      BY <2>1, <2>5, <2>6
  <1> QED
    BY <1>1, <1>2, <1>3, <1>5, <1>6, <1>7, <1>8, <1>9, <1>10, <1>11, <1>12, <1>13 DEF Next

LEMMA SysctlInit == Init => SysctlInv
  <1> SUFFICES ASSUME Init PROVE SysctlInv
    OBVIOUS
  <1>1. /\ backend \in {"ipt", "nft"} /\ cfg \in Configs /\ phase = "down" /\ op = Unloaded
        /\ sysctl = "orig" /\ snap = "none" /\ dirty = FALSE /\ mixed = FALSE
    BY SettingsAssumption DEF Init
  <1> DEFINE e == NoCall
  <1>2. e \in [name : Names, c : Configs, at : Nat] /\ e.at = 0 /\ op = [a \in Callers |-> e]
    BY <1>1, NoCallIs DEF Unloaded
  <1> HIDE DEF e
  <1>3. op \in CallsUnderWay /\ \A a \in Callers : op[a] = e /\ ~Busy(a)
    BY <1>2 DEF CallsUnderWay, Busy
  <1>4. ASSUME NEW a \in Callers PROVE InCall(a)
    <2>1. Commands(a) = Calls[e.name][e.c]
      BY <1>3 DEF Commands
    <2>2. Commands(a) \in SomeCalls(Eng(e.c))
      BY <1>1, <1>2, <2>1, CallsNeat
    <2>3. Commands(a) \in Seq(CmdsOf(Eng(e.c)))
      BY <2>2 DEF SomeCalls, NeatCalls
    <2>4. Len(Commands(a)) \in Nat
      BY <2>3
    <2>5. 0 <= Len(Commands(a))
      BY <2>4
    <2> QED
      BY <1>2, <1>3, <2>5 DEF InCall
  <1>5. TypeOK
    BY <1>1, <1>3, <1>4 DEF TypeOK, Phases, Values
  <1>6. QuietDown
    BY <1>3, ThreeCallers DEF QuietDown
  <1>7. Saved
    BY <1>1, <1>3 DEF Saved
  <1> QED
    BY <1>5, <1>6, <1>7 DEF SysctlInv, CallsInv

LEMMA SysctlStep == SysctlInv /\ [Next]_vars => SysctlInv'
  <1> SUFFICES ASSUME SysctlInv, [Next]_vars PROVE SysctlInv'
    OBVIOUS
  <1>1. CASE Next
    BY <1>1, CallsStep, SavedStep DEF SysctlInv
  <1>2. CASE UNCHANGED vars
    <2>1. UNCHANGED <<backend, cfg, phase, op, sysctl, snap, dirty, mixed>>
      BY <1>2 DEF vars
    <2>2. TypeOK'
      BY <2>1 DEF SysctlInv, CallsInv, TypeOK, InCall, Commands
    <2>3. QuietDown'
      BY <2>1 DEF SysctlInv, CallsInv, QuietDown, Busy
    <2>4. Saved => Saved'
      BY <2>1 DEF Saved, Busy, Current, Commands
    <2> QED
      BY <2>1, <2>2, <2>3, <2>4 DEF SysctlInv, CallsInv
  <1> QED
    BY <1>1, <1>2

\* If calls never overlapped, a shutdown never leaves b4's own conntrack values behind,
\* wherever earlier processes were killed or commands failed (SysctlSetting.Apply saves
\* before it sets, RevertBack restores before it forgets).
THEOREM SysctlAlwaysReverted == Spec => []SysctlReverted
  <1>1. SysctlInv => SysctlReverted
    BY DEF SysctlInv, Saved, SysctlReverted
  <1> QED
    BY <1>1, SysctlInit, SysctlStep, PTL DEF Spec

----------------------------------------------------------------------------
(* What a clear of iptables takes away *)

\* One of the first m commands sweeps rule r out of chain ch.
Sweeps(s, m, ch, r) == \E j \in 1 .. m : s[j].do = "sweep" /\ s[j].ch = ch /\ r \in s[j].r

\* When command k comes, every jump to its chain was swept.
Unnamed(s, k) ==
    \A ch \in BuiltIn : \A r \in IptRules(ch) : r \in JumpRules /\ Target(r) = s[k].ch => Sweeps(s, k - 1, ch, r)

\* The CONNMARK rules that the clear of a configuration does not look for.
UnsweptOf(c) == {"save_m1", "save_m2"} \ IF c.connmark THEN {MarkRules[c.mark].save} ELSE {}

LEMMA JumpSweeps ==
  /\ Len(clearB4JumpRules) = 10
  /\ \A i \in 1 .. 10 : clearB4JumpRules[i].do = "sweep"
  /\ clearB4JumpRules[1].ch = "POSTROUTING" /\ "j_B4" \in clearB4JumpRules[1].r
  /\ clearB4JumpRules[2].ch = "FORWARD" /\ {"j_B4", "mac_j_B4", "mac_return"} \subseteq clearB4JumpRules[2].r
  /\ clearB4JumpRules[3].ch = "PREROUTING" /\ "j_B4_PREROUTING" \in clearB4JumpRules[3].r
  /\ clearB4JumpRules[4].ch = "OUTPUT" /\ {"accept_m1", "accept_m2"} \subseteq clearB4JumpRules[4].r
  /\ clearB4JumpRules[5].ch = "OUTPUT" /\ "j_B4" \in clearB4JumpRules[5].r
  /\ clearB4JumpRules[6].ch = "OUTPUT" /\ "q_dnsresp" \in clearB4JumpRules[6].r
  /\ clearB4JumpRules[7].ch = "NAT" /\ "client_return" \in clearB4JumpRules[7].r
  /\ clearB4JumpRules[8].ch = "OUTPUT" /\ ClampRules \subseteq clearB4JumpRules[8].r
  /\ clearB4JumpRules[9].ch = "FORWARD" /\ ClampRules \subseteq clearB4JumpRules[9].r
  <1> DEFINE J == clearB4JumpRules
  <1>1. Len(J) = 10
    BY DEF clearB4JumpRules
  <1>2. /\ J[1] = Cmd("sweep", "POSTROUTING", "-", {"j_B4"})
        /\ J[2] = Cmd("sweep", "FORWARD", "-", {"j_B4", "mac_j_B4", "mac_return"})
        /\ J[3] = Cmd("sweep", "PREROUTING", "-", {"j_B4_PREROUTING"} \cup QueueRules)
        /\ J[4] = Cmd("sweep", "OUTPUT", "-", {"accept_m1", "accept_m2"})
        /\ J[5] = Cmd("sweep", "OUTPUT", "-", {"j_B4"})
        /\ J[6] = Cmd("sweep", "OUTPUT", "-", {"q_dnsresp"})
        /\ J[7] = Cmd("sweep", "NAT", "-", {"masquerade", "client_return"})
        /\ J[8] = Cmd("sweep", "OUTPUT", "-", ClampRules)
        /\ J[9] = Cmd("sweep", "FORWARD", "-", ClampRules)
        /\ J[10] = Cmd("sweep", "PREROUTING", "-", ClampRules)
    BY DEF clearB4JumpRules
  <1>3. ASSUME NEW ch, NEW R
        PROVE  LET x == Cmd("sweep", ch, "-", R) IN x.do = "sweep" /\ x.ch = ch /\ x.r = R
    BY DEF Cmd
  <1> HIDE DEF J
  <1>4. ASSUME NEW i \in 1 .. 10 PROVE J[i].do = "sweep"
    <2>1. i \in {1, 2, 3, 4, 5, 6, 7, 8, 9, 10}
      OBVIOUS
    <2> QED
      BY <1>2, <1>3, <2>1
  <1>5. J[1].ch = "POSTROUTING" /\ J[1].r = {"j_B4"} /\ J[2].ch = "FORWARD" /\ J[2].r = {"j_B4", "mac_j_B4", "mac_return"}
    BY <1>2, <1>3
  <1>6. J[3].ch = "PREROUTING" /\ J[3].r = {"j_B4_PREROUTING"} \cup QueueRules /\ J[4].ch = "OUTPUT" /\ J[4].r = {"accept_m1", "accept_m2"}
    BY <1>2, <1>3
  <1>7. J[5].ch = "OUTPUT" /\ J[5].r = {"j_B4"} /\ J[6].ch = "OUTPUT" /\ J[6].r = {"q_dnsresp"}
    BY <1>2, <1>3
  <1>8. J[7].ch = "NAT" /\ J[7].r = {"masquerade", "client_return"} /\ J[8].ch = "OUTPUT" /\ J[8].r = ClampRules
    BY <1>2, <1>3
  <1>9. J[9].ch = "FORWARD" /\ J[9].r = ClampRules
    BY <1>2, <1>3
  <1> QED
    BY <1>1, <1>4, <1>5, <1>6, <1>7, <1>8, <1>9 DEF J

\* An element of a sequence.
Within(s, x) == \E i \in 1 .. Len(s) : s[i] = x

LEMMA WithinJoin ==
  ASSUME NEW S, NEW s \in Seq(S), NEW t \in Seq(S), NEW x, Within(s, x) \/ Within(t, x)
  PROVE  Within(s \o t, x)
  <1> DEFINE u == s \o t
  <1>1. IsJoin(u, s, t) /\ Len(s) \in Nat /\ Len(t) \in Nat
    BY JoinIs
  <1> HIDE DEF u
  <1>2. CASE Within(s, x)
    <2>1. PICK i \in 1 .. Len(s) : s[i] = x
      BY <1>2 DEF Within
    <2>2. i \in 1 .. Len(u) /\ u[i] = x
      BY <1>1, <2>1 DEF IsJoin
    <2> QED
      BY <2>2 DEF Within, u
  <1>3. CASE Within(t, x)
    <2>1. PICK i \in 1 .. Len(t) : t[i] = x
      BY <1>3 DEF Within
    <2>2. Len(s) + i \in 1 .. Len(u) /\ u[Len(s) + i] = x
      BY <1>1, <2>1 DEF IsJoin
    <2> QED
      BY <2>2 DEF Within, u
  <1> QED
    BY <1>2, <1>3

\* The manifest of a configuration that marks connections holds the rule that saves its mark.
LEMMA SaveInManifest ==
  ASSUME NEW c \in Setting, c.connmark
  PROVE  Within(buildManifest(c), Rule("OUTPUT", "I", MarkRules[c.mark].save))
  <1> DEFINE x == Rule("OUTPUT", "I", MarkRules[c.mark].save)
             A0 == PreroutingRules \o DupRules(c) \o OutboundRules \o DeviceRules(c)
             A == A0 \o OutputRules(c)
             K == ConnmarkRules(c)
             B == A \o K
             C == B \o buildMasqueradeManifest(c)
  <1>1. K = << x, Rule("B4_PREROUTING", "I", MarkRules[c.mark].reply) >>
    BY DEF ConnmarkRules
  <1>2. K[1] = x /\ Len(K) = 2
    BY <1>1
  <1>3. Within(K, x)
    BY <1>2 DEF Within
  <1>4. /\ PreroutingRules \in Seq(IptApplies) /\ DupRules(c) \in Seq(IptApplies) /\ OutboundRules \in Seq(IptApplies)
        /\ DeviceRules(c) \in Seq(IptApplies) /\ OutputRules(c) \in Seq(IptApplies) /\ K \in Seq(IptApplies)
        /\ buildMasqueradeManifest(c) \in Seq(IptApplies) /\ buildMSSManifest(c, "B4_PREROUTING") \in Seq(IptApplies)
    BY ManifestParts
  <1>5. A0 \in Seq(IptApplies)
    BY <1>4, Join4
  <1> HIDE DEF x, A0, K
  <1>6. A \in Seq(IptApplies)
    BY <1>4, <1>5, Joined
  <1> HIDE DEF A
  <1>7. B \in Seq(IptApplies) /\ Within(B, x)
    BY <1>3, <1>4, <1>6, Joined, WithinJoin
  <1> HIDE DEF B
  <1>8. C \in Seq(IptApplies) /\ Within(C, x)
    BY <1>4, <1>7, Joined, WithinJoin
  <1> HIDE DEF C
  <1>9. Within(C \o buildMSSManifest(c, "B4_PREROUTING"), x)
    BY <1>4, <1>8, WithinJoin
  <1> QED
    BY <1>9 DEF buildManifest, A0, A, B, C, K, x

\* Where the parts of a clear stand.
LEMMA ClearLayout ==
  ASSUME NEW c \in Setting
  PROVE  LET s == iptClear(c)
             R == RemoveRules(buildManifest(c))
             D == RemoveChains(ManifestChains(c))
         IN /\ Len(R) \in Nat /\ Len(D) \in Nat /\ Len(s) - 2 = 10 + Len(R) + Len(D) + 2
            /\ \A i \in 1 .. 10 : s[i] = clearB4JumpRules[i]
            /\ \A i \in 1 .. Len(R) : s[10 + i] = R[i]
            /\ \A i \in 1 .. Len(D) : s[10 + Len(R) + i] = D[i]
            /\ \A i \in 1 .. 2 : s[10 + Len(R) + Len(D) + i] = teardownMasqueradeChain[i]
  <1> DEFINE S == CmdsOf("ipt")
             J == clearB4JumpRules
             R == RemoveRules(buildManifest(c))
             D == RemoveChains(ManifestChains(c))
             T == teardownMasqueradeChain
             V == SysctlRevert
             u1 == J \o R
             u2 == u1 \o D
             u3 == u2 \o T
             s == u3 \o V
  <1>0. \A x : x \in Seq(Removals("ipt")) => x \in Seq(S)
    BY DEF Removals, Plain
  <1>1. J \in Seq(S) /\ R \in Seq(S) /\ D \in Seq(S) /\ T \in Seq(S)
    BY <1>0, JumpsFit, ManifestFits, RemoveRulesIs, ChainLists, RemoveChainsIs, TeardownFits
  <1>2. V \in Seq(S) /\ Len(V) = 2
    BY SysctlNeat DEF SomeCalls, NeatCalls, SysctlRevert
  <1>3. Len(J) = 10 /\ Len(T) = 2
    BY JumpSweeps DEF teardownMasqueradeChain
  <1>4. iptClear(c) = s
    BY DEF iptClear
  <1> HIDE DEF S, J, R, D, T, V
  <1>5. u1 \in Seq(S) /\ IsJoin(u1, J, R)
    BY <1>1, JoinIs
  <1> HIDE DEF u1
  <1>6. u2 \in Seq(S) /\ IsJoin(u2, u1, D)
    BY <1>1, <1>5, JoinIs
  <1> HIDE DEF u2
  <1>7. u3 \in Seq(S) /\ IsJoin(u3, u2, T)
    BY <1>1, <1>6, JoinIs
  <1> HIDE DEF u3
  <1>8. s \in Seq(S) /\ IsJoin(s, u3, V)
    BY <1>2, <1>7, JoinIs
  <1> HIDE DEF s
  <1>9. Len(R) \in Nat /\ Len(D) \in Nat
    BY <1>1
  <1>10. /\ Len(u1) = 10 + Len(R) /\ Len(u2) = 10 + Len(R) + Len(D) /\ Len(u3) = 10 + Len(R) + Len(D) + 2
         /\ Len(s) = 10 + Len(R) + Len(D) + 2 + 2
    BY <1>2, <1>3, <1>5, <1>6, <1>7, <1>8 DEF IsJoin
  <1>11. \A i \in 1 .. Len(u3) : s[i] = u3[i]
    BY <1>8 DEF IsJoin
  <1>12. \A i \in 1 .. Len(u2) : s[i] = u2[i]
    BY <1>7, <1>9, <1>10, <1>11 DEF IsJoin
  <1>13. \A i \in 1 .. Len(u1) : s[i] = u1[i]
    BY <1>6, <1>9, <1>10, <1>12 DEF IsJoin
  <1>14. ASSUME NEW i \in 1 .. 10 PROVE s[i] = J[i]
    <2>1. i \in 1 .. Len(u1) /\ i \in 1 .. Len(J)
      BY <1>3, <1>9, <1>10
    <2> QED
      BY <1>5, <1>13, <2>1 DEF IsJoin
  <1>15. ASSUME NEW i \in 1 .. Len(R) PROVE s[10 + i] = R[i]
    <2>1. 10 + i \in 1 .. Len(u1) /\ u1[10 + i] = R[i]
      BY <1>3, <1>5, <1>9, <1>10 DEF IsJoin
    <2> QED
      BY <1>13, <2>1
  <1>16. ASSUME NEW i \in 1 .. Len(D) PROVE s[10 + Len(R) + i] = D[i]
    <2>1. 10 + Len(R) + i \in 1 .. Len(u2) /\ u2[10 + Len(R) + i] = D[i]
      BY <1>6, <1>9, <1>10 DEF IsJoin
    <2> QED
      BY <1>12, <2>1
  <1>17. ASSUME NEW i \in 1 .. 2 PROVE s[10 + Len(R) + Len(D) + i] = T[i]
    <2>1. 10 + Len(R) + Len(D) + i \in 1 .. Len(u3) /\ u3[10 + Len(R) + Len(D) + i] = T[i]
      BY <1>3, <1>7, <1>9, <1>10 DEF IsJoin
    <2> QED
      BY <1>11, <2>1
  <1>18. Len(s) - 2 = 10 + Len(R) + Len(D) + 2
    BY <1>9, <1>10
  <1> QED
    BY <1>4, <1>9, <1>14, <1>15, <1>16, <1>17, <1>18 DEF J, R, D, T

\* Every rule that may stand in a built-in chain, but for the CONNMARK rule of another
\* mark, is swept and every chain of b4 is
\* dropped when no jump names it any more.
LEMMA ClearTakesAll ==
  ASSUME NEW c \in Setting
  PROVE  LET s == iptClear(c)
         IN /\ \A ch \in BuiltIn : \A r \in IptRules(ch) :
                   (ch = "OUTPUT" /\ r \in UnsweptOf(c)) \/ Sweeps(s, Len(s) - 2, ch, r)
            /\ \A ch \in UserChains : \E k \in 1 .. Len(s) - 2 : s[k].do = "drop" /\ s[k].ch = ch /\ Unnamed(s, k)
  <1> DEFINE s == iptClear(c)
             J == clearB4JumpRules
             R == RemoveRules(buildManifest(c))
             D == RemoveChains(ManifestChains(c))
             T == teardownMasqueradeChain
             M == Len(s) - 2
             q == 10 + Len(R) + Len(D)
             save == MarkRules[c.mark].save
  <1>1. /\ Len(R) \in Nat /\ Len(D) \in Nat /\ M = q + 2
        /\ \A i \in 1 .. 10 : s[i] = J[i]
        /\ \A i \in 1 .. Len(R) : s[10 + i] = R[i]
        /\ \A i \in 1 .. Len(D) : s[10 + Len(R) + i] = D[i]
        /\ \A i \in 1 .. 2 : s[q + i] = T[i]
    BY ClearLayout
  <1>2. /\ \A i \in 1 .. 10 : J[i].do = "sweep"
        /\ J[1].ch = "POSTROUTING" /\ "j_B4" \in J[1].r
        /\ J[2].ch = "FORWARD" /\ {"j_B4", "mac_j_B4", "mac_return"} \subseteq J[2].r
        /\ J[3].ch = "PREROUTING" /\ "j_B4_PREROUTING" \in J[3].r
        /\ J[4].ch = "OUTPUT" /\ {"accept_m1", "accept_m2"} \subseteq J[4].r
        /\ J[5].ch = "OUTPUT" /\ "j_B4" \in J[5].r
        /\ J[6].ch = "OUTPUT" /\ "q_dnsresp" \in J[6].r
        /\ J[7].ch = "NAT" /\ "client_return" \in J[7].r
        /\ J[8].ch = "OUTPUT" /\ ClampRules \subseteq J[8].r
        /\ J[9].ch = "FORWARD" /\ ClampRules \subseteq J[9].r
    BY JumpSweeps
  <1>3. /\ T[1].do = "sweep" /\ T[1].ch = "NAT" /\ "j_B4_MASQ" \in T[1].r
        /\ T[2].do = "drop" /\ T[2].ch = "B4_MASQ"
    BY DEF teardownMasqueradeChain, Cmd
  <1>4. ASSUME c.connmark
        PROVE  \E j \in 1 .. Len(R) : R[j].do = "sweep" /\ R[j].ch = "OUTPUT" /\ save \in R[j].r
    <2> DEFINE m == buildManifest(c)
    <2>1. m \in Seq(IptApplies)
      BY ManifestFits
    <2>2. PICK i \in 1 .. Len(m) : m[i] = Rule("OUTPUT", "I", save)
      BY <1>4, SaveInManifest DEF Within
    <2>3. m[i].ch = "OUTPUT" /\ m[i].r = save
      BY <2>2 DEF Rule, Cmd
    <2> HIDE DEF m
    <2>4. \E j \in 1 .. Len(RemoveRules(m)) : RemoveRules(m)[j] = Cmd("sweep", m[i].ch, "-", {m[i].r})
      BY <2>1, <2>2, RemoveRulesIs
    <2>5. PICK j \in 1 .. Len(R) : R[j] = Cmd("sweep", m[i].ch, "-", {m[i].r})
      BY <2>4 DEF m
    <2>6. R[j].do = "sweep" /\ R[j].ch = m[i].ch /\ R[j].r = {m[i].r}
      BY <2>5 DEF Cmd
    <2> QED
      BY <2>3, <2>6
  <1>5. /\ \E j \in 1 .. Len(D) : D[j].do = "drop" /\ D[j].ch = "B4"
        /\ \E j \in 1 .. Len(D) : D[j].do = "drop" /\ D[j].ch = "B4_PREROUTING"
    <2> DEFINE m == ManifestChains(c)
    <2>1. m \in Seq(UserChains)
      BY ChainLists
    <2>2. m[1] = "B4" /\ m[2] = "B4_PREROUTING" /\ 1 \in 1 .. Len(m) /\ 2 \in 1 .. Len(m)
      <3> DEFINE x == << "B4", "B4_PREROUTING" >>
                 y == IF c.masq THEN << "B4_MASQ" >> ELSE << >>
      <3>1. x \in Seq(UserChains) /\ y \in Seq(UserChains)
        <4>1. "B4" \in UserChains /\ "B4_PREROUTING" \in UserChains /\ "B4_MASQ" \in UserChains
          BY DEF UserChains
        <4> QED
          BY <4>1, One, Two, Empty
      <3>2. Len(x) = 2 /\ x[1] = "B4" /\ x[2] = "B4_PREROUTING" /\ m = x \o y
        BY DEF ManifestChains
      <3> HIDE DEF x, y, m
      <3>3. IsJoin(m, x, y) /\ Len(y) \in Nat
        BY <3>1, <3>2, JoinIs
      <3>4. m[1] = x[1] /\ m[2] = x[2] /\ Len(m) = 2 + Len(y)
        BY <3>2, <3>3 DEF IsJoin
      <3> QED
        BY <3>2, <3>3, <3>4
    <2> HIDE DEF m
    <2>3. \A i \in 1 .. Len(m) : \E j \in 1 .. Len(RemoveChains(m)) : RemoveChains(m)[j] = Cmd("drop", m[i], "-", "-")
      BY <2>1, RemoveChainsIs
    <2>4. PICK j1 \in 1 .. Len(D) : D[j1] = Cmd("drop", "B4", "-", "-")
      BY <2>2, <2>3 DEF m
    <2>5. PICK j2 \in 1 .. Len(D) : D[j2] = Cmd("drop", "B4_PREROUTING", "-", "-")
      BY <2>2, <2>3 DEF m
    <2> QED
      BY <2>4, <2>5 DEF Cmd
  <1> HIDE DEF s, J, R, D, T, save
  <1>6. q \in Nat /\ q >= 10 /\ q >= 10 + Len(R) /\ M = q + 2 /\ M >= 12
    BY <1>1
  <1> HIDE DEF M, q
  <1>7. ASSUME NEW i \in 1 .. 10, NEW m \in Nat, m >= 10, NEW ch, NEW r, J[i].ch = ch, r \in J[i].r
        PROVE  Sweeps(s, m, ch, r)
    <2>1. i \in 1 .. m
      BY <1>7
    <2>2. s[i].do = "sweep" /\ s[i].ch = ch /\ r \in s[i].r
      BY <1>1, <1>2, <1>7
    <2> QED
      BY <2>1, <2>2 DEF Sweeps
  <1>8. ASSUME NEW m \in Nat, m >= 10
        PROVE  /\ Sweeps(s, m, "POSTROUTING", "j_B4") /\ Sweeps(s, m, "OUTPUT", "j_B4")
               /\ \A r \in {"j_B4", "mac_j_B4", "mac_return"} : Sweeps(s, m, "FORWARD", r)
               /\ Sweeps(s, m, "PREROUTING", "j_B4_PREROUTING")
               /\ Sweeps(s, m, "OUTPUT", "accept_m1") /\ Sweeps(s, m, "OUTPUT", "accept_m2")
               /\ Sweeps(s, m, "OUTPUT", "q_dnsresp")
               /\ Sweeps(s, m, "NAT", "client_return")
               /\ \A r \in ClampRules : Sweeps(s, m, "OUTPUT", r) /\ Sweeps(s, m, "FORWARD", r)
    <2>1. Sweeps(s, m, "POSTROUTING", "j_B4") /\ Sweeps(s, m, "OUTPUT", "j_B4")
      BY <1>2, <1>7, <1>8
    <2>2. \A r \in {"j_B4", "mac_j_B4", "mac_return"} : Sweeps(s, m, "FORWARD", r)
      BY <1>2, <1>7, <1>8
    <2>3. Sweeps(s, m, "PREROUTING", "j_B4_PREROUTING") /\ Sweeps(s, m, "OUTPUT", "accept_m1")
          /\ Sweeps(s, m, "OUTPUT", "accept_m2")
      BY <1>2, <1>7, <1>8
    <2>4. Sweeps(s, m, "OUTPUT", "q_dnsresp") /\ Sweeps(s, m, "NAT", "client_return")
      BY <1>2, <1>7, <1>8
    <2>5. \A r \in ClampRules : Sweeps(s, m, "OUTPUT", r) /\ Sweeps(s, m, "FORWARD", r)
      BY <1>2, <1>7, <1>8
    <2> QED
      BY <2>1, <2>2, <2>3, <2>4, <2>5
  <1>9. ASSUME c.connmark PROVE Sweeps(s, M, "OUTPUT", save)
    <2>1. PICK j \in 1 .. Len(R) : R[j].do = "sweep" /\ R[j].ch = "OUTPUT" /\ save \in R[j].r
      BY <1>4, <1>9
    <2>2. s[10 + j] = R[j]
      BY <1>1
    <2>3. 10 + j \in 1 .. M
      BY <1>1, <1>6
    <2> QED
      BY <2>1, <2>2, <2>3 DEF Sweeps
  <1>10. s[q + 1] = T[1] /\ s[q + 2] = T[2]
    BY <1>1
  <1>11. ASSUME NEW m \in Nat, m >= q + 1 PROVE Sweeps(s, m, "NAT", "j_B4_MASQ")
    <2>1. q + 1 \in 1 .. m
      BY <1>6, <1>11
    <2> QED
      BY <1>3, <1>10, <2>1 DEF Sweeps
  <1>12. M \in Nat /\ M >= 10 /\ M >= q + 1
    BY <1>6
  <1>13. ASSUME NEW ch \in BuiltIn, NEW r \in IptRules(ch)
         PROVE  (ch = "OUTPUT" /\ r \in UnsweptOf(c)) \/ Sweeps(s, M, ch, r)
    <2>1. CASE ch = "POSTROUTING"
      BY <1>8, <1>12, <1>13, <2>1 DEF IptRules
    <2>2. CASE ch = "FORWARD"
      BY <1>8, <1>12, <1>13, <2>2 DEF IptRules
    <2>3. CASE ch = "PREROUTING"
      BY <1>8, <1>12, <1>13, <2>3 DEF IptRules
    <2>4. CASE ch = "OUTPUT"
      <3>1. CASE r \in {"save_m1", "save_m2"}
        <4>1. r \in UnsweptOf(c) \/ (c.connmark /\ r = save)
          BY <3>1 DEF UnsweptOf, save
        <4> QED
          BY <1>9, <2>4, <4>1
      <3>2. CASE r \notin {"save_m1", "save_m2"}
        <4>1. r \in {"q_dnsresp", "accept_m1", "accept_m2", "j_B4"} \cup ClampRules
          BY <1>13, <2>4, <3>2 DEF IptRules
        <4> QED
          BY <1>8, <1>12, <2>4, <4>1
      <3> QED
        BY <3>1, <3>2
    <2>5. CASE ch = "NAT"
      BY <1>8, <1>11, <1>12, <1>13, <2>5 DEF IptRules
    <2> QED
      BY <2>1, <2>2, <2>3, <2>4, <2>5 DEF BuiltIn
  <1>14. ASSUME NEW ch \in BuiltIn, NEW r \in IptRules(ch), r \in JumpRules
         PROVE  /\ Target(r) = "B4" => /\ r \in {"j_B4", "mac_j_B4"} /\ ch \in {"POSTROUTING", "FORWARD", "OUTPUT"}
                                       /\ r = "mac_j_B4" => ch = "FORWARD"
                /\ Target(r) = "B4_PREROUTING" => r = "j_B4_PREROUTING" /\ ch = "PREROUTING"
                /\ Target(r) = "B4_MASQ" => r = "j_B4_MASQ" /\ ch = "NAT"
    <2>1. r \in {"j_B4", "mac_j_B4", "j_B4_PREROUTING", "j_B4_MASQ"}
      BY <1>14 DEF JumpRules
    <2>2. Target("j_B4") = "B4" /\ Target("mac_j_B4") = "B4" /\ Target("j_B4_PREROUTING") = "B4_PREROUTING"
          /\ Target("j_B4_MASQ") = "B4_MASQ"
      BY DEF Target
    <2>3. r = "j_B4" => ch \in {"POSTROUTING", "FORWARD", "OUTPUT"}
      BY <1>14 DEF IptRules, BuiltIn, ClampRules
    <2>4. r = "mac_j_B4" => ch = "FORWARD"
      BY <1>14 DEF IptRules, BuiltIn, ClampRules
    <2>5. (r = "j_B4_PREROUTING" => ch = "PREROUTING") /\ (r = "j_B4_MASQ" => ch = "NAT")
      BY <1>14 DEF IptRules, BuiltIn, ClampRules
    <2>6. CASE r = "j_B4"
      BY <2>2, <2>3, <2>6
    <2>7. CASE r = "mac_j_B4"
      BY <2>2, <2>4, <2>7
    <2>8. CASE r = "j_B4_PREROUTING"
      BY <2>2, <2>5, <2>8
    <2>9. CASE r = "j_B4_MASQ"
      BY <2>2, <2>5, <2>9
    <2> QED
      BY <2>1, <2>6, <2>7, <2>8, <2>9
  <1>15. ASSUME NEW k \in 11 .. M, s[k].ch \in {"B4", "B4_PREROUTING"} PROVE Unnamed(s, k)
    <2>1. k - 1 \in Nat /\ k - 1 >= 10
      BY <1>15, <1>12
    <2>2. ASSUME NEW ch \in BuiltIn, NEW r \in IptRules(ch), r \in JumpRules, Target(r) = s[k].ch
          PROVE  Sweeps(s, k - 1, ch, r)
      BY <1>8, <1>14, <1>15, <2>1, <2>2
    <2> QED
      BY <2>2 DEF Unnamed
  <1>16. Unnamed(s, q + 2)
    <2>1. s[q + 2].ch = "B4_MASQ" /\ (q + 2) - 1 = q + 1 /\ q + 1 \in Nat
      BY <1>3, <1>6, <1>10
    <2>2. Sweeps(s, q + 1, "NAT", "j_B4_MASQ")
      BY <1>11, <2>1
    <2> QED
      BY <1>14, <2>1, <2>2 DEF Unnamed
  <1>17. ASSUME NEW j \in 1 .. Len(D), D[j].do = "drop", D[j].ch \in {"B4", "B4_PREROUTING"}
         PROVE  \E k \in 1 .. M : s[k].do = "drop" /\ s[k].ch = D[j].ch /\ Unnamed(s, k)
    <2> DEFINE k == 10 + Len(R) + j
    <2>1. s[k] = D[j]
      BY <1>1
    <2>2. k \in 11 .. M /\ k \in 1 .. M
      BY <1>1, <1>6 DEF q
    <2> HIDE DEF k
    <2>3. Unnamed(s, k)
      BY <1>15, <1>17, <2>1, <2>2
    <2> QED
      BY <1>17, <2>1, <2>2, <2>3
  <1>18. ASSUME NEW ch \in UserChains
         PROVE  \E k \in 1 .. M : s[k].do = "drop" /\ s[k].ch = ch /\ Unnamed(s, k)
    <2>1. CASE ch = "B4_MASQ"
      <3>1. q + 2 \in 1 .. M
        BY <1>6
      <3> QED
        BY <1>3, <1>10, <1>16, <2>1, <3>1
    <2>2. CASE ch # "B4_MASQ"
      BY <1>5, <1>17, <1>18, <2>2 DEF UserChains
    <2> QED
      BY <2>1, <2>2
  <1> QED
    BY <1>13, <1>18 DEF s, M

----------------------------------------------------------------------------
(* Sweeping a chain *)

LEMMA LeastNat == ASSUME NEW T, T \subseteq Nat, T # {} PROVE \E n \in T : \A m \in T : n <= m
  <1> DEFINE R == {p \in Nat \X Nat : p[1] < p[2]}
  <1>1. PICK n \in T : \A m \in T : ~(<<m, n>> \in R)
    <2>1. IsWellFoundedOn(R, Nat)
      BY NatLessThanWellFounded DEF OpToRel
    <2> HIDE DEF R
    <2> QED
      BY <2>1, WFMin
  <1>2. ASSUME NEW m \in T PROVE n <= m
    <2>1. <<m, n>> \in Nat \X Nat /\ <<m, n>>[1] = m /\ <<m, n>>[2] = n
      OBVIOUS
    <2>2. ~(m < n)
      BY <1>1, <2>1
    <2> QED
      BY <2>2
  <1> QED
    BY <1>2

\* f is a run of N steps from r through R, each of which g gives.
RunOf(R, N, r, g, f) ==
    f \in [0 .. N -> R] /\ f[0] = r /\ \A n \in 1 .. N : f[n] = g[n][f[n - 1]]

StepsStay(R, N, g) == \A n \in 1 .. N : \A x \in R : g[n][x] \in R

LEMMA RunExists ==
  ASSUME NEW R, NEW N \in Nat, NEW r \in R, NEW g, StepsStay(R, N, g)
  PROVE  \E f : RunOf(R, N, r, g, f)
  <1> DEFINE T == {k \in 0 .. N : ~ \E f : RunOf(R, k, r, g, f)}
  <1>1. SUFFICES ASSUME T # {} PROVE FALSE
    OBVIOUS
  <1>2. PICK k \in T : \A m \in T : k <= m
    <2>1. T \subseteq Nat
      OBVIOUS
    <2> HIDE DEF T
    <2> QED
      BY <1>1, <2>1, LeastNat
  <1>3. k # 0
    <2>1. RunOf(R, 0, r, g, [n \in 0 .. 0 |-> r])
      BY DEF RunOf
    <2> QED
      BY <2>1
  <1>4. k - 1 \in 0 .. N /\ ~(k <= k - 1) /\ k \in 1 .. N
    BY <1>3
  <1>5. PICK f : RunOf(R, k - 1, r, g, f)
    BY <1>2, <1>4
  <1>6. f \in [0 .. k - 1 -> R] /\ f[0] = r /\ \A n \in 1 .. k - 1 : f[n] = g[n][f[n - 1]]
    BY <1>5 DEF RunOf
  <1> DEFINE e == [n \in 0 .. k |-> IF n = k THEN g[k][f[k - 1]] ELSE f[n]]
  <1>7. f[k - 1] \in R /\ g[k][f[k - 1]] \in R
    BY <1>4, <1>6 DEF StepsStay
  <1>8. e \in [0 .. k -> R] /\ e[0] = r
    BY <1>3, <1>4, <1>6, <1>7
  <1>9. ASSUME NEW n \in 1 .. k PROVE e[n] = g[n][e[n - 1]]
    <2>1. CASE n = k
      <3>1. e[k] = g[k][f[k - 1]] /\ e[k - 1] = f[k - 1]
        BY <1>4
      <3> QED
        BY <2>1, <3>1
    <2>2. CASE n # k
      BY <2>2, <1>4, <1>6
    <2> QED
      BY <2>1, <2>2
  <1> HIDE DEF e
  <1>10. RunOf(R, k, r, g, e)
    BY <1>8, <1>9 DEF RunOf
  <1> QED
    BY <1>2, <1>10

\* What is left of a chain is what stood in it and was not swept.
Left(rules, R, S) == {x \in S : x \notin R /\ \E i \in 1 .. Len(rules) : rules[i] = x}

LEMMA SweepLeaves ==
  ASSUME NEW S, NEW rules \in Seq(S), NEW R
  PROVE  Without(rules, R) \in Seq(Left(rules, R, S))
  <1> DEFINE N == Len(rules)
             Q == Left(rules, R, S)
             next(x, n) == IF rules[n] \in R THEN x ELSE Append(x, rules[n])
             g == [n \in 1 .. N |-> [x \in Seq(Q) |-> next(x, n)]]
             h == CHOOSE f : f = [n \in 0 .. N |-> IF n = 0 THEN << >>
                                                  ELSE IF rules[n] \in R THEN f[n - 1] ELSE Append(f[n - 1], rules[n])]
  <1>1. N \in Nat /\ \A n \in 1 .. N : rules[n] \in S
    OBVIOUS
  <1>2. \A n \in 1 .. N : rules[n] \notin R => rules[n] \in Q
    BY <1>1 DEF Left
  <1>3. Without(rules, R) = h[N]
    BY DEF Without
  <1> HIDE DEF N, Q
  <1>4. ASSUME NEW n \in 1 .. N, NEW x \in Seq(Q) PROVE next(x, n) \in Seq(Q) /\ g[n][x] = next(x, n)
    <2>1. rules[n] \in R \/ rules[n] \in Q
      BY <1>2
    <2> QED
      BY <2>1
  <1>5. << >> \in Seq(Q)
    OBVIOUS
  <1> HIDE DEF g
  <1>6. PICK f : RunOf(Seq(Q), N, << >>, g, f)
    <2>1. StepsStay(Seq(Q), N, g)
      BY <1>4 DEF StepsStay
    <2> DEFINE W == Seq(Q)
    <2>2. << >> \in W /\ StepsStay(W, N, g)
      BY <1>5, <2>1
    <2> HIDE DEF W
    <2>3. \E f : RunOf(W, N, << >>, g, f)
      BY <1>1, <2>2, RunExists
    <2> QED
      BY <2>3 DEF W
  <1>7. f \in [0 .. N -> Seq(Q)] /\ f[0] = << >> /\ \A n \in 1 .. N : f[n] = g[n][f[n - 1]]
    BY <1>6 DEF RunOf
  <1>8. ASSUME NEW n \in 1 .. N PROVE f[n - 1] \in Seq(Q) /\ f[n] = next(f[n - 1], n)
    <2>1. n - 1 \in 0 .. N
      BY <1>1
    <2>2. f[n - 1] \in Seq(Q)
      BY <1>7, <2>1
    <2> QED
      BY <1>4, <1>7, <2>2
  <1>9. f = [n \in 0 .. N |-> IF n = 0 THEN << >>
                              ELSE IF rules[n] \in R THEN f[n - 1] ELSE Append(f[n - 1], rules[n])]
    <2>1. ASSUME NEW n \in 0 .. N
          PROVE  f[n] = IF n = 0 THEN << >>
                        ELSE IF rules[n] \in R THEN f[n - 1] ELSE Append(f[n - 1], rules[n])
      <3>1. CASE n = 0
        BY <1>7, <3>1
      <3>2. CASE n # 0
        <4>1. n \in 1 .. N
          BY <1>1, <3>2
        <4> QED
          BY <1>8, <3>2, <4>1
      <3> QED
        BY <3>1, <3>2
    <2>2. f = [n \in 0 .. N |-> f[n]]
      BY <1>7
    <2> QED
      BY <2>1, <2>2
  <1>10. h = [n \in 0 .. N |-> IF n = 0 THEN << >>
                               ELSE IF rules[n] \in R THEN h[n - 1] ELSE Append(h[n - 1], rules[n])]
    BY <1>9
  <1> HIDE DEF h
  <1>11. h[0] = << >> /\ \A n \in 1 .. N : h[n] = next(h[n - 1], n)
    <2>1. 0 \in 0 .. N
      BY <1>1
    <2>2. h[0] = << >>
      BY <1>10, <2>1
    <2>3. ASSUME NEW n \in 1 .. N PROVE h[n] = next(h[n - 1], n)
      <3>1. n \in 0 .. N /\ n # 0
        BY <1>1
      <3> QED
        BY <1>10, <3>1
    <2> QED
      BY <2>2, <2>3
  <1> HIDE DEF next
  <1>12. \A n \in 0 .. N : h[n] \in Seq(Q)
    <2> DEFINE W == Seq(Q)
               T == {n \in 0 .. N : h[n] \notin W}
    <2>0. h[0] \in W /\ \A n \in 1 .. N : h[n - 1] \in W => h[n] \in W
      BY <1>4, <1>5, <1>11
    <2> HIDE DEF W
    <2>1. SUFFICES ASSUME T # {} PROVE FALSE
      BY DEF W
    <2>2. PICK n \in T : \A m \in T : n <= m
      <3>1. T \subseteq Nat
        OBVIOUS
      <3> HIDE DEF T
      <3> QED
        BY <2>1, <3>1, LeastNat
    <2>3. n \in 1 .. N /\ h[n] \notin W
      BY <1>1, <2>0
    <2>4. n - 1 \in 0 .. N /\ ~(n <= n - 1)
      BY <1>1, <2>3
    <2>5. h[n - 1] \in W
      BY <2>2, <2>4
    <2> QED
      BY <2>0, <2>3, <2>5
  <1>13. h[N] \in Seq(Q)
    BY <1>1, <1>12
  <1> QED
    BY <1>3, <1>13 DEF Q

LEMMA NoElements == ASSUME NEW S, NEW s \in Seq(S), \A i \in 1 .. Len(s) : FALSE PROVE s = << >>
  OBVIOUS

----------------------------------------------------------------------------
(* The rules and the chains *)

\* What may stand where: b4 writes only rules of its own, into the chains they belong to,
\* and never removes a chain that is built in.
KernelInv ==
    /\ DOMAIN kernel = Chains
    /\ \A ch \in IptChains : kernel[ch] \in Seq(IptRules(ch))
    /\ BuiltIn \subseteq chains /\ chains \subseteq IptChains \cup NftTable \cup {"b4_nat"}

\* The chains of the two engines are different ones.
LEMMA Apart ==
  /\ BuiltIn \subseteq IptChains /\ UserChains \subseteq IptChains /\ IptChains \subseteq Chains
  /\ NftChains \subseteq Chains /\ "b4_nat" \in Chains /\ "b4_nat" \notin IptChains /\ "b4_nat" \notin NftTable
  /\ BuiltIn \cap UserChains = {} /\ IptChains \cap NftTable = {}
  BY DEF IptChains, BuiltIn, UserChains, NftTable, NftChains, Chains, ChainsOf

\* What a command does to every chain.
LEMMA RulesAfter ==
  ASSUME DOMAIN kernel = Chains, NEW cmd, kernel' = ExecRules(cmd)
  PROVE  /\ DOMAIN kernel' = Chains
         /\ \A ch \in Chains : ch # cmd.ch /\ cmd.do # "droptable" => kernel'[ch] = kernel[ch]
         /\ cmd.do = "sweep" /\ cmd.ch \in Chains => kernel'[cmd.ch] = Without(kernel[cmd.ch], cmd.r)
         /\ cmd.do \in {"drop", "flush"} /\ cmd.ch \in Chains => kernel'[cmd.ch] = << >>
         /\ cmd.do = "droptable" => \A ch \in Chains : kernel'[ch] = IF ch \in NftChains THEN << >> ELSE kernel[ch]
         /\ cmd.do \in {"apply", "add"} /\ cmd.ch \in Chains
                => kernel'[cmd.ch] \in {kernel[cmd.ch], <<cmd.r>> \o kernel[cmd.ch], Append(kernel[cmd.ch], cmd.r)}
         /\ cmd.do \notin {"apply", "add", "sweep", "drop", "flush", "droptable"} => kernel' = kernel
  <1> DEFINE k1 == <<cmd.r>> \o kernel[cmd.ch]
             k2 == Append(kernel[cmd.ch], cmd.r)
             k3 == Without(kernel[cmd.ch], cmd.r)
  <1>0. kernel' = CASE cmd.do = "apply" /\ cmd.at = "I" -> [kernel EXCEPT ![cmd.ch] = k1]
                    [] cmd.do \in {"apply", "add"} /\ cmd.at = "A" -> [kernel EXCEPT ![cmd.ch] = k2]
                    [] cmd.do = "sweep" -> [kernel EXCEPT ![cmd.ch] = k3]
                    [] cmd.do \in {"drop", "flush"} -> [kernel EXCEPT ![cmd.ch] = << >>]
                    [] cmd.do = "droptable" -> [ch \in Chains |-> IF ch \in NftChains THEN << >> ELSE kernel[ch]]
                    [] OTHER -> kernel
    BY DEF ExecRules
  <1> HIDE DEF k1, k2, k3
  <1>1. CASE cmd.do \in {"apply", "add"}
    <2>1. \/ kernel' = kernel \/ kernel' = [kernel EXCEPT ![cmd.ch] = k1]
          \/ kernel' = [kernel EXCEPT ![cmd.ch] = k2]
      BY <1>0, <1>1
    <2>2. /\ DOMAIN kernel' = Chains /\ \A ch \in Chains : ch # cmd.ch => kernel'[ch] = kernel[ch]
          /\ cmd.ch \in Chains => kernel'[cmd.ch] \in {kernel[cmd.ch], k1, k2}
      BY <2>1
    <2> QED
      BY <1>1, <2>2 DEF k1, k2
  <1>2. CASE cmd.do = "sweep"
    <2>1. kernel' = [kernel EXCEPT ![cmd.ch] = k3]
      BY <1>0, <1>2
    <2>2. /\ DOMAIN kernel' = Chains /\ \A ch \in Chains : ch # cmd.ch => kernel'[ch] = kernel[ch]
          /\ cmd.ch \in Chains => kernel'[cmd.ch] = k3
      BY <2>1
    <2> QED
      BY <1>2, <2>2 DEF k3
  <1>3. CASE cmd.do \in {"drop", "flush"}
    <2>1. kernel' = [kernel EXCEPT ![cmd.ch] = << >>]
      BY <1>0, <1>3
    <2>2. /\ DOMAIN kernel' = Chains /\ \A ch \in Chains : ch # cmd.ch => kernel'[ch] = kernel[ch]
          /\ cmd.ch \in Chains => kernel'[cmd.ch] = << >>
      BY <2>1
    <2> QED
      BY <1>3, <2>2
  <1>4. CASE cmd.do = "droptable"
    <2>1. kernel' = [ch \in Chains |-> IF ch \in NftChains THEN << >> ELSE kernel[ch]]
      BY <1>0, <1>4
    <2> QED
      BY <1>4, <2>1
  <1>5. CASE cmd.do \notin {"apply", "add", "sweep", "drop", "flush", "droptable"}
    <2>1. kernel' = kernel
      BY <1>0, <1>5
    <2> QED
      BY <1>5, <2>1
  <1> QED
    BY <1>1, <1>2, <1>3, <1>4, <1>5

LEMMA ChainsAfter ==
  ASSUME NEW cmd, chains' = ExecChains(cmd)
  PROVE  /\ cmd.do \in {"chain", "table", "natchain"} => chains' = chains \cup {cmd.ch}
         /\ cmd.do = "drop" => chains' = chains \/ chains' = chains \ {cmd.ch}
         /\ cmd.do = "drop" /\ ~Referenced(cmd.ch) => chains' = chains \ {cmd.ch}
         /\ cmd.do = "droptable" => chains' = chains \ NftTable
         /\ cmd.do \notin {"chain", "table", "natchain", "drop", "droptable"} => chains' = chains
  <1>1. CASE cmd.do \in {"chain", "table", "natchain"}
    BY <1>1 DEF ExecChains
  <1>2. CASE cmd.do = "drop"
    BY <1>2 DEF ExecChains
  <1>3. CASE cmd.do = "droptable"
    BY <1>3 DEF ExecChains, NftTable
  <1>4. CASE cmd.do \notin {"chain", "table", "natchain", "drop", "droptable"}
    BY <1>4 DEF ExecChains
  <1> QED
    BY <1>1, <1>2, <1>3, <1>4

\* A rule that goes to the top or to the end of a chain.
LEMMA Longer ==
  ASSUME NEW S, NEW s \in Seq(S), NEW r \in S PROVE <<r>> \o s \in Seq(S) /\ Append(s, r) \in Seq(S)
  OBVIOUS

LEMMA KernelIssue ==
  ASSUME KernelInv, NEW b \in {"ipt", "nft"}, NEW cmd \in CmdsOf(b),
         kernel' = ExecRules(cmd), chains' = ExecChains(cmd)
  PROVE  KernelInv'
  <1>1. /\ DOMAIN kernel = Chains /\ \A ch \in IptChains : kernel[ch] \in Seq(IptRules(ch))
        /\ BuiltIn \subseteq chains /\ chains \subseteq IptChains \cup NftTable \cup {"b4_nat"}
    BY DEF KernelInv
  <1>2. DOMAIN kernel' = Chains
    BY <1>1, RulesAfter
  <1>3. /\ cmd.do = "apply" => cmd.ch \in IptChains /\ cmd.r \in IptRules(cmd.ch)
        /\ cmd.do = "sweep" => cmd.ch \in IptChains
        /\ cmd.do \in {"chain", "table", "natchain"} => cmd.ch \in UserChains \cup NftTable \cup {"b4_nat"}
        /\ cmd.do = "drop" => cmd.ch \in UserChains \cup {"b4_nat"}
        /\ cmd.do \in {"add", "flush"} => cmd.ch \in NftChains \cup {"b4_nat"}
    <2>1. CASE b = "ipt"
      BY <2>1 DEF CmdsOf, IptCmds
    <2>2. CASE b = "nft"
      BY <2>2 DEF CmdsOf, NftCmds
    <2> QED
      BY <2>1, <2>2
  <1>4. BuiltIn \subseteq chains' /\ chains' \subseteq IptChains \cup NftTable \cup {"b4_nat"}
    <2>1. CASE cmd.do \in {"chain", "table", "natchain"}
      BY <1>1, <1>3, <2>1, ChainsAfter, Apart
    <2>2. CASE cmd.do = "drop"
      BY <1>1, <1>3, <2>2, ChainsAfter, Apart
    <2>3. CASE cmd.do = "droptable"
      BY <1>1, <2>3, ChainsAfter, Apart
    <2>4. CASE cmd.do \notin {"chain", "table", "natchain", "drop", "droptable"}
      BY <1>1, <2>4, ChainsAfter
    <2> QED
      BY <2>1, <2>2, <2>3, <2>4
  <1>5. ASSUME NEW ch \in IptChains PROVE kernel'[ch] \in Seq(IptRules(ch))
    <2> DEFINE S == IptRules(ch)
    <2>0. ch \in Chains /\ ch \notin NftChains /\ ch # "b4_nat"
      BY Apart DEF NftTable
    <2>1. kernel[ch] \in Seq(S)
      BY <1>1
    <2>2. CASE ch # cmd.ch /\ cmd.do # "droptable"
      <3>1. kernel'[ch] = kernel[ch]
        BY <1>1, <2>0, <2>2, RulesAfter
      <3> QED
        BY <2>1, <3>1
    <2>3. CASE cmd.do = "droptable"
      <3>1. kernel'[ch] = kernel[ch]
        BY <1>1, <2>0, <2>3, RulesAfter
      <3> QED
        BY <2>1, <3>1
    <2>4. CASE ch = cmd.ch /\ cmd.do = "sweep"
      <3>1. kernel'[ch] = Without(kernel[ch], cmd.r)
        BY <1>1, <2>0, <2>4, RulesAfter
      <3>2. kernel'[ch] \in Seq(Left(kernel[ch], cmd.r, S))
        BY <2>1, <3>1, SweepLeaves
      <3>3. Left(kernel[ch], cmd.r, S) \subseteq S
        BY DEF Left
      <3> HIDE DEF S
      <3>4. kernel'[ch] \in Seq(S)
        BY <3>2, <3>3
      <3> QED
        BY <3>4 DEF S
    <2>5. CASE ch = cmd.ch /\ cmd.do = "drop"
      <3>1. kernel'[ch] = << >>
        BY <1>1, <2>0, <2>5, RulesAfter
      <3> QED
        BY <3>1
    <2>6. CASE ch = cmd.ch /\ cmd.do = "apply"
      <3>1. kernel'[ch] \in {kernel[ch], <<cmd.r>> \o kernel[ch], Append(kernel[ch], cmd.r)}
        BY <1>1, <2>0, <2>6, RulesAfter
      <3>2. cmd.r \in S
        BY <1>3, <2>6
      <3> HIDE DEF S
      <3>3. kernel'[ch] \in Seq(S)
        BY <2>1, <3>1, <3>2, Longer
      <3> QED
        BY <3>3 DEF S
    <2>7. CASE cmd.do \notin {"sweep", "drop", "apply", "add", "flush", "droptable"}
      <3>1. kernel' = kernel
        BY <1>1, <2>7, RulesAfter
      <3> QED
        BY <2>1, <3>1
    <2>8. CASE ch = cmd.ch /\ cmd.do \in {"add", "flush"}
      BY <1>3, <2>0, <2>8
    <2> QED
      BY <2>2, <2>3, <2>4, <2>5, <2>6, <2>7, <2>8
  <1> QED
    BY <1>2, <1>4, <1>5 DEF KernelInv

\* The effect of command k of a clear still stands.
Taken(s, k) ==
    /\ s[k].do = "sweep" /\ s[k].ch \in Chains => \A r \in s[k].r : ~Has(s[k].ch, {r})
    /\ s[k].do = "drop" => kernel[s[k].ch] = << >> /\ (s[k].ch = "b4_nat" \/ Unnamed(s, k) => s[k].ch \notin chains)
    /\ s[k].do = "droptable" => chains \cap NftTable = {} /\ \A ch \in NftChains : kernel[ch] = << >>

Cleared(s, n) == \A k \in 1 .. n : Taken(s, k)

\* Nothing is added.
Shrinks ==
    /\ \A ch \in Chains : kernel[ch] = << >> => kernel'[ch] = << >>
    /\ \A ch \in Chains : \A r : Has(ch, {r})' => Has(ch, {r})
    /\ chains' \subseteq chains

LEMMA HasIs == \A ch : \A r : Has(ch, {r}) <=> \E i \in DOMAIN kernel[ch] : kernel[ch][i] = r
  BY DEF Has

\* A command of a clear only takes away.
LEMMA RemovalShrinks ==
  ASSUME KernelInv, NEW b \in {"ipt", "nft"}, NEW cmd \in CmdsOf(b),
         cmd.do \in {"sweep", "drop", "droptable", "restore", "forget"},
         kernel' = ExecRules(cmd), chains' = ExecChains(cmd)
  PROVE  Shrinks
  <1>1. DOMAIN kernel = Chains
    BY DEF KernelInv
  <1>2. chains' \subseteq chains
    BY ChainsAfter
  <1>3. ASSUME NEW ch \in Chains, NEW r
        PROVE  (kernel[ch] = << >> => kernel'[ch] = << >>) /\ (Has(ch, {r})' => Has(ch, {r}))
    <2>0. Has(ch, {r})' <=> \E i \in DOMAIN kernel'[ch] : kernel'[ch][i] = r
      BY DEF Has
    <2>1. CASE kernel'[ch] = kernel[ch]
      BY <2>0, <2>1, HasIs
    <2>2. CASE kernel'[ch] = << >>
      BY <2>0, <2>2
    <2>3. CASE ch = cmd.ch /\ cmd.do = "sweep"
      <3> DEFINE S == IptRules(ch)
                 old == kernel[ch]
                 new == kernel'[ch]
                 Q == Left(old, cmd.r, S)
      <3>1. ch \in IptChains
        BY <2>3 DEF CmdsOf, IptCmds, NftCmds
      <3>2. old \in Seq(S)
        BY <3>1 DEF KernelInv
      <3>3. new = Without(old, cmd.r)
        BY <1>1, <2>3, RulesAfter
      <3>4. new \in Seq(Q)
        BY <3>2, <3>3, SweepLeaves
      <3>5. \A x \in Q : \E i \in 1 .. Len(old) : old[i] = x
        BY DEF Left
      <3>6. DOMAIN old = 1 .. Len(old)
        BY <3>2
      <3>7. Has(ch, {r})' <=> \E i \in DOMAIN new : new[i] = r
        BY <2>0
      <3>8. Has(ch, {r}) <=> \E i \in DOMAIN old : old[i] = r
        BY HasIs
      <3> HIDE DEF S, old, new, Q
      <3>9. DOMAIN new = 1 .. Len(new) /\ \A i \in 1 .. Len(new) : new[i] \in Q
        BY <3>4
      <3>10. Has(ch, {r})' => Has(ch, {r})
        BY <3>5, <3>6, <3>7, <3>8, <3>9
      <3>11. ASSUME old = << >> PROVE new = << >>
        <4>1. Len(old) = 0
          BY <3>11
        <4>2. \A x \in Q : FALSE
          BY <3>5, <4>1
        <4>3. \A i \in 1 .. Len(new) : FALSE
          BY <3>9, <4>2
        <4> QED
          BY <3>4, <4>3, NoElements
      <3> QED
        BY <3>10, <3>11 DEF old, new
    <2>4. CASE cmd.do = "droptable"
      BY <1>1, <2>1, <2>2, <2>4, RulesAfter
    <2>5. CASE ch # cmd.ch /\ cmd.do # "droptable"
      BY <1>1, <2>1, <2>5, RulesAfter
    <2>6. CASE ch = cmd.ch /\ cmd.do = "drop"
      BY <1>1, <2>2, <2>6, RulesAfter
    <2>7. CASE cmd.do \in {"restore", "forget"}
      <3>1. kernel' = kernel
        BY <1>1, <2>7, RulesAfter
      <3> QED
        BY <2>1, <3>1
    <2> QED
      BY <2>3, <2>4, <2>5, <2>6, <2>7
  <1> QED
    BY <1>2, <1>3 DEF Shrinks

\* What was taken away stays away.
LEMMA TakenStays ==
  ASSUME Shrinks, NEW s, NEW k, Taken(s, k), s[k].do = "drop" => s[k].ch \in Chains
  PROVE  Taken(s, k)'
  <1>1. NftChains \subseteq Chains
    BY Apart
  <1>2. /\ \A ch \in Chains : kernel[ch] = << >> => kernel'[ch] = << >>
        /\ \A ch \in Chains : \A r : Has(ch, {r})' => Has(ch, {r})
        /\ chains' \subseteq chains
    BY DEF Shrinks
  <1>3. ASSUME s[k].do = "sweep", s[k].ch \in Chains, NEW r \in s[k].r PROVE ~Has(s[k].ch, {r})'
    BY <1>2, <1>3 DEF Taken
  <1>4. ASSUME s[k].do = "drop"
        PROVE  kernel'[s[k].ch] = << >> /\ (s[k].ch = "b4_nat" \/ Unnamed(s, k) => s[k].ch \notin chains')
    BY <1>2, <1>4 DEF Taken
  <1>5. ASSUME s[k].do = "droptable"
        PROVE  chains' \cap NftTable = {} /\ \A ch \in NftChains : kernel'[ch] = << >>
    BY <1>1, <1>2, <1>5 DEF Taken
  <1> QED
    BY <1>3, <1>4, <1>5 DEF Taken

\* The command that is issued takes away what it names: no jump to a chain is left
\* when they were all swept before.
LEMMA TakenNow ==
  ASSUME KernelInv, NEW b \in {"ipt", "nft"}, NEW s, NEW k \in Nat, k >= 1,
         s[k] \in CmdsOf(b), Cleared(s, k - 1),
         kernel' = ExecRules(s[k]), chains' = ExecChains(s[k])
  PROVE  Taken(s, k)'
  <1> DEFINE cmd == s[k]
  <1>1. DOMAIN kernel = Chains
    BY DEF KernelInv
  <1>2. ASSUME cmd.do = "sweep", cmd.ch \in Chains, NEW r \in cmd.r PROVE ~Has(cmd.ch, {r})'
    <2> DEFINE ch == cmd.ch
               S == IptRules(ch)
               new == kernel'[ch]
               Q == Left(kernel[ch], cmd.r, S)
    <2>1. ch \in IptChains
      BY <1>2 DEF CmdsOf, IptCmds, NftCmds
    <2>2. kernel[ch] \in Seq(S)
      BY <1>2, <2>1 DEF KernelInv
    <2>3. new = Without(kernel[ch], cmd.r)
      BY <1>1, <1>2, RulesAfter
    <2>4. new \in Seq(Q)
      BY <2>2, <2>3, SweepLeaves
    <2>5. r \notin Q
      BY <1>2 DEF Left
    <2>6. Has(ch, {r})' <=> \E i \in DOMAIN new : new[i] = r
      BY DEF Has
    <2> HIDE DEF new, Q, ch
    <2>7. ~Has(ch, {r})'
      BY <2>4, <2>5, <2>6
    <2> QED
      BY <2>7 DEF ch
  <1>3. ASSUME cmd.do = "drop"
        PROVE  kernel'[cmd.ch] = << >> /\ (cmd.ch = "b4_nat" \/ Unnamed(s, k) => cmd.ch \notin chains')
    <2>1. cmd.ch \in Chains
      BY <1>3, Apart DEF CmdsOf, IptCmds, NftCmds
    <2>2. kernel'[cmd.ch] = << >>
      BY <1>1, <1>3, <2>1, RulesAfter
    <2>5. ASSUME cmd.ch = "b4_nat" PROVE ~Referenced(cmd.ch)
      <3>1. \A r \in JumpRules : Target(r) # "b4_nat"
        BY DEF Target
      <3> QED
        BY <2>5, <3>1 DEF Referenced, Has
    <2>3. ASSUME Unnamed(s, k) PROVE ~Referenced(cmd.ch)
      <3>1. SUFFICES ASSUME Referenced(cmd.ch) PROVE FALSE
        OBVIOUS
      <3>2. PICK ch \in BuiltIn : Has(ch, {r \in JumpRules : Target(r) = cmd.ch})
        BY <3>1 DEF Referenced
      <3>3. PICK i \in DOMAIN kernel[ch] : kernel[ch][i] \in {r \in JumpRules : Target(r) = cmd.ch}
        BY <3>2 DEF Has
      <3> DEFINE r == kernel[ch][i]
      <3>4. kernel[ch] \in Seq(IptRules(ch)) /\ ch \in Chains
        BY Apart DEF KernelInv
      <3>5. r \in IptRules(ch)
        BY <3>3, <3>4
      <3>6. r \in JumpRules /\ Target(r) = cmd.ch
        BY <3>3
      <3>7. Has(ch, {r})
        BY <3>3 DEF Has
      <3> HIDE DEF r
      <3>8. Sweeps(s, k - 1, ch, r)
        BY <2>3, <3>5, <3>6 DEF Unnamed
      <3>9. PICK j \in 1 .. k - 1 : s[j].do = "sweep" /\ s[j].ch = ch /\ r \in s[j].r
        BY <3>8 DEF Sweeps
      <3>10. ~Has(ch, {r})
        BY <3>4, <3>9 DEF Cleared, Taken
      <3> QED
        BY <3>7, <3>10
    <2>4. ASSUME cmd.ch = "b4_nat" \/ Unnamed(s, k) PROVE cmd.ch \notin chains'
      <3>1. ~Referenced(cmd.ch)
        BY <2>3, <2>4, <2>5
      <3>2. chains' = chains \ {cmd.ch}
        BY <1>3, <3>1, ChainsAfter
      <3> QED
        BY <3>2
    <2> QED
      BY <2>2, <2>4
  <1>4. ASSUME cmd.do = "droptable"
        PROVE  chains' \cap NftTable = {} /\ \A ch \in NftChains : kernel'[ch] = << >>
    <2>1. NftChains \subseteq Chains
      BY Apart
    <2> QED
      BY <1>1, <1>4, <2>1, RulesAfter, ChainsAfter
  <1> QED
    BY <1>2, <1>3, <1>4 DEF Taken

\* Nothing is left of the engine of a configuration.
Emptied(c) ==
    /\ Eng(c) = "ipt" => /\ \A ch \in IptChains \ {"OUTPUT"} : kernel[ch] = << >>
                         /\ \A i \in DOMAIN kernel["OUTPUT"] : kernel["OUTPUT"][i] \in UnsweptOf(Settings[c])
                         /\ chains \cap IptChains = BuiltIn
    /\ Eng(c) = "nft" => /\ \A ch \in NftChains \cup {"b4_nat"} : kernel[ch] = << >>
                         /\ chains \subseteq IptChains

Gone == Emptied(cfg)

\* A clear that issued all its commands has left nothing.
LEMMA AllTaken ==
  ASSUME KernelInv, NEW c \in Configs, Cleared(ClearRules(c), Len(ClearRules(c)) - 2)
  PROVE  Emptied(c)
  <1>0. Settings[c] \in Setting /\ Eng(c) \in {"ipt", "nft"}
    BY SettingsAssumption DEF Setting, Eng
  <1>1. CASE Eng(c) = "ipt"
    <2> DEFINE s == iptClear(Settings[c])
               M == Len(s) - 2
    <2>1. Cleared(s, M)
      BY <1>1 DEF ClearRules, Eng
    <2>2. /\ \A ch \in BuiltIn : \A r \in IptRules(ch) :
                 (ch = "OUTPUT" /\ r \in UnsweptOf(Settings[c])) \/ Sweeps(s, M, ch, r)
          /\ \A ch \in UserChains : \E k \in 1 .. M : s[k].do = "drop" /\ s[k].ch = ch /\ Unnamed(s, k)
      BY <1>0, ClearTakesAll
    <2>3. (\A ch \in IptChains : kernel[ch] \in Seq(IptRules(ch))) /\ BuiltIn \subseteq chains
      BY DEF KernelInv
    <2> HIDE DEF s, M
    <2>4. ASSUME NEW ch \in BuiltIn, NEW r \in IptRules(ch), ~(ch = "OUTPUT" /\ r \in UnsweptOf(Settings[c]))
          PROVE  ~Has(ch, {r})
      <3>1. PICK j \in 1 .. M : s[j].do = "sweep" /\ s[j].ch = ch /\ r \in s[j].r
        BY <2>2, <2>4 DEF Sweeps
      <3> QED
        BY <2>1, <3>1, Apart DEF Cleared, Taken
    <2>5. ASSUME NEW ch \in BuiltIn, NEW i \in DOMAIN kernel[ch]
          PROVE  ch = "OUTPUT" /\ kernel[ch][i] \in UnsweptOf(Settings[c])
      <3> DEFINE S == IptRules(ch)
      <3>1. kernel[ch] \in Seq(S)
        BY <2>3, Apart
      <3>2. kernel[ch][i] \in S
        BY <2>5, <3>1
      <3>3. Has(ch, {kernel[ch][i]})
        BY HasIs
      <3> QED
        BY <2>4, <3>2, <3>3
    <2>6. ASSUME NEW ch \in BuiltIn, ch # "OUTPUT" PROVE kernel[ch] = << >>
      <3> DEFINE S == IptRules(ch)
      <3>1. kernel[ch] \in Seq(S)
        BY <2>3, Apart
      <3> HIDE DEF S
      <3>2. DOMAIN kernel[ch] = 1 .. Len(kernel[ch])
        BY <3>1
      <3>3. \A i \in 1 .. Len(kernel[ch]) : FALSE
        BY <2>5, <2>6, <3>2
      <3> QED
        BY <3>1, <3>3, NoElements
    <2>7. ASSUME NEW ch \in UserChains PROVE kernel[ch] = << >> /\ ch \notin chains
      <3>1. PICK k \in 1 .. M : s[k].do = "drop" /\ s[k].ch = ch /\ Unnamed(s, k)
        BY <2>2
      <3> QED
        BY <2>1, <3>1 DEF Cleared, Taken
    <2>8. chains \cap IptChains = BuiltIn
      BY <2>3, <2>7, Apart DEF IptChains
    <2>9. "OUTPUT" \in BuiltIn
      BY DEF BuiltIn
    <2> QED
      BY <1>1, <2>5, <2>6, <2>7, <2>8, <2>9 DEF Emptied, IptChains
  <1>2. CASE Eng(c) = "nft"
    <2> DEFINE s == nftClear
    <2>1. Len(s) = 4 /\ Cleared(s, Len(s) - 2)
      BY <1>2, ClearLength DEF ClearRules, Eng
    <2>2. s[1].do = "drop" /\ s[1].ch = "b4_nat" /\ s[2].do = "droptable"
      BY NftClearIs
    <2> HIDE DEF s
    <2>3. 4 - 2 = 2 /\ 1 \in 1 .. 2 /\ 2 \in 1 .. 2
      OBVIOUS
    <2>4. Taken(s, 1) /\ Taken(s, 2)
      BY <2>1, <2>3 DEF Cleared
    <2>5. kernel["b4_nat"] = << >> /\ "b4_nat" \notin chains
      BY <2>2, <2>4 DEF Taken
    <2>6. chains \cap NftTable = {} /\ \A ch \in NftChains : kernel[ch] = << >>
      BY <2>2, <2>4 DEF Taken
    <2>7. chains \subseteq IptChains \cup NftTable \cup {"b4_nat"}
      BY DEF KernelInv
    <2>8. chains \subseteq IptChains
      BY <2>5, <2>6, <2>7
    <2> QED
      BY <1>2, <2>5, <2>6, <2>8 DEF Emptied
  <1> QED
    BY <1>0, <1>1, <1>2

\* While a clear that nobody overlapped runs, all it has taken away stays away; when it
\* has finished, nothing is left.
Clearing ==
    /\ phase = "stopping" =>
           /\ ~Busy("monitor") /\ ~Busy("refresh")
           /\ Busy("main") => Cleared(Commands("main"), op["main"].at - 1)
           /\ ~Busy("main") => Gone
    /\ phase = "stopped" => Gone

ClearInv == CallsInv /\ KernelInv /\ (~dirty => Clearing)

LEMMA KernelSame ==
  ASSUME kernel' = kernel, chains' = chains
  PROVE  (KernelInv => KernelInv') /\ (cfg' = cfg /\ Gone => Gone')
  BY DEF KernelInv, Gone, Emptied

LEMMA KernelStep == ASSUME CallsInv, KernelInv, Next PROVE KernelInv'
  <1>0. TypeOK
    BY DEF CallsInv
  <1>1. ASSUME NEW a \in Callers, Issue(a) PROVE KernelInv'
    <2>1. Busy(a) /\ kernel' = ExecRules(Current(a)) /\ chains' = ExecChains(Current(a))
      BY <1>1 DEF Issue, MayRun
    <2>2. Current(a) \in CmdsOf(Eng(op[a].c))
      BY <1>0, <2>1, AtCommand
    <2>3. Eng(op[a].c) \in {"ipt", "nft"}
      BY <1>0, CallsNeat DEF TypeOK, CallsUnderWay
    <2> QED
      BY <2>1, <2>2, <2>3, KernelIssue
  <1>2. ASSUME NEW a \in Callers, CommandFails(a) \/ ManifestFails(a) PROVE KernelInv'
    BY <1>2, KernelSame DEF CommandFails, ManifestFails
  <1>3. ASSUME NEW c \in Configs, Start(c) \/ StoreConfig(c) PROVE KernelInv'
    BY <1>3, KernelSame DEF Start, StoreConfig
  <1>4. ASSUME Started \/ PoolStartFails \/ Refresh \/ RefreshTimesOut \/ Tick PROVE KernelInv'
    BY <1>4, KernelSame DEF Started, PoolStartFails, Refresh, RefreshTimesOut, Tick
  <1>5. ASSUME Shutdown \/ Stopped \/ Crash PROVE KernelInv'
    BY <1>5, KernelSame DEF Shutdown, Stopped, Crash
  <1>6. ASSUME NEW S, Wipe(S) PROVE KernelInv'
    <2>1. /\ kernel' = [ch \in Chains |-> IF ch \in S THEN << >> ELSE kernel[ch]]
          /\ chains' = IF S = ChainsOf("nft") THEN chains \ (S \cup {"b4_mangle"}) ELSE chains
      BY <1>6 DEF Wipe
    <2>2. DOMAIN kernel' = Chains /\ \A ch \in Chains : kernel'[ch] \in {<< >>, kernel[ch]}
      BY <2>1
    <2>3. \A ch \in IptChains : kernel[ch] \in Seq(IptRules(ch)) /\ << >> \in Seq(IptRules(ch)) /\ ch \in Chains
      BY Empty, Apart DEF KernelInv
    <2>4. \A ch \in IptChains : kernel'[ch] \in Seq(IptRules(ch))
      BY <2>2, <2>3
    <2>5. ChainsOf("nft") \cup {"b4_mangle"} = NftTable \cup {"b4_nat"}
      BY DEF ChainsOf, NftTable
    <2>6. BuiltIn \subseteq chains' /\ chains' \subseteq IptChains \cup NftTable \cup {"b4_nat"}
      BY <2>1, <2>5, Apart DEF KernelInv
    <2> QED
      BY <2>2, <2>4, <2>6 DEF KernelInv
  <1> QED
    BY <1>1, <1>2, <1>3, <1>4, <1>5, <1>6 DEF Next

\* The commands of the calls of one configuration.
LEMMA CallsAre ==
  ASSUME NEW c \in Configs, NEW clr, clr = ClearRules(c), NEW add, add = AddRules(c)
  PROVE  /\ Calls["add"][c] = add /\ Calls["clear"][c] = clr /\ Calls["renew"][c] = clr \o add
         /\ clr \in Seq(CmdsOf(Eng(c))) /\ add \in Seq(CmdsOf(Eng(c))) /\ ClearShape(Eng(c), clr)
         /\ Len(clr) \in Nat /\ Len(clr) >= 2 /\ Len(add) \in Nat /\ Len(add) >= 1
         /\ IsJoin(clr \o add, clr, add)
  <1>1. Calls["add"][c] = add /\ Calls["clear"][c] = clr /\ Calls["renew"][c] = clr \o add
    BY DEF Calls
  <1>2. add \in SomeCalls(Eng(c)) /\ ClearShape(Eng(c), clr)
    <2>1. "add" \in Names /\ "clear" \in Names
      BY DEF Names
    <2> QED
      BY <1>1, <2>1, CallsNeat
  <1>3. add \in Seq(CmdsOf(Eng(c))) /\ Len(add) >= 1 /\ clr \in Seq(CmdsOf(Eng(c))) /\ Len(clr) >= 2
    BY <1>2 DEF SomeCalls, NeatCalls, ClearShape
  <1>4. Len(clr) \in Nat /\ Len(add) \in Nat
    BY <1>3
  <1>5. IsJoin(clr \o add, clr, add)
    BY <1>3, JoinIs
  <1> QED
    BY <1>1, <1>2, <1>3, <1>4, <1>5

\* One command of a clear.
LEMMA ClearRound ==
  ASSUME KernelInv, NEW c \in Configs, NEW s, s = ClearRules(c),
         NEW k \in 1 .. Len(s), Cleared(s, k - 1), NEW cmd, cmd = s[k], NEW n, n = Advance(cmd),
         kernel' = ExecRules(cmd), chains' = ExecChains(cmd)
  PROVE  /\ n \in {1, 2} /\ k + n <= Len(s) + 1
         /\ k + n <= Len(s) => Cleared(s, (k + n) - 1)'
         /\ k + n > Len(s) => Emptied(c)'
  <1>0. Eng(c) \in {"ipt", "nft"}
    BY SettingsAssumption DEF Eng
  <1>1. s \in Seq(CmdsOf(Eng(c))) /\ ClearShape(Eng(c), s) /\ Len(s) \in Nat /\ Len(s) >= 2
    BY CallsAre
  <1>2. cmd \in CmdsOf(Eng(c)) /\ k \in Nat /\ k >= 1 /\ k <= Len(s)
    BY <1>1, ElementOf
  <1>3. /\ k < Len(s) - 1 => cmd.do \in {"sweep", "drop", "droptable"}
        /\ k = Len(s) - 1 => cmd.do = "restore"
        /\ k = Len(s) => cmd.do = "forget"
    <2>1. k < Len(s) - 1 => k \in 1 .. Len(s) - 2
      BY <1>1, <1>2
    <2> QED
      BY <1>1, <2>1 DEF ClearShape
  <1>4. cmd.do \in {"sweep", "drop", "droptable", "restore", "forget"}
    <2>1. k < Len(s) - 1 \/ k = Len(s) - 1 \/ k = Len(s)
      BY <1>1, <1>2
    <2> QED
      BY <1>3, <2>1
  <1>5. n \in {1, 2} /\ (n = 2 => cmd.do = "restore")
    BY <1>4, Skips
  <1>6. n = 2 => k = Len(s) - 1
    <2>1. k < Len(s) - 1 \/ k = Len(s) - 1 \/ k = Len(s)
      BY <1>1, <1>2
    <2> QED
      BY <1>3, <1>5, <2>1
  <1>7. k + n <= Len(s) + 1
    BY <1>1, <1>2, <1>5, <1>6
  <1>8. Shrinks
    BY <1>0, <1>2, <1>4, RemovalShrinks
  <1>9. ASSUME NEW j \in 1 .. k PROVE Taken(s, j)'
    <2>1. CASE j = k
      BY <1>0, <1>2, <2>1, TakenNow
    <2>2. CASE j # k
      <3>1. j \in 1 .. k - 1 /\ j \in 1 .. Len(s)
        BY <1>2, <2>2
      <3>2. Taken(s, j)
        BY <3>1 DEF Cleared
      <3>3. s[j] \in CmdsOf(Eng(c))
        BY <1>1, <3>1, ElementOf
      <3>4. s[j].do = "drop" => s[j].ch \in Chains
        BY <3>3, Apart DEF CmdsOf, IptCmds, NftCmds
      <3> QED
        BY <1>8, <3>2, <3>4, TakenStays
    <2> QED
      BY <2>1, <2>2
  <1>10. ASSUME k + n <= Len(s) PROVE Cleared(s, (k + n) - 1)'
    <2>1. n = 1 /\ (k + n) - 1 = k
      BY <1>1, <1>2, <1>5, <1>6, <1>10
    <2>2. Cleared(s, k)'
      BY <1>9 DEF Cleared
    <2> QED
      BY <2>1, <2>2
  <1>11. ASSUME k + n > Len(s) PROVE Emptied(c)'
    <2>1. k = Len(s) - 1 \/ k = Len(s)
      BY <1>1, <1>2, <1>5, <1>6, <1>11
    <2>2. cmd.do \in {"restore", "forget"}
      BY <1>3, <2>1
    <2>3. kernel' = kernel /\ chains' = chains
      BY <2>2, RulesAfter, ChainsAfter DEF KernelInv
    <2>4. Cleared(s, Len(s) - 2)
      <3>1. \A j \in 1 .. Len(s) - 2 : j \in 1 .. k - 1
        BY <1>1, <1>2, <2>1
      <3> QED
        BY <3>1 DEF Cleared
    <2>5. Emptied(c)
      BY <2>4, AllTaken
    <2> QED
      BY <2>3, <2>5 DEF Emptied
  <1> QED
    BY <1>5, <1>7, <1>10, <1>11

\* One command of the clear of a shutdown.
LEMMA ClearingIssue ==
  ASSUME CallsInv, KernelInv, Clearing, NEW a \in Callers, Issue(a) PROVE Clearing'
  <1>c. PICK s, k, n, cmd : s = Commands(a) /\ k = op[a].at /\ n = Advance(Current(a)) /\ cmd = Current(a)
    OBVIOUS
  <1>0. TypeOK /\ QuietDown
    BY DEF CallsInv
  <1>1. /\ Busy(a) /\ kernel' = ExecRules(cmd) /\ chains' = ExecChains(cmd)
        /\ op' = [op EXCEPT ![a] = Moved(a, n)] /\ cfg' = cfg /\ phase' = phase
    BY <1>c DEF Issue, MayRun
  <1>2. phase # "stopped"
    BY <1>0, <1>1 DEF QuietDown, Callers
  <1>3. SUFFICES ASSUME phase = "stopping" PROVE Clearing'
    BY <1>1, <1>2 DEF Clearing
  <1>4. a = "main"
    BY <1>1, <1>3 DEF Clearing, Callers
  <1>5. /\ s \in Seq(CmdsOf(Eng(op[a].c))) /\ Len(s) \in Nat /\ k \in 1 .. Len(s) /\ cmd = s[k]
        /\ cmd \in CmdsOf(Eng(op[a].c))
    BY <1>0, <1>1, <1>c, AtCommand DEF Current
  <1>6. n \in {1, 2, 5}
    BY <1>c, Skips
  <1>7. /\ \A b \in Callers : Busy(b)' => Busy(b)
        /\ Busy(a)' => k + n <= Len(s) /\ op'[a].at = k + n /\ Commands(a)' = s
        /\ ~Busy(a)' => k + n > Len(s)
    <2>1. op' = [op EXCEPT ![a] = Moved(a, n)] /\ n \in {1, 2, 5}
      BY <1>1, <1>6
    <2>2. /\ \A b \in Callers : Busy(b)' => Busy(b)
          /\ Busy(a)' => op[a].at + n <= Len(Commands(a)) /\ op'[a].at = op[a].at + n /\ Commands(a)' = Commands(a)
          /\ ~Busy(a)' => op[a].at + n > Len(Commands(a))
      BY <1>0, <1>1, <2>1, Moves
    <2> QED
      BY <1>c, <2>2
  <1>9. Cleared(s, k - 1)
    BY <1>1, <1>3, <1>4, <1>c DEF Clearing
  <1>10. ClearRules(cfg) = s /\ cfg \in Configs
    <2>1. op["main"].name = "clear" /\ op["main"].c = cfg
      BY <1>0, <1>1, <1>3, <1>4 DEF QuietDown
    <2>2. cfg \in Configs
      BY <1>0 DEF TypeOK
    <2> QED
      BY <1>0, <1>4, <1>c, <2>1, <2>2 DEF Commands, Calls
  <1>11. ~Busy("monitor")' /\ ~Busy("refresh")'
    BY <1>3, <1>7, ThreeCallers DEF Clearing
  <1>12. /\ k + n <= Len(s) => Cleared(s, (k + n) - 1)'
         /\ k + n > Len(s) => Gone'
    <2>1. cmd = s[k] /\ n = Advance(cmd) /\ s = ClearRules(cfg)
      BY <1>5, <1>10, <1>c
    <2>2. PICK c \in Configs : c = cfg
      BY <1>10
    <2>3. s = ClearRules(c)
      BY <2>1, <2>2
    <2>4. (k + n <= Len(s) => Cleared(s, (k + n) - 1)') /\ (k + n > Len(s) => Emptied(c)')
      BY <1>1, <1>5, <1>9, <2>1, <2>3, ClearRound
    <2>5. Emptied(c)' => Gone'
      BY <1>1, <2>2 DEF Gone
    <2> QED
      BY <2>4, <2>5
  <1>14. ASSUME Busy("main")' PROVE Cleared(Commands("main"), op["main"].at - 1)'
    <2>1. op'["main"].at - 1 = (k + n) - 1 /\ Commands("main")' = s /\ k + n <= Len(s)
      BY <1>4, <1>7, <1>14
    <2> QED
      BY <1>12, <2>1
  <1>15. ASSUME ~Busy("main")' PROVE Gone'
    BY <1>4, <1>7, <1>12, <1>15
  <1>16. phase' = "stopping"
    BY <1>1, <1>3
  <1> QED
    BY <1>11, <1>14, <1>15, <1>16 DEF Clearing

LEMMA ClearingStep == ASSUME ClearInv, Next, ~dirty' PROVE Clearing'
  <1>0. CallsInv /\ KernelInv /\ TypeOK /\ cfg \in Configs
    BY DEF ClearInv, CallsInv, TypeOK
  <1>d. ASSUME ~dirty PROVE Clearing
    BY <1>d DEF ClearInv
  <1>q. ASSUME phase' \notin {"stopping", "stopped"} PROVE Clearing'
    BY <1>q DEF Clearing
  <1>1. ASSUME NEW a \in Callers, Issue(a) PROVE Clearing'
    BY <1>0, <1>d, <1>1, ClearingIssue DEF Issue
  <1>2. ASSUME NEW a \in Callers, CommandFails(a) \/ ManifestFails(a) PROVE FALSE
    BY <1>2 DEF CommandFails, ManifestFails
  <1>3. ASSUME NEW c \in Configs, Start(c) \/ StoreConfig(c) PROVE Clearing'
    BY <1>3, <1>q DEF Start, StoreConfig
  <1>4. ASSUME Started \/ PoolStartFails \/ RefreshTimesOut \/ Tick \/ Crash PROVE Clearing'
    BY <1>4, <1>q DEF Started, PoolStartFails, RefreshTimesOut, Tick, Crash
  <1>5. ASSUME Refresh PROVE Clearing'
    <2>1. phase \in {"up", "stopping", "leaving"} /\ phase' = phase /\ dirty' = (Others("refresh") \/ phase # "up")
      BY <1>5 DEF Refresh
    <2> QED
      BY <1>q, <2>1
  <1>6. ASSUME Shutdown PROVE Clearing'
    <2>1. /\ op' = [op EXCEPT !["main"] = Call("clear", cfg)]
          /\ phase' = "stopping" /\ dirty' = Others("main")
      BY <1>6 DEF Shutdown
    <2>2. ~Busy("monitor") /\ ~Busy("refresh")
      BY <2>1 DEF Others, Callers
    <2> DEFINE e == Call("clear", cfg)
    <2>3. e \in [name : Names, c : Configs, at : Nat]
      BY <1>0, CallIs DEF Names
    <2>4. op' = [op EXCEPT !["main"] = e]
      BY <2>1
    <2> HIDE DEF e
    <2>5. \A b \in Callers \ {"main"} : Busy(b)' <=> Busy(b)
      BY <1>0, <2>1, <2>3, <2>4, ThreeCallers, Replaced
    <2>6. ~Busy("monitor")' /\ ~Busy("refresh")'
      BY <2>2, <2>5, ThreeCallers
    <2>7. Busy("main")' /\ op'["main"].at = 1
      BY <1>0, <2>1, ThreeCallers, BegunIs DEF Names
    <2>8. Cleared(Commands("main"), op["main"].at - 1)'
      <3>1. op'["main"].at - 1 = 0
        BY <2>7
      <3>2. \A j \in 1 .. 0 : FALSE
        OBVIOUS
      <3> QED
        BY <3>1, <3>2 DEF Cleared
    <2> QED
      BY <2>1, <2>6, <2>7, <2>8 DEF Clearing
  <1>7. ASSUME Stopped PROVE Clearing'
    <2>0. CASE phase = "leaving"
      BY <1>7, <1>q, <2>0 DEF Stopped
    <2>9. SUFFICES ASSUME phase # "leaving" PROVE Clearing'
      BY <2>0
    <2>1. /\ phase = "stopping" /\ ~Busy("main") /\ phase' = "stopped"
          /\ UNCHANGED <<cfg, kernel, chains, dirty>>
      BY <1>7, <2>9 DEF Stopped
    <2>2. Gone
      BY <1>d, <2>1 DEF Clearing
    <2>3. Gone'
      BY <2>1, <2>2, KernelSame
    <2> QED
      BY <2>1, <2>3 DEF Clearing
  <1>8. ASSUME NEW S, Wipe(S) PROVE Clearing'
    BY <1>8, <1>q DEF Wipe
  <1> QED
    BY <1>1, <1>2, <1>3, <1>4, <1>5, <1>6, <1>7, <1>8 DEF Next

LEMMA ClearInit == Init => ClearInv
  <1> SUFFICES ASSUME Init PROVE ClearInv
    OBVIOUS
  <1>1. CallsInv
    BY SysctlInit DEF SysctlInv
  <1>2. /\ phase = "down" /\ kernel = [ch \in Chains |-> << >>]
        /\ chains = BuiltIn
    BY DEF Init
  <1>3. DOMAIN kernel = Chains /\ \A ch \in Chains : kernel[ch] = << >>
    BY <1>2
  <1>4. \A ch \in IptChains : kernel[ch] \in Seq(IptRules(ch))
    BY <1>3, Empty, Apart
  <1>5. BuiltIn \subseteq chains /\ chains \subseteq IptChains
    BY <1>2, Apart
  <1>7. KernelInv
    BY <1>3, <1>4, <1>5 DEF KernelInv
  <1>8. Clearing
    BY <1>2 DEF Clearing
  <1> QED
    BY <1>1, <1>7, <1>8 DEF ClearInv

LEMMA ClearStep == ClearInv /\ [Next]_vars => ClearInv'
  <1> SUFFICES ASSUME ClearInv, [Next]_vars PROVE ClearInv'
    OBVIOUS
  <1>1. CASE Next
    BY <1>1, CallsStep, KernelStep, ClearingStep DEF ClearInv
  <1>2. CASE UNCHANGED vars
    <2>1. UNCHANGED <<backend, cfg, phase, op, kernel, chains, sysctl, snap, dirty, mixed>>
      BY <1>2 DEF vars
    <2>2. TypeOK'
      BY <2>1 DEF ClearInv, CallsInv, TypeOK, InCall, Commands
    <2>3. QuietDown'
      BY <2>1 DEF ClearInv, CallsInv, QuietDown, Busy
    <2>4. KernelInv'
      BY <2>1, KernelSame DEF ClearInv
    <2>5. Clearing => Clearing'
      <3>1. Gone' <=> Gone
        BY <2>1 DEF Gone, Emptied
      <3>2. \A a : (Busy(a)' <=> Busy(a)) /\ Commands(a)' = Commands(a)
        BY <2>1 DEF Busy, Commands
      <3>3. ASSUME NEW s, NEW n, Cleared(s, n) PROVE Cleared(s, n)'
        BY <2>1, <3>3 DEF Cleared, Taken, Has
      <3>4. PICK s, n : s = Commands("main") /\ n = op["main"].at - 1
        OBVIOUS
      <3>5. s = Commands("main")' /\ n = op'["main"].at - 1
        BY <2>1, <3>2, <3>4
      <3>6. Cleared(Commands("main"), op["main"].at - 1) => Cleared(Commands("main"), op["main"].at - 1)'
        BY <3>3, <3>4, <3>5
      <3> QED
        BY <2>1, <3>1, <3>2, <3>6 DEF Clearing
    <2> QED
      BY <2>1, <2>2, <2>3, <2>4, <2>5 DEF ClearInv, CallsInv
  <1> QED
    BY <1>1, <1>2

\* A shutdown that no other call overlapped and none of whose commands failed leaves no rule
\* and no chain of b4 in the engine of the configuration it ends with, whatever earlier
\* overlapping, failed or interrupted calls, unrefreshed changes and wipes left in the
\* kernel; only the CONNMARK rule of an earlier mark may stay in OUTPUT (ClearRules of
\* iptables.go and nftables.go).
THEOREM ClearAlwaysLeavesNothing == Spec => []ClearLeavesNothing
  <1>1. ASSUME ClearInv PROVE ClearLeavesNothing
    <2>1. SUFFICES ASSUME phase = "stopped", ~dirty PROVE ClearLeavesNothing
      BY DEF ClearLeavesNothing
    <2>2. Emptied(cfg)
      BY <1>1, <2>1 DEF ClearInv, Clearing, Gone
    <2>3. cfg \in Configs /\ Eng(cfg) \in {"ipt", "nft"}
      BY <1>1, SettingsAssumption DEF ClearInv, CallsInv, TypeOK, Eng
    <2>4. Engine = Eng(cfg) /\ Unswept = UnsweptOf(Settings[cfg])
      BY DEF Engine, Eng, Unswept, UnsweptOf
    <2>5. ChainsOf("ipt") = IptChains /\ ChainsOf("nft") = NftChains \cup {"b4_nat"}
      BY DEF ChainsOf, IptChains
    <2>6. CASE Eng(cfg) = "ipt"
      <3>1. /\ \A ch \in IptChains \ {"OUTPUT"} : kernel[ch] = << >>
            /\ \A i \in DOMAIN kernel["OUTPUT"] : kernel["OUTPUT"][i] \in Unswept
            /\ chains \cap IptChains = BuiltIn
        BY <2>2, <2>4, <2>6 DEF Emptied
      <3>2. \A ch \in IptChains : \A i \in DOMAIN kernel[ch] : ch = "OUTPUT" /\ kernel[ch][i] \in Unswept
        BY <3>1
      <3> QED
        BY <2>4, <2>5, <2>6, <3>1, <3>2 DEF ClearLeavesNothing
    <2>7. CASE Eng(cfg) = "nft"
      <3>1. (\A ch \in NftChains \cup {"b4_nat"} : kernel[ch] = << >>) /\ chains \subseteq IptChains
        BY <2>2, <2>7 DEF Emptied
      <3>2. \A ch \in NftChains \cup {"b4_nat"} : \A i \in DOMAIN kernel[ch] : FALSE
        BY <3>1
      <3> QED
        BY <2>4, <2>5, <2>7, <3>1, <3>2 DEF ClearLeavesNothing, IptChains
    <2> QED
      BY <2>3, <2>6, <2>7
  <1> QED
    BY <1>1, ClearInit, ClearStep, PTL DEF Spec

=============================================================================
