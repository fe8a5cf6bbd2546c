------------------------------ MODULE Firewall ------------------------------
(***************************************************************************)
(* The packet-filter rules b4 installs: the iptables and nftables          *)
(* managers, the tables monitor that restores wiped rules, and the three   *)
(* callers that run them without a common lock: start-up and shutdown      *)
(* (main.go), the HTTP refresh callback (main.go 158-191) and the monitor. *)
(* Every caller issues external commands one at a time, so a call is a     *)
(* sequence of commands and each command is one step.                      *)
(***************************************************************************)
EXTENDS Naturals, Sequences, SequencesExt, FiniteSets

CONSTANTS
    Settings,   \* [configuration -> its firewall settings]
    Saves,      \* bound: the changes <<old, new>> of configuration, in a process or between two
    Events,     \* which of "wipe", "crash", "fail", "save" may happen, once each
    MaxEvents,  \* bound: how many of them happen in one behaviour
    MaxSwitches \* bound: how often a caller is preempted in the middle of a call

VARIABLES
    backend,    \* Monitor.backend: the engine detected when the process started
    cfg,        \* cfgPtr: the current configuration
    pending,    \* a configuration was stored and the refresh it asks for has not begun
    phase,      \* the process: "down", "starting", "up", "stopping", "stopped", or
                \* "leaving": stopping without having cleared
    op,         \* per caller: the call it is in and the command it is at (0: idle)
    kernel,     \* rules of every chain, iptables' and nftables'
    chains,     \* chains that exist
    sysctl,     \* nf_conntrack_* value: "orig", "b4" or "default"
    snap,       \* the sysctl snapshot file: "none" or the saved value
    dirty,      \* calls overlapped or failed, or a change was not refreshed, since the
                \* last lone clear began
    mixed,      \* calls overlapped at some time
    events,     \* the events that have happened
    turn,       \* the caller that issued the last command
    switches    \* preemptions so far

vars == <<backend, cfg, pending, phase, op, kernel, chains, sysctl, snap, dirty, mixed, events,
          turn, switches>>

sched == <<turn, switches>>

Configs == DOMAIN Settings

Callers == {"main", "monitor", "refresh"}

\* What a configuration says to the firewall: the engine detectFirewallBackend finds for
\* it, the mark, whether connections are marked (Queue.Mark is not 0 and the module is
\* there; 0 stands for the default mark), devices, masquerading, duplication and clamps.
ASSUME SettingsAssumption ==
    Settings \in [Configs -> [engine : {"ipt", "nft"}, mark : {"m1", "m2"}, connmark : BOOLEAN,
                              dev : {"off", "black", "white"}, masq : BOOLEAN, dup : BOOLEAN,
                              mss : SUBSET {"set", "dev", "global"}]]

(***************************************************************************)
(* A rule is what it does.  Rules of one shape that are installed one      *)
(* after the other (the three reply rules, the two prerouting DNS rules,   *)
(* the chunks of ports, the MAC addresses) are one rule, and so are those  *)
(* of the two address families.                                            *)
(***************************************************************************)
BuiltIn == {"POSTROUTING", "FORWARD", "PREROUTING", "OUTPUT", "NAT"}

UserChains == {"B4", "B4_PREROUTING", "B4_MASQ"}

\* The chains of the table b4_mangle, and the one of the nat table.
NftChains == {"postrouting", "forward", "prerouting", "output", "b4_chain"}

ChainsOf(engine) ==
    IF engine = "nft" THEN NftChains \cup {"b4_nat"} ELSE BuiltIn \cup UserChains

Chains == ChainsOf("ipt") \cup ChainsOf("nft")

QueueRules == {"q_reply", "q_dns", "q_dnsresp", "q_out", "q_dup"}

ClampRules == {"mss_set", "mss_dev", "mss_reply", "mss_global"}

JumpRules == {"j_B4", "mac_j_B4", "j_B4_PREROUTING", "j_B4_MASQ"}

\* The rules whose text has the mark in it: marked packets are accepted, their mark is
\* saved to the connection, and replies and packets that carry it return.
MarkRules ==
    [m1 |-> [accept |-> "accept_m1", save |-> "save_m1", reply |-> "reply_m1", skip |-> "skip_m1"],
     m2 |-> [accept |-> "accept_m2", save |-> "save_m2", reply |-> "reply_m2", skip |-> "skip_m2"]]

Cmd(do, ch, at, r) == [do |-> do, ch |-> ch, at |-> at, r |-> r]

\* A rule of the manifest.  Rule.Apply looks for it with one command and inserts it
\* with the next.
Rule(ch, at, r) == Cmd("apply", ch, at, r)

Installing(rules) ==
    [i \in 1 .. 2 * Len(rules) |->
        LET rule == rules[(i + 1) \div 2] IN IF i % 2 = 1 THEN [rule EXCEPT !.do = "check"] ELSE rule]

----------------------------------------------------------------------------
(* iptables: the manifest of rules, in the order Manifest.Apply installs them.
   "I" inserts at the top of the chain, "A" appends. *)

PreroutingRules ==
    << Rule("B4_PREROUTING", "I", "q_reply"), Rule("B4_PREROUTING", "I", "q_dns") >>

DupRules(c) == IF c.dup THEN << Rule("B4", "A", "q_dup") >> ELSE << >>

OutboundRules == << Rule("B4", "A", "q_out") >>

DeviceRules(c) ==
    CASE c.dev = "off"   -> << Rule("POSTROUTING", "I", "j_B4") >>
      [] c.dev = "black" -> << Rule("FORWARD", "I", "j_B4"), Rule("FORWARD", "I", "mac_return") >>
      [] c.dev = "white" -> << Rule("FORWARD", "I", "mac_j_B4") >>

OutputRules(c) ==
    << Rule("PREROUTING", "I", "j_B4_PREROUTING"), Rule("OUTPUT", "I", "q_dnsresp"),
       Rule("OUTPUT", "I", MarkRules[c.mark].accept), Rule("OUTPUT", "A", "j_B4") >>

ConnmarkRules(c) ==
    IF c.connmark
    THEN << Rule("OUTPUT", "I", MarkRules[c.mark].save),
            Rule("B4_PREROUTING", "I", MarkRules[c.mark].reply) >>
    ELSE << >>

buildMasqueradeManifest(c) ==
    IF c.masq
    THEN << Rule("NAT", "I", "client_return"), Rule("NAT", "A", "j_B4_MASQ"),
            Rule("B4_MASQ", "A", "masquerade") >>
    ELSE << >>

\* Emitted set first, then device, then global: each goes to the top, so the
\* set's clamp is matched last and TCPMSS lets the last match win.
buildMSSManifest(c, pre) ==
    (IF "set" \in c.mss
     THEN << Rule("OUTPUT", "I", "mss_set"), Rule("FORWARD", "I", "mss_set"), Rule(pre, "I", "mss_set") >>
     ELSE << >>)
    \o (IF "dev" \in c.mss
        THEN << Rule("FORWARD", "I", "mss_dev") >>
             \o IF "global" \in c.mss THEN << >> ELSE << Rule("FORWARD", "I", "mss_reply") >>
        ELSE << >>)
    \o (IF "global" \in c.mss
        THEN << Rule("OUTPUT", "I", "mss_global"), Rule("FORWARD", "I", "mss_global"),
                Rule(pre, "I", "mss_global") >>
        ELSE << >>)

buildManifest(c) ==
    PreroutingRules \o DupRules(c) \o OutboundRules \o DeviceRules(c) \o OutputRules(c)
        \o ConnmarkRules(c) \o buildMasqueradeManifest(c) \o buildMSSManifest(c, "B4_PREROUTING")

ManifestChains(c) == << "B4", "B4_PREROUTING" >> \o IF c.masq THEN << "B4_MASQ" >> ELSE << >>

\* Mutant: the snapshot is taken after b4's value is set.
SysctlApplyLateSave == << Cmd("set", "-", "-", "-"), Cmd("save", "-", "-", "-") >>

SysctlApply == << Cmd("save", "-", "-", "-"), Cmd("set", "-", "-", "-") >>

SysctlRevert == << Cmd("restore", "-", "-", "-"), Cmd("forget", "-", "-", "-") >>

EnsureChains(chs) == [i \in DOMAIN chs |-> Cmd("chain", chs[i], "-", "-")]

iptApply(c) == EnsureChains(ManifestChains(c)) \o Installing(buildManifest(c)) \o SysctlApply

\* clearB4JumpRules: each loop deletes every listed rule of one kind, the ACCEPT rules of
\* whatever mark among them, but not the CONNMARK rules.
clearB4JumpRules ==
    << Cmd("sweep", "POSTROUTING", "-", {"j_B4"}),
       Cmd("sweep", "FORWARD", "-", {"j_B4", "mac_j_B4", "mac_return"}),
       Cmd("sweep", "PREROUTING", "-", {"j_B4_PREROUTING"} \cup QueueRules),
       Cmd("sweep", "OUTPUT", "-", {"accept_m1", "accept_m2"}), Cmd("sweep", "OUTPUT", "-", {"j_B4"}),
       Cmd("sweep", "OUTPUT", "-", {"q_dnsresp"}),
       Cmd("sweep", "NAT", "-", {"masquerade", "client_return"}),
       Cmd("sweep", "OUTPUT", "-", ClampRules), Cmd("sweep", "FORWARD", "-", ClampRules),
       Cmd("sweep", "PREROUTING", "-", ClampRules) >>

RemoveRules(rules) ==
    Reverse([i \in DOMAIN rules |-> Cmd("sweep", rules[i].ch, "-", {rules[i].r})])

RemoveChains(chs) == Reverse([i \in DOMAIN chs |-> Cmd("drop", chs[i], "-", "-")])

\* Mutant: Clear leaves the masquerade chain to the manifest.
teardownMasqueradeChainSkipped == << >>

teardownMasqueradeChain == << Cmd("sweep", "NAT", "-", {"j_B4_MASQ"}), Cmd("drop", "B4_MASQ", "-", "-") >>

iptClear(c) ==
    clearB4JumpRules \o RemoveRules(buildManifest(c)) \o RemoveChains(ManifestChains(c))
        \o teardownMasqueradeChain \o SysctlRevert

----------------------------------------------------------------------------
(* nftables: one table that Apply deletes and rebuilds; "add" always appends. *)

Add(ch, r) == Cmd("add", ch, "A", r)

nftDeviceRules(c) ==
    CASE c.dev = "off"   -> << Cmd("chain", "postrouting", "-", "-"), Add("postrouting", "j_B4") >>
      [] c.dev = "black" -> << Cmd("chain", "forward", "-", "-"), Add("forward", "mac_return"),
                               Add("forward", "j_B4") >>
      [] c.dev = "white" -> << Cmd("chain", "forward", "-", "-"), Add("forward", "mac_j_B4") >>

nftMarkRules(c) ==
    << Add("output", "lo_return") >>
    \o (IF c.connmark THEN << Add("output", MarkRules[c.mark].save) >> ELSE << >>)
    \o << Add("output", MarkRules[c.mark].accept), Add("output", "j_B4"),
          Add("b4_chain", MarkRules[c.mark].skip) >>
    \o (IF c.connmark THEN << Add("prerouting", MarkRules[c.mark].reply) >> ELSE << >>)

nftQueueRules(c) ==
    (IF c.dup THEN << Add("b4_chain", "q_dup") >> ELSE << >>)
    \o << Add("b4_chain", "q_out"), Add("prerouting", "q_dns"), Add("output", "q_dnsresp"),
          Add("prerouting", "q_reply") >>

nftApplyMasquerade(c) ==
    IF c.masq
    THEN << Cmd("natchain", "b4_nat", "-", "-"), Cmd("flush", "b4_nat", "-", "-"),
            Add("b4_nat", "client_return"), Add("b4_nat", "masquerade") >>
    ELSE << >>

\* Appended global first, then device, then set.
nftApplyMSSClamp(c) ==
    (IF c.mss # {} THEN << Cmd("chain", "forward", "-", "-") >> ELSE << >>)
    \o (IF "global" \in c.mss
        THEN << Add("output", "mss_global"), Add("forward", "mss_global"), Add("prerouting", "mss_global") >>
        ELSE << >>)
    \o (IF "dev" \in c.mss THEN << Add("forward", "mss_dev"), Add("forward", "mss_reply") >> ELSE << >>)
    \o (IF "set" \in c.mss
        THEN << Add("output", "mss_set"), Add("forward", "mss_set"), Add("prerouting", "mss_set") >>
        ELSE << >>)

nftClear == << Cmd("drop", "b4_nat", "-", "-"), Cmd("droptable", "-", "-", "-") >> \o SysctlRevert

nftApply(c) ==
    << Cmd("tableexists", "-", "-", "-") >> \o nftClear \o << Cmd("table", "b4_mangle", "-", "-") >>
        \o EnsureChains(<< "b4_chain", "prerouting", "output" >>)
        \o nftDeviceRules(c) \o nftMarkRules(c) \o nftQueueRules(c)
        \o SysctlApply \o nftApplyMasquerade(c) \o nftApplyMSSClamp(c)

\* The calls: what each of them issues, with the engine of its own configuration.
AddRules(c) == IF Settings[c].engine = "nft" THEN nftApply(Settings[c]) ELSE iptApply(Settings[c])

ClearRules(c) == IF Settings[c].engine = "nft" THEN nftClear ELSE iptClear(Settings[c])

Calls == [add   |-> [c \in Configs |-> AddRules(c)],
          clear |-> [c \in Configs |-> ClearRules(c)],
          renew |-> [c \in Configs |-> ClearRules(c) \o AddRules(c)]]

----------------------------------------------------------------------------
(* What one command does. *)

Has(ch, rs) == \E i \in DOMAIN kernel[ch] : kernel[ch][i] \in rs

\* The chain a jump goes to; iptables wants it to exist and keeps it while it is named.
Target(r) == CASE r \in {"j_B4", "mac_j_B4"} -> "B4"
               [] r = "j_B4_PREROUTING"       -> "B4_PREROUTING"
               [] r = "j_B4_MASQ"             -> "B4_MASQ"
               [] OTHER                       -> "OUTPUT"

\* A command that the state of the kernel makes fail.
Refused(cmd) ==
    \/ cmd.do \in {"apply", "add", "flush"} /\ cmd.ch \notin chains
    \/ cmd.do = "apply" /\ Target(cmd.r) \notin chains
    \/ cmd.do = "chain" /\ cmd.ch \in NftChains /\ "b4_mangle" \notin chains

\* -F has emptied the chain by the time -X refuses it.
Referenced(ch) == \E c2 \in BuiltIn : Has(c2, {r \in JumpRules : Target(r) = ch})

\* A chain after every rule in R was deleted from it.
Without(rules, R) ==
    LET kept[n \in 0 .. Len(rules)] ==
            IF n = 0 THEN << >>
            ELSE IF rules[n] \in R THEN kept[n - 1] ELSE Append(kept[n - 1], rules[n])
    IN  kept[Len(rules)]

ExecRules(cmd) ==
    CASE cmd.do = "apply" /\ cmd.at = "I" -> [kernel EXCEPT ![cmd.ch] = <<cmd.r>> \o @]
      [] cmd.do \in {"apply", "add"} /\ cmd.at = "A" -> [kernel EXCEPT ![cmd.ch] = Append(@, cmd.r)]
      [] cmd.do = "sweep" -> [kernel EXCEPT ![cmd.ch] = Without(@, cmd.r)]
      [] cmd.do \in {"drop", "flush"} -> [kernel EXCEPT ![cmd.ch] = << >>]
      [] cmd.do = "droptable" -> [ch \in Chains |-> IF ch \in NftChains THEN << >> ELSE kernel[ch]]
      [] OTHER -> kernel

ExecChains(cmd) ==
    CASE cmd.do \in {"chain", "table", "natchain"} -> chains \cup {cmd.ch}
      [] cmd.do = "drop" -> IF Referenced(cmd.ch) THEN chains ELSE chains \ {cmd.ch}
      [] cmd.do = "droptable" -> chains \ (NftChains \cup {"b4_mangle"})
      [] OTHER -> chains

\* SysctlSetting.Apply saves the value it finds once and then sets its own;
\* RevertBack writes the saved value back and forgets it in a second step.
ExecSysctl(cmd) ==
    /\ sysctl' = CASE cmd.do = "set" -> "b4"
                   [] cmd.do = "restore" /\ snap # "none" -> snap
                   [] cmd.do = "restore" /\ snap = "none" -> "default"
                   [] OTHER -> sysctl
    /\ snap' = CASE cmd.do = "save" /\ snap = "none" -> sysctl
                 [] cmd.do = "forget" -> "none"
                 [] OTHER -> snap

\* Mutant: Rule.Apply inserts without looking.
AdvanceUnchecked(cmd) ==
    CASE cmd.do = "tableexists" /\ "b4_mangle" \notin chains -> 1 + Len(nftClear)
      [] cmd.do = "restore" /\ snap = "none" -> 2
      [] OTHER -> 1

\* How many commands the outcome of one advances the call: the insertion is skipped
\* when the rule is there, the clearing when there is no table, the forgetting when
\* nothing was saved.
Advance(cmd) ==
    CASE cmd.do = "check" /\ cmd.ch \in chains /\ Has(cmd.ch, {cmd.r}) -> 2
      [] cmd.do = "tableexists" /\ "b4_mangle" \notin chains -> 1 + Len(nftClear)
      [] cmd.do = "restore" /\ snap = "none" -> 2
      [] OTHER -> 1

Call(name, c) == [name |-> name, c |-> c, at |-> 1]

NoCall == [name |-> "clear", c |-> CHOOSE c \in Configs : TRUE, at |-> 0]

Commands(a) == Calls[op[a].name][op[a].c]

Current(a) == Commands(a)[op[a].at]

Moved(a, n) ==
    IF op[a].at + n > Len(Commands(a)) THEN NoCall ELSE [op[a] EXCEPT !.at = @ + n]

Busy(a) == op[a].at # 0

\* A caller waits for the one in the middle of a call unless it may preempt it.
MayRun(a) ==
    /\ Busy(a)
    /\ a = turn \/ ~Busy(turn) \/ switches < MaxSwitches
    /\ turn' = a
    /\ switches' = IF a # turn /\ Busy(turn) THEN switches + 1 ELSE switches

Idle == \A a \in Callers : ~Busy(a)

----------------------------------------------------------------------------
(* The monitor's test of the rules. *)

\* Mutant: the OUTPUT chain is not looked at.
checkIPTablesRulesNoOutput(c) ==
    /\ {"B4", "B4_PREROUTING"} \subseteq chains
    /\ IF c.dev = "off" THEN Has("POSTROUTING", {"j_B4"}) ELSE Has("FORWARD", {"j_B4", "mac_j_B4"})
    /\ Has("PREROUTING", {"j_B4_PREROUTING"}) /\ Has("B4_PREROUTING", {"q_dns"})

\* Words of the listing are looked for: "tcp" is in the reply rules and in the clamps, the
\* mark in the rule that accepts it and in the one that saves it.
checkIPTablesRules(c) ==
    /\ {"B4", "B4_PREROUTING"} \subseteq chains
    /\ IF c.dev = "off" THEN Has("POSTROUTING", {"j_B4"}) ELSE Has("FORWARD", {"j_B4", "mac_j_B4"})
    /\ Has("PREROUTING", {"j_B4_PREROUTING"})
    /\ Has("B4_PREROUTING", {"q_dns"}) /\ Has("B4_PREROUTING", {"q_reply"} \cup ClampRules)
    /\ Has("OUTPUT", {"q_dnsresp"})
    /\ Has("OUTPUT", {MarkRules[c.mark].accept, MarkRules[c.mark].save})
    /\ Has("OUTPUT", {"j_B4"})
    /\ c.masq => Has("NAT", {"j_B4_MASQ"}) /\ Has("B4_MASQ", {"masquerade"})
    /\ c.mss \cap {"global", "dev"} # {} => Has("OUTPUT", ClampRules) \/ Has("FORWARD", ClampRules)

\* "accept" is the policy of the chain whatever its rules are, so the mark is not tested.
checkNFTablesRules(c) ==
    /\ {"b4_mangle", "b4_chain", "prerouting", "output"} \subseteq chains
    /\ IF c.dev = "off" THEN Has("postrouting", {"j_B4"}) ELSE Has("forward", {"j_B4", "mac_j_B4"})
    /\ Has("prerouting", {"q_dns"}) /\ Has("prerouting", {"q_reply"} \cup ClampRules)
    /\ Has("output", {"q_dnsresp"}) /\ Has("output", {"j_B4"})
    /\ c.masq => Has("b4_nat", {"masquerade"})
    /\ c.mss \cap {"global", "dev"} # {} => Has("output", ClampRules) \/ Has("forward", ClampRules)

\* The monitor keeps the engine it was created with.
checkRules(c) ==
    IF backend = "nft" THEN checkNFTablesRules(Settings[c]) ELSE checkIPTablesRules(Settings[c])

----------------------------------------------------------------------------
Unloaded == [a \in Callers |-> NoCall]

May(e) == e \in Events \ events /\ Cardinality(events \cap Events) < MaxEvents

Others(a) == \E b \in Callers \ {a} : Busy(b)

Init ==
    /\ cfg \in Configs /\ backend = Settings[cfg].engine
    /\ pending = FALSE /\ phase = "down" /\ op = Unloaded
    /\ kernel = [ch \in Chains |-> << >>]
    /\ chains = BuiltIn
    /\ sysctl = "orig" /\ snap = "none"
    /\ dirty = FALSE /\ mixed = FALSE
    /\ events = {} /\ turn = "main" /\ switches = 0

\* Caller a issues its next command.
Issue(a) ==
    /\ MayRun(a)
    /\ LET cmd == Current(a) IN
        /\ ~Refused(cmd)
        /\ op' = [op EXCEPT ![a] = Moved(a, Advance(cmd))]
        /\ kernel' = ExecRules(cmd)
        /\ chains' = ExecChains(cmd)
        /\ ExecSysctl(cmd)
    /\ UNCHANGED <<backend, cfg, pending, phase, dirty, mixed, events>>

\* The errors of deletions, of ensureChain and of the nftables connmark rules are ignored.
Ignored(cmd) ==
    \/ cmd.do \in {"sweep", "drop", "droptable"}
    \/ cmd.do = "chain" /\ cmd.ch \in UserChains
    \/ cmd.do = "add" /\ cmd.r \in {"save_m1", "save_m2", "reply_m1", "reply_m2"}

\* Any other error ends AddRules with what is already installed left in place, and at
\* start-up the process exits.
CommandFails(a) ==
    /\ MayRun(a)
    /\ LET cmd == Current(a) IN
        /\ \/ Refused(cmd) /\ events' = events
           \/ /\ cmd.do \in {"chain", "apply", "add", "table", "natchain", "flush", "sweep", "drop",
                             "droptable"}
              /\ May("fail") /\ events' = events \cup {"fail"}
        /\ op' = [op EXCEPT ![a] = IF Ignored(cmd) THEN Moved(a, 1) ELSE NoCall]
        /\ phase' = IF a = "main" /\ phase = "starting" /\ ~Ignored(cmd) THEN "down" ELSE phase
    /\ dirty' = TRUE
    /\ UNCHANGED <<backend, cfg, pending, kernel, chains, sysctl, snap, mixed>>

\* The command of a renew at which its AddRules begins.
AddAt(c) == Len(ClearRules(c)) + 1

\* iptables or its connbytes module is not there: buildManifest fails before the first
\* command of a Clear, whose error start-up ignores, or of an Apply.
ManifestFails(a) ==
    /\ MayRun(a) /\ May("fail")
    /\ Settings[op[a].c].engine = "ipt"
    /\ op[a].at = 1 \/ (op[a].name = "renew" /\ op[a].at = AddAt(op[a].c))
    /\ LET goesOn == phase = "starting" /\ a = "main" /\ op[a].at = 1 IN
        /\ op' = [op EXCEPT ![a] = IF goesOn THEN [@ EXCEPT !.at = AddAt(op[a].c)] ELSE NoCall]
        /\ phase' = CASE a = "main" /\ phase = "starting" /\ ~goesOn -> "down"
                      [] a = "main" /\ phase = "stopping" -> "leaving"
                      [] OTHER -> phase
    /\ events' = events \cup {"fail"}
    /\ dirty' = TRUE
    /\ UNCHANGED <<backend, cfg, pending, kernel, chains, sysctl, snap, mixed>>

\* main: the configuration is read, leftovers are cleared, the rules are added.
Start(c) ==
    /\ phase \in {"down", "stopped"}
    /\ c = cfg \/ <<cfg, c>> \in Saves
    /\ cfg' = c /\ backend' = Settings[c].engine
    /\ phase' = "starting"
    /\ op' = [op EXCEPT !["main"] = Call("renew", c)]
    /\ dirty' = FALSE
    /\ UNCHANGED <<pending, kernel, chains, sysctl, snap, mixed, events, sched>>

Started ==
    /\ phase = "starting" /\ ~Busy("main")
    /\ phase' = "up"
    /\ UNCHANGED <<backend, cfg, pending, op, kernel, chains, sysctl, snap, dirty, mixed, events, sched>>

\* pool.Start fails: runB4 returns before its deferred clean-up is registered.
PoolStartFails ==
    /\ phase = "starting" /\ ~Busy("main") /\ May("fail")
    /\ phase' = "down" /\ events' = events \cup {"fail"}
    /\ UNCHANGED <<backend, cfg, pending, op, kernel, chains, sysctl, snap, dirty, mixed, sched>>

\* Which changes ask for a refresh: not those of the engine, the devices or the addresses
\* of duplication.
PerformSoftRestart(old, new) ==
    \/ old.mark # new.mark \/ old.connmark # new.connmark
    \/ old.masq # new.masq \/ old.mss # new.mss

\* A handler stores a new configuration; if need be its call of the refresh follows.
StoreConfig(c) ==
    /\ phase = "up" /\ ~pending /\ ~Busy("refresh") /\ May("save")
    /\ <<cfg, c>> \in Saves
    /\ cfg' = c
    /\ pending' = PerformSoftRestart(Settings[cfg], Settings[c])
    /\ dirty' = (dirty \/ (~pending' /\ Settings[c] # Settings[cfg]))
    /\ events' = events \cup IF pending' THEN {"save"} ELSE {"save", "not refreshed"}
    /\ UNCHANGED <<backend, phase, op, kernel, chains, sysctl, snap, mixed, sched>>

\* The refresh waits for a running search to end, at most five minutes.
RefreshTimesOut ==
    /\ pending /\ phase = "up" /\ May("fail")
    /\ pending' = FALSE /\ dirty' = TRUE
    /\ events' = events \cup {"fail"}
    /\ UNCHANGED <<backend, cfg, phase, op, kernel, chains, sysctl, snap, mixed, sched>>

Refresh ==
    /\ pending /\ phase \in {"up", "stopping", "leaving"}
    /\ pending' = FALSE
    /\ op' = [op EXCEPT !["refresh"] = Call("renew", cfg)]
    /\ LET overlaps == Others("refresh") \/ phase # "up" IN
        /\ dirty' = overlaps
        /\ mixed' = (mixed \/ overlaps)
    /\ UNCHANGED <<backend, cfg, phase, kernel, chains, sysctl, snap, events, sched>>

\* monitorLoop: a tick that finds rules missing runs AddRules over what is there.
Tick ==
    /\ phase = "up" /\ ~Busy("monitor") /\ ~checkRules(cfg)
    /\ op' = [op EXCEPT !["monitor"] = Call("add", cfg)]
    /\ dirty' = (dirty \/ Others("monitor")) /\ mixed' = (mixed \/ Others("monitor"))
    /\ UNCHANGED <<backend, cfg, pending, phase, kernel, chains, sysctl, snap, events, sched>>

\* gracefulShutdown: the monitor has stopped, an HTTP handler may still be at work.
Shutdown ==
    /\ phase = "up" /\ ~Busy("monitor")
    /\ phase' = "stopping"
    /\ op' = [op EXCEPT !["main"] = Call("clear", cfg)]
    /\ dirty' = Others("main") /\ mixed' = (mixed \/ Others("main"))
    /\ UNCHANGED <<backend, cfg, pending, kernel, chains, sysctl, snap, events, sched>>

Stopped ==
    /\ phase \in {"stopping", "leaving"} /\ ~Busy("main")
    /\ phase' = IF phase = "stopping" THEN "stopped" ELSE "down"
    /\ op' = Unloaded /\ pending' = FALSE
    /\ UNCHANGED <<backend, cfg, kernel, chains, sysctl, snap, dirty, mixed, events, sched>>

Crash ==
    /\ phase \in {"starting", "up", "stopping", "leaving"} /\ May("crash")
    /\ events' = events \cup {"crash"}
    /\ phase' = "down" /\ op' = Unloaded /\ pending' = FALSE
    /\ UNCHANGED <<backend, cfg, kernel, chains, sysctl, snap, dirty, mixed, sched>>

\* Another program flushes one built-in chain, the mangle table or the nat table,
\* or replaces the whole nftables ruleset.
WipeSets ==
    {{"OUTPUT"}, {"FORWARD"}, {"POSTROUTING"}, {"PREROUTING"},
     ChainsOf("ipt") \ {"NAT", "B4_MASQ"}, {"NAT", "B4_MASQ"}, ChainsOf("nft")}

Wipe(S) ==
    /\ phase = "up" /\ May("wipe")
    /\ \E ch \in S : kernel[ch] # << >>
    /\ events' = events \cup IF Idle THEN {"wipe"} ELSE {"wipe", "wipe in a call"}
    /\ kernel' = [ch \in Chains |-> IF ch \in S THEN << >> ELSE kernel[ch]]
    /\ chains' = IF S = ChainsOf("nft") THEN chains \ (S \cup {"b4_mangle"}) ELSE chains
    /\ dirty' = (dirty \/ ~Idle)
    /\ UNCHANGED <<backend, cfg, pending, phase, op, sysctl, snap, mixed, sched>>

Next ==
    \/ \E a \in Callers : Issue(a) \/ CommandFails(a) \/ ManifestFails(a)
    \/ \E c \in Configs : Start(c) \/ StoreConfig(c)
    \/ Started \/ PoolStartFails \/ Refresh \/ RefreshTimesOut \/ Tick \/ Shutdown \/ Stopped \/ Crash
    \/ \E S \in WipeSets : Wipe(S)

Fairness ==
    /\ \A a \in Callers : WF_vars(Issue(a) \/ CommandFails(a))
    /\ WF_vars(Started) /\ WF_vars(Refresh) /\ WF_vars(Tick) /\ WF_vars(Stopped)

Spec == Init /\ [][Next]_vars /\ Fairness

----------------------------------------------------------------------------
\* The rules of a chain after the first n commands on a kernel without b4 rules.
FreshRules(cmds, ch) ==
    LET rules[n \in 0 .. Len(cmds)] ==
            IF n = 0 THEN << >>
            ELSE IF cmds[n].do \in {"apply", "add"} /\ cmds[n].ch = ch
                 THEN IF cmds[n].at = "I" THEN << cmds[n].r >> \o rules[n - 1]
                      ELSE Append(rules[n - 1], cmds[n].r)
                 ELSE rules[n - 1]
    IN  rules

\* The rules of every chain after AddRules(c).
FreshTable ==
    [c \in Configs |-> [ch \in Chains |-> FreshRules(AddRules(c), ch)[Len(AddRules(c))]]]

Engine == Settings[cfg].engine

\* The rules that no clear of this configuration deletes: the manifest names its own
\* CONNMARK rule, and the sweeps look for none.
Unswept ==
    {"save_m1", "save_m2"} \ IF Settings[cfg].connmark THEN {MarkRules[Settings[cfg].mark].save} ELSE {}

\* checkRules is content with a clamp in OUTPUT or FORWARD, so a wipe of FORWARD
\* alone loses its clamp for good; the properties leave that rule aside.
Watched(ch, rules) ==
    CASE ch = "FORWARD" -> Without(rules, ClampRules)
      [] ch = "OUTPUT"  -> Without(rules, Unswept)
      [] OTHER          -> rules

\* Whatever leftovers of other configurations, crashes, failed commands and wipes came
\* before, once the calls are over and the monitor is content, every chain of the engine
\* in use holds exactly the rules of the current configuration, once each and in the
\* order AddRules gives them on an empty kernel.  It is not claimed when calls overlapped
\* or failed since the last lone clear or a change was stored that asks for no refresh
\* (PerformSoftRestart), and the CONNMARK rule of an earlier mark may stand in OUTPUT.
RestoredExactly ==
    phase = "up" /\ Idle /\ ~pending /\ ~dirty /\ backend = Engine /\ checkRules(cfg)
        => \A ch \in ChainsOf(Engine) : Watched(ch, kernel[ch]) = Watched(ch, FreshTable[cfg][ch])

\* A shutdown no other call overlapped and none of whose commands failed leaves no rule
\* and no chain of b4 in the engine of the configuration it ends with, even if earlier
\* overlapping or failed calls installed rules twice or in part, or a change of devices
\* was never refreshed; only the CONNMARK rule of an earlier mark may stay in OUTPUT.
ClearLeavesNothing ==
    phase = "stopped" /\ ~dirty
        => /\ \A ch \in ChainsOf(Engine) :
                 \A i \in DOMAIN kernel[ch] : ch = "OUTPUT" /\ kernel[ch][i] \in Unswept
           /\ IF Engine = "nft" THEN chains \subseteq BuiltIn \cup UserChains
              ELSE chains \cap ChainsOf("ipt") = BuiltIn

\* If calls never overlapped, a shutdown never leaves b4's own sysctl values behind,
\* wherever earlier processes were killed: the snapshot never holds b4's own value.
SysctlReverted == phase = "stopped" /\ ~mixed => sysctl # "b4"

\* The rules of a configuration that WipedRulesReturn looks at.
Wanted ==
    [c \in Configs |->
        {cmd \in ToSet(AddRules(c)) :
            cmd.do \in {"apply", "add"} /\ ~(cmd.ch = "FORWARD" /\ cmd.r \in ClampRules)}]

AllPresent == \A cmd \in Wanted[cfg] : Has(cmd.ch, {cmd.r})

\* "If external programs delete rules, b4 will restore them": every rule of the
\* current configuration is back some time after a wipe, also when its restoration
\* overlaps an iptables refresh, as long as no command fails and the process runs.  What
\* is wiped is a whole built-in chain or table.  Left aside are a wipe in the middle of a
\* call: checkRules does not look for the rule that exempts the client mark from
\* masquerading, nor into the B4 chain.  Overlapping nftables calls: one deletes the table
\* the other is filling, which then goes on with the rest of its rules, and the monitor
\* accepts the mixture.  And a change that asked for no refresh.
WipedRulesReturn ==
    (phase = "up" /\ ~AllPresent)
        ~> (AllPresent \/ phase # "up" \/ backend # Engine
            \/ events \cap {"fail", "wipe in a call", "not refreshed"} # {}
            \/ (backend = "nft" /\ mixed))
=============================================================================
