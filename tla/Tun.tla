------------------------------- MODULE Tun ---------------------------------
(***************************************************************************)
(* The TUN engine's routing: what b4 changes in the kernel to take traffic *)
(* into its device, what it keeps in memory and in the state file, and how *)
(* that is undone by Stop, by the next start after a kill, and repaired by *)
(* the reconcile loop when the uplink changes or another program flushes   *)
(* the firewall.  The commands of setup, refresh, teardown and clean-up    *)
(* are steps of their own, so that a kill, a change of the uplink or a     *)
(* netlink message falls between any two; one step each are the commands   *)
(* of setupBypassTable before its route, and of an ensure, jump or chain   *)
(* function.  An uplink has one gateway and always an address, so that     *)
(* the comparison of gateways and the tests for an empty source do not     *)
(* show.                                                                   *)
(***************************************************************************)
EXTENDS Naturals, Sequences, FiniteSetsExt

CONSTANTS
    Uplinks,    \* interfaces the default route can go through
    Dev,        \* the TUN device
    None,       \* the empty string, a missing route, no file
    Torn,       \* a state file truncated and not written
    Empty,      \* a chain without rules
    Settings,   \* configurations, with what happens around them
    MaxAddr     \* addresses one uplink gets one after the other

VARIABLES
    cfg,        \* the configuration of this behaviour
    wan,        \* the uplink that really has the default route
    addr,       \* the address of each uplink
    sets,       \* which routing sets are active (RoutingActiveIPSetNames)
    w,          \* kernel, state file, the manager's fields, commands to come
    phase,      \* of the process
    timer,      \* the watcher's debounce timer is set
    trigger,    \* the channel of capacity one
    left        \* changes, flushes and kills that may still happen

vars == <<cfg, wan, addr, sets, w, phase, timer, trigger, left>>

ASSUME BoundsAreNaturals == MaxAddr \in Nat

Addresses == Uplinks \X Nat

Routes == [dev : Uplinks \cup {Dev}, src : Addresses \cup {None}, metric : 0..1]

\* What the state file may hold: a persistedState.
States == [cap : {"ports", "default", None}, saved : Routes \cup {None}, out : Uplinks \cup {None},
           rp : {"admin", "loose", None}]

\* There is an uplink, none is the device, and what stands for nothing is nothing else.
SettingsOK ==
    /\ Uplinks # {} /\ None \notin Uplinks /\ Dev \notin Uplinks
    /\ None \notin Addresses /\ None \notin Routes /\ None \notin {"admin", "loose", "ports", "default"}
    /\ None \notin States /\ Torn \notin States /\ Torn # None
    /\ Settings \subseteq
          [capture : {"ports", "default"}, metric : 0..1, prints : BOOLEAN, pin : Uplinks \cup {None},
           skip : BOOLEAN, filter : BOOLEAN,
           left : [moves : Nat, readdr : Nat, wipes : Nat, kills : Nat, fails : Nat, starts : Nat, sets : Nat]]

ASSUME SettingsAssumption == SettingsOK

-----------------------------------------------------------------------------
(* The machine.  A default route per metric; "ip route show default" lists *)
(* the lower metric first.                                                  *)

NoManager == [out |-> None, src |-> None, saved |-> None, rp |-> None, cap |-> None,
              fwd |-> FALSE, snat |-> FALSE, notrack |-> {}, rules |-> FALSE, excl |-> None]

Route(dev, src, metric) == [dev |-> dev, src |-> src, metric |-> metric]

\* The kernel takes only an address of the host as a source.
Local(src) == src = None \/ \E u \in Uplinks : addr[u] = src

\* A step of the program: what to do, and the values read before.
Do(name) == [do |-> name, dev |-> None, src |-> None]

Steps(names) == [i \in DOMAIN names |-> Do(names[i])]

Then(x, steps) == [x EXCEPT !.pc = steps \o @]

FirstDefault(x) == IF x.main[0] # None THEN x.main[0] ELSE x.main[1]

\* The first default route that does not go into the device.
resolveDefaultEgress(x) ==
    LET ms == {i \in 0..1 : x.main[i] # None /\ x.main[i].dev # Dev}
    IN  IF ms = {} THEN None
        ELSE LET r == x.main[Min(ms)]
             IN  [dev |-> r.dev, src |-> IF r.src = None THEN addr[r.dev] ELSE r.src]

\* "ip route replace" of a saved line; the kernel wants its source to be local.
ReplaceDefault(x, r) ==
    IF Local(r.src) THEN [x EXCEPT !.main[r.metric] = r] ELSE [x EXCEPT !.warned = TRUE]

\* The device goes away with its descriptor, and the routes through it.
DeviceGone(x) ==
    [x EXCEPT !.k.dev = FALSE, !.k.ctab = None,
              !.main = [i \in 0..1 |-> IF x.main[i] # None /\ x.main[i].dev = Dev THEN None ELSE x.main[i]]]

-----------------------------------------------------------------------------
(* The state file.  os.WriteFile truncates, then writes. *)

writeStateFileTruncates(x) == [x EXCEPT !.file = Torn]

saveState(x) ==
    [x EXCEPT !.file = [cap |-> x.m.cap, saved |-> x.m.saved, out |-> x.m.out, rp |-> x.m.rp]]

removeStateFile(x) == [x EXCEPT !.file = None]

readStateFile(x) ==
    CASE x.file = None -> x
      [] x.file = Torn -> removeStateFile([x EXCEPT !.warned = TRUE])
      [] OTHER -> Then(x, Steps(<<"undo_route", "undo_rp", "forget">>))

RestoreFromState(x) ==
    LET hijacked == \E i \in 0..1 : x.main[i] # None /\ x.main[i].dev = Dev
    IN  IF x.file.cap = "default" /\ x.file.saved # None /\ (FirstDefault(x) = None \/ hijacked)
        THEN ReplaceDefault(x, x.file.saved) ELSE x

RestoreRPFromState(x) == IF x.file.rp = None THEN x ELSE [x EXCEPT !.rp[x.file.out] = x.file.rp]

-----------------------------------------------------------------------------
(* rp_filter, forwarding and NAT *)

\* The value found is kept; a filter that is loose already is left as it is.  That the
\* file cannot be read or written is not considered.
loosenRPFilter(x) == [x EXCEPT !.m.rp = x.rp[x.m.out], !.rp[x.m.out] = "loose"]

restoreRPFilter(x) == IF x.m.rp = None THEN x ELSE [x EXCEPT !.rp[x.m.out] = x.m.rp]

applyForwarding(x) == [x EXCEPT !.k.fwd = TRUE, !.m.fwd = TRUE]

teardownForwarding(x) == IF x.m.fwd THEN [x EXCEPT !.k.fwd = FALSE] ELSE x

\* setupNAT and ensureNAT: look for the rule, append it when it is missing, so that
\* no source has two.
ensureSNAT(x) ==
    IF x.m.src = None THEN x
    ELSE [x EXCEPT !.m.snat = TRUE, !.k.snat = @ \cup {x.m.src}]

removeSNAT(x) ==
    IF ~x.m.snat \/ x.m.src = None THEN x
    ELSE [x EXCEPT !.m.snat = FALSE, !.k.snat = @ \ {x.m.src}]

installNotrack(x, mark) == [x EXCEPT !.k.notrack = @ \cup {mark}, !.m.notrack = @ \cup {mark}]

ensureNotrack(x) == [x EXCEPT !.k.notrack = @ \cup x.m.notrack]

removeNotrack(x) == [x EXCEPT !.k.notrack = @ \ x.m.notrack, !.m.notrack = {}]

teardownNAT(x) == removeNotrack(removeSNAT(x))

-----------------------------------------------------------------------------
(* The bypass table that re-injected packets leave through *)

ownsBypassTable(x) == x.k.brule

\* Refused when the table holds routes and no rule of b4's points to it; else it is
\* flushed and the rule made anew.
setupBypassTable(x) ==
    IF x.k.btab # None /\ ~ownsBypassTable(x)
    THEN [x EXCEPT !.pc = Steps(<<"fail">>)]
    ELSE [x EXCEPT !.k.btab = None, !.k.brule = TRUE]

addBypassDefault(x) == [x EXCEPT !.k.btab = x.m.out]

flushBypassTable(x) == [x EXCEPT !.k.btab = None]

delFwmarkRule(x) == [x EXCEPT !.k.brule = FALSE]

ensureBypass(x) ==
    [x EXCEPT !.k.brule = TRUE, !.k.btab = IF @ = None THEN x.m.out ELSE @]

-----------------------------------------------------------------------------
(* Capture: the whole default route, or the first packets of some ports *)

\* Tried without the source when the kernel rejects it; an error leaves all as it was.
replaceDefaultIntoTun(x) ==
    IF ~x.k.dev THEN x
    ELSE LET src == IF Local(x.m.src) THEN x.m.src ELSE None
         IN  [x EXCEPT !.m.src = src, !.main[0] = Route(Dev, src, 0)]

ensureDefaultCapture(x) ==
    IF \E i \in 0..1 : x.main[i] # None /\ x.main[i].dev = Dev THEN x ELSE replaceDefaultIntoTun(x)

setupCaptureTable(x) == [x EXCEPT !.k.crule = TRUE]

replaceCaptureDefault(x) ==
    CASE x.k.dev /\ Local(x.m.src) -> [x EXCEPT !.k.ctab = [src |-> x.m.src]]
      [] ~(x.k.dev /\ Local(x.m.src)) /\ phase = "starting" -> [x EXCEPT !.pc = Steps(<<"fail">>)]
      [] OTHER -> x

ensureCaptureChain(x) == [x EXCEPT !.k.chain = IF @ = None THEN Empty ELSE @]

\* Flushed and filled again: marks, exclusions, then the ports.
rebuildCaptureChain(x) == [x EXCEPT !.k.chain = sets, !.m.excl = sets]

ensureGateChain(x) == [x EXCEPT !.k.gate = TRUE]

ensureCaptureJumps(x) ==
    IF cfg.filter THEN [ensureGateChain(x) EXCEPT !.k.jumps = (@ \ {"pre"}) \cup {"out", "gate"}]
    ELSE [x EXCEPT !.k.jumps = (@ \ {"gate"}) \cup {"out", "pre"}]

setupPortCapture(x) == [x EXCEPT !.m.rules = TRUE]

ensurePortCapture(x) ==
    LET y == ensureCaptureJumps(ensureCaptureChain([x EXCEPT !.k.crule = TRUE]))
        z == IF y.k.ctab = None THEN replaceCaptureDefault(y) ELSE y
    IN  IF z.m.excl # sets THEN rebuildCaptureChain(z) ELSE z

removeCaptureRules(x) == [x EXCEPT !.k.jumps = {}, !.k.gate = FALSE, !.k.chain = None]

teardownPortCapture(x) == [x EXCEPT !.k.crule = FALSE, !.k.ctab = None, !.m.rules = FALSE]

Captures(x) == IF x.m.cap = "ports" THEN <<"ctab">> ELSE <<"into_tun">>

-----------------------------------------------------------------------------
(* setup, teardown and reconcile as the commands they issue *)

\* The rest of setup once the default route is read; mutant: saved after capturing.
SetupStepsSavingLast ==
    (IF cfg.skip THEN <<>> ELSE <<"loosen", "forward", "snat", "notrack", "client_notrack">>)
    \o <<"mode", "bypass", "btab">>
    \o (IF cfg.capture = "ports" THEN <<"crule", "ctab", "chain", "fill", "jumps", "captured">>
                                 ELSE <<"into_tun">>)
    \o <<"tear", "save">>

SetupSteps ==
    (IF cfg.skip THEN <<>> ELSE <<"loosen", "forward", "snat", "notrack", "client_notrack">>)
    \o <<"mode", "tear", "save", "bypass", "btab">>
    \o (IF cfg.capture = "ports" THEN <<"crule", "ctab", "chain", "fill", "jumps", "captured">>
                                 ELSE <<"into_tun">>)

\* The first default route is saved; the uplink is derived from it or pinned.
setup(x) ==
    LET e == resolveDefaultEgress(x)
        out == IF cfg.pin # None THEN cfg.pin ELSE e.dev
        src == IF cfg.pin # None THEN addr[cfg.pin] ELSE e.src
    IN  IF cfg.pin = None /\ e = None THEN Then(x, Steps(<<"fail">>))
        ELSE Then([x EXCEPT !.m.saved = FirstDefault(x), !.m.out = out, !.m.src = src],
                  Steps(SetupSteps))

teardown(x) ==
    Then(x, Steps(
        (IF x.m.cap = "ports" /\ x.m.rules THEN <<"unchain", "uncapture">> ELSE <<>>)
        \o (IF x.m.cap = "default" /\ x.m.saved # None THEN <<"undefault">> ELSE <<>>)
        \o <<"unmark", "flush", "link_del">>
        \o (IF cfg.skip THEN <<>> ELSE <<"unforward", "unnat", "unrp">>)
        \o <<"forget">>))

\* Mutant: the SNAT rule is looked for under the new source.
RefreshStepsLate(e) ==
    <<Do("unrp"), [do |-> "repoint", dev |-> e.dev, src |-> e.src], Do("unsnat"), Do("loosen"), Do("tear"),
      Do("save"), Do("flush"), Do("btab")>>

RefreshSteps(e) ==
    (IF cfg.skip THEN <<>> ELSE <<Do("unrp")>>)
    \o <<Do("unsnat"), [do |-> "repoint", dev |-> e.dev, src |-> e.src]>>
    \o (IF cfg.skip THEN <<>> ELSE <<Do("loosen")>>)
    \o Steps(<<"tear", "save", "flush", "btab">>)

refreshEgress(x) ==
    LET e == resolveDefaultEgress(x)
    IN  IF cfg.pin # None \/ e = None \/ (e # None /\ e.dev = x.m.out) THEN x
        ELSE Then(x, RefreshSteps(e) \o Steps(Captures(x)))

\* The manager's fields take the uplink that was read; so does the route to restore.
repoint(x, e) ==
    [x EXCEPT !.m.out = e.dev, !.m.src = e.src, !.m.rp = None,
              !.m.saved = IF x.m.cap = "default" THEN Route(e.dev, e.src, 0) ELSE @]

refreshSource(x) ==
    LET e == resolveDefaultEgress(x)
        src == IF cfg.pin = None /\ e # None THEN e.src ELSE addr[x.m.out]
    IN  IF src = x.m.src THEN x
        ELSE Then(x, <<Do("unsnat"), [do |-> "source", dev |-> None, src |-> src]>>
                     \o Steps(Captures(x)))

reconcile(x) ==
    Then(x, Steps(<<"refresh", "resource">>
        \o (IF cfg.skip THEN <<>> ELSE <<"forward", "snat", "renotrack">>)
        \o <<"rebypass">>
        \o (IF x.m.cap = "ports" THEN <<"recapture">> ELSE <<"redefault">>)))

ClearStaleChains(x) == [removeCaptureRules(x) EXCEPT !.k.notrack = @ \ {"reinject"}]

clearTunSNAT(x) == [x EXCEPT !.k.fwd = FALSE, !.k.snat = {}]

\* A table is flushed when a rule with a mark points to it.
clearOwnedRoutingTable(x) ==
    [x EXCEPT !.k.crule = FALSE, !.k.ctab = IF x.k.crule THEN None ELSE @,
              !.k.brule = FALSE, !.k.btab = IF x.k.brule THEN None ELSE @]

\* What one command does.
Run(s, x) ==
    CASE s.do = "restore" -> readStateFile(x)
      [] s.do = "undo_route" -> RestoreFromState(x)
      [] s.do = "undo_rp" -> RestoreRPFromState(x)
      [] s.do = "forget" -> removeStateFile(x)
      [] s.do = "open" -> [x EXCEPT !.k.dev = TRUE, !.m = NoManager]
      [] s.do = "setup" -> setup(x)
      [] s.do = "loosen" -> loosenRPFilter(x)
      [] s.do = "forward" -> applyForwarding(x)
      [] s.do = "snat" -> ensureSNAT(x)
      [] s.do = "notrack" -> installNotrack(x, "reinject")
      [] s.do = "client_notrack" -> installNotrack(x, "client")
      [] s.do = "mode" -> [x EXCEPT !.m.cap = cfg.capture]
      [] s.do = "tear" -> writeStateFileTruncates(x)
      [] s.do = "save" -> saveState(x)
      [] s.do = "bypass" -> setupBypassTable(x)
      [] s.do = "btab" -> addBypassDefault(x)
      [] s.do = "flush" -> flushBypassTable(x)
      [] s.do = "unmark" -> delFwmarkRule(x)
      [] s.do = "crule" -> setupCaptureTable(x)
      [] s.do = "ctab" -> replaceCaptureDefault(x)
      [] s.do = "chain" -> ensureCaptureChain(x)
      [] s.do = "fill" -> rebuildCaptureChain(x)
      [] s.do = "jumps" -> ensureCaptureJumps(x)
      [] s.do = "captured" -> setupPortCapture(x)
      [] s.do = "into_tun" -> replaceDefaultIntoTun(x)
      [] s.do \in {"teardown", "fail"} -> teardown(x)
      [] s.do = "unchain" -> removeCaptureRules(x)
      [] s.do = "uncapture" -> teardownPortCapture(x)
      [] s.do = "undefault" -> ReplaceDefault(x, x.m.saved)
      [] s.do = "link_del" -> DeviceGone(x)
      [] s.do = "unforward" -> teardownForwarding(x)
      [] s.do = "unnat" -> teardownNAT(x)
      [] s.do = "unrp" -> restoreRPFilter(x)
      [] s.do = "unsnat" -> removeSNAT(x)
      [] s.do = "refresh" -> refreshEgress(x)
      [] s.do = "repoint" -> repoint(x, s)
      [] s.do = "resource" -> refreshSource(x)
      [] s.do = "source" -> [x EXCEPT !.m.src = s.src]
      [] s.do = "renotrack" -> ensureNotrack(x)
      [] s.do = "rebypass" -> ensureBypass(x)
      [] s.do = "recapture" -> ensurePortCapture(x)
      [] s.do = "redefault" -> ensureDefaultCapture(x)
      [] s.do = "stale_chains" -> ClearStaleChains(x)
      [] s.do = "stale_nat" -> clearTunSNAT(x)
      [] s.do = "stale_tables" -> clearOwnedRoutingTable(x)

-----------------------------------------------------------------------------
(* The process and what happens around it *)

Init ==
    /\ cfg \in Settings
    /\ wan = CHOOSE u \in Uplinks : TRUE
    /\ addr = [u \in Uplinks |-> <<u, 0>>]
    /\ sets = 0
    /\ w = [main |-> [i \in 0..1 |-> IF i = cfg.metric
                                     THEN Route(wan, IF cfg.prints THEN addr[wan] ELSE None, i) ELSE None],
            rp |-> [u \in Uplinks |-> "admin"],
            k |-> [dev |-> FALSE, fwd |-> FALSE, snat |-> {}, notrack |-> {}, brule |-> FALSE, btab |-> None,
                   crule |-> FALSE, ctab |-> None, chain |-> None, gate |-> FALSE, jumps |-> {}],
            file |-> None, m |-> NoManager, warned |-> FALSE, pc |-> <<>>]
    /\ phase = "stopped"
    /\ timer = FALSE
    /\ trigger = FALSE
    /\ left = cfg.left

Spend(what) == left[what] > 0 /\ left' = [left EXCEPT ![what] = @ - 1]

Down == phase \in {"stopped", "failed", "dead", "cleared"}

\* main: undo what a previous run left, then the engine.
Start ==
    /\ Down /\ Spend("starts")
    /\ phase' = "starting"
    /\ w' = [w EXCEPT !.pc = Steps(<<"restore", "open", "setup">>)]
    /\ UNCHANGED <<cfg, wan, addr, sets, timer, trigger>>

\* The other engine is started, or --clear-tables given.
ClearStaleArtifacts ==
    /\ phase \in {"dead", "failed"} /\ Spend("starts")
    /\ phase' = "clearing"
    /\ w' = [w EXCEPT !.pc = Steps(<<"restore", "stale_chains", "stale_nat", "stale_tables">>)]
    /\ UNCHANGED <<cfg, wan, addr, sets, timer, trigger>>

Step ==
    /\ w.pc # <<>>
    /\ w' = Run(Head(w.pc), [w EXCEPT !.pc = Tail(@)])
    /\ phase' = IF Head(w.pc).do = "fail" THEN "failing" ELSE phase
    /\ UNCHANGED <<cfg, wan, addr, sets, timer, trigger, left>>

\* One of the commands whose error ends setup.
SetupFails ==
    /\ phase = "starting" /\ w.pc # <<>>
    /\ Head(w.pc).do \in {"loosen", "bypass", "btab", "crule", "ctab", "into_tun"}
    /\ Spend("fails")
    /\ w' = [w EXCEPT !.pc = Steps(<<"fail">>)]
    /\ UNCHANGED <<cfg, wan, addr, sets, phase, timer, trigger>>

\* The last command returned.
Over ==
    /\ w.pc = <<>>
    /\ phase' = CASE phase = "starting" -> "running" [] phase = "tearing" -> "stopped"
                  [] phase = "failing" -> "failed" [] phase = "clearing" -> "cleared"
                  [] OTHER -> "none"
    /\ phase' # "none"
    /\ w' = IF phase' = "running" THEN w ELSE [w EXCEPT !.m = NoManager]
    /\ UNCHANGED <<cfg, wan, addr, sets, timer, trigger, left>>

Looping == phase \in {"running", "stopping"} /\ w.pc = <<>>

\* reconcileLoop; with quit closed and the channel full, select takes either.
reconcileLoop ==
    /\ Looping /\ trigger
    /\ trigger' = FALSE
    /\ w' = reconcile(w)
    /\ UNCHANGED <<cfg, wan, addr, sets, phase, timer, left>>

Tick ==
    /\ Looping
    /\ w' = reconcile(w)
    /\ UNCHANGED <<cfg, wan, addr, sets, phase, timer, trigger, left>>

\* Stop ends the watcher, closes the device, and waits for the loop.
Stop ==
    /\ phase = "running"
    /\ phase' = "stopping"
    /\ timer' = FALSE
    /\ w' = DeviceGone(w)
    /\ UNCHANGED <<cfg, wan, addr, sets, trigger, left>>

StopTeardown ==
    /\ phase = "stopping" /\ w.pc = <<>>
    /\ phase' = "tearing"
    /\ trigger' = FALSE
    /\ w' = [w EXCEPT !.pc = Steps(<<"teardown">>)]
    /\ UNCHANGED <<cfg, wan, addr, sets, timer, left>>

\* kill -9, or the exit after ten seconds of shutdown.
Kill ==
    /\ ~Down /\ Spend("kills")
    /\ phase' = "dead"
    /\ w' = [DeviceGone(w) EXCEPT !.m = NoManager, !.pc = <<>>]
    /\ timer' = FALSE
    /\ trigger' = FALSE
    /\ UNCHANGED <<cfg, wan, addr, sets>>

\* The watcher reads a message: the timer is set unless it is.
schedule == timer' = (timer \/ phase = "running")

\* Mutant: the channel has no buffer.
TimerFiresUnbuffered ==
    /\ timer
    /\ timer' = FALSE
    /\ trigger' = (trigger \/ (phase = "running" /\ w.pc = <<>>))
    /\ UNCHANGED <<cfg, wan, addr, sets, w, phase, left>>

TimerFires ==
    /\ timer
    /\ timer' = FALSE
    /\ trigger' = TRUE
    /\ UNCHANGED <<cfg, wan, addr, sets, w, phase, left>>

\* What the system's own network scripts write into the main table.
Given(u, a) == Route(u, IF cfg.prints THEN a ELSE None, cfg.metric)

\* Another uplink takes over, because the old one went down or for its metric.
DefaultMoves(u, drop) ==
    /\ u # wan /\ Spend("moves")
    /\ wan' = u
    /\ w' = [w EXCEPT !.main[cfg.metric] = Given(u, addr[u]),
                      !.k.btab = IF drop /\ @ = wan THEN None ELSE @]
    /\ schedule
    /\ UNCHANGED <<cfg, addr, sets, phase, trigger>>

\* The kernel drops routes of the old source from the main table.
AddressChanges ==
    /\ addr[wan][2] < MaxAddr /\ Spend("readdr")
    /\ LET a == <<wan, addr[wan][2] + 1>>
           kept == [i \in 0..1 |-> IF w.main[i] # None /\ w.main[i].src = addr[wan] THEN None ELSE w.main[i]]
       IN  /\ addr' = [addr EXCEPT ![wan] = a]
           /\ w' = [w EXCEPT !.main = [kept EXCEPT ![cfg.metric] = Given(wan, a)]]
    /\ schedule
    /\ UNCHANGED <<cfg, wan, sets, phase, trigger>>

SetsChange ==
    /\ Spend("sets")
    /\ sets' = 1 - sets
    /\ UNCHANGED <<cfg, wan, addr, w, phase, timer, trigger>>

\* Another program flushes the firewall, and may delete its chains.
Wipe(chains) ==
    /\ phase = "running" /\ Spend("wipes")
    /\ w' = [w EXCEPT !.k.fwd = FALSE, !.k.snat = {}, !.k.notrack = {}, !.k.jumps = {}, !.k.gate = FALSE,
                      !.k.chain = IF chains \/ @ = None THEN None ELSE Empty]
    /\ UNCHANGED <<cfg, wan, addr, sets, phase, timer, trigger>>

Next ==
    \/ Start \/ ClearStaleArtifacts \/ Step \/ SetupFails \/ Over
    \/ reconcileLoop \/ Tick \/ TimerFires
    \/ Stop \/ StopTeardown \/ Kill
    \/ \E u \in Uplinks, drop \in BOOLEAN : DefaultMoves(u, drop)
    \/ AddressChanges \/ SetsChange
    \/ \E chains \in BOOLEAN : Wipe(chains)

\* Commands return, timers fire and the loop reads its channel; the ticker is
\* not needed to follow the uplink.
Fairness == WF_vars(Step) /\ WF_vars(Over) /\ WF_vars(TimerFires) /\ WF_vars(reconcileLoop)

Spec == Init /\ [][Next]_vars /\ Fairness

-----------------------------------------------------------------------------
(* Properties *)

\* What is left of b4 in the kernel.
Leftovers ==
    {a \in {"dev", "fwd", "brule", "crule", "gate"} : w.k[a]}
    \cup {a \in {"btab", "ctab", "chain"} : w.k[a] # None}
    \cup (IF w.k.snat # {} THEN {"snat"} ELSE {})
    \cup (IF w.k.notrack # {} THEN {"notrack"} ELSE {})
    \cup (IF w.k.jumps # {} THEN {"jumps"} ELSE {})
    \cup (IF \E u \in Uplinks : w.rp[u] # "admin" THEN {"rp"} ELSE {})
    \cup (IF w.file # None THEN {"file"} ELSE {})

Killed == left.kills < cfg.left.kills

Readdressed == left.readdr < cfg.left.readdr

\* Stop undoes everything, however the uplink moved and whatever was flushed
\* since setup, and so does a start that fails.  Two things stay: the rule of the
\* capture table when the command after it fails (captureRulesAdded is set last),
\* and the SNAT rule of a source that replaceDefaultIntoTun saw rejected and forgot.
CleanStop ==
    LET forgotten == IF cfg.capture = "default" /\ Readdressed THEN {"snat"} ELSE {}
    IN  ~Killed => /\ phase = "stopped" => Leftovers \subseteq forgotten
                   /\ phase = "failed" => Leftovers \subseteq forgotten \cup {"crule"}

\* A default route through an uplink is there after Stop, after a failed start,
\* and once a start after a kill has read the state file, or an error was logged;
\* and nothing of a killed run still steers packets into the missing device.
DefaultSurvives ==
    /\ phase \in {"stopped", "failed", "cleared"} =>
            \/ \E i \in 0..1 : w.main[i] # None /\ w.main[i].dev # Dev
            \/ w.warned
    /\ phase = "cleared" => Leftovers \cap {"dev", "fwd", "jumps", "chain", "gate", "crule", "brule", "snat", "file"} = {}

\* The uplink, its address and the rules made from them are those in use now.
Followed ==
    /\ w.m.out = wan
    /\ w.k.btab = wan /\ w.k.brule
    /\ w.k.snat = {addr[wan]}
    /\ w.k.ctab = [src |-> addr[wan]]

\* A message that sets the timer while b4 runs brings everything to the uplink
\* in use, however many more arrive meanwhile, without the ticker: when ports are
\* captured and no earlier run was killed.
FollowsDefault ==
    (cfg.capture = "ports" /\ cfg.pin = None /\ cfg.left.kills = 0 /\ ~cfg.skip)
        => ((timer /\ phase = "running") ~> (Followed \/ phase # "running"))

=============================================================================
