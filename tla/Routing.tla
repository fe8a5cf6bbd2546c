------------------------------ MODULE Routing ------------------------------
(***************************************************************************)
(* Policy routing of sets: tables/routing*.go keeps a cache of the sets    *)
(* whose chains, ip rules and route tables it installed; tproxy/manager.go *)
(* keeps the listeners the proxy sets redirect to.  Both are driven by     *)
(* HTTP saves (no common lock), the tables monitor, the link watcher and   *)
(* the pre-resolve goroutines.  Every Routing* call holds routeMu, so it   *)
(* is one step; callers interleave between calls.  The contents of the     *)
(* ipsets, all that RoutingLearnIP changes, are left out.                  *)
(***************************************************************************)
EXTENDS Naturals, Sequences, SequencesExt, FiniteSets

CONSTANTS
    SetSeq,     \* the sets in configuration order
    Ifaces,     \* egress interfaces
    Configs,    \* configurations: [set -> Off, an interface, Proxy or Block]
    Startup,    \* <<configuration, interfaces present>> at start
    Pin,        \* [set -> [interface -> the FWMark/Table it pins there, or 0]]
    ProxyMark,  \* [set -> the mark of its redirect]: MarkForSet hashes the set's id
    HashOf,     \* [interface -> the first id routeResolveIDs tries]
    MaxId,      \* bound: mark/table pairs 1 .. MaxId (4096 attempts in the code)
    None,       \* no state, no configuration, no route
    MaxEvents   \* bound: saves, interface changes, wipes, failed commands, restarts

VARIABLES
    store,      \* cfgPtr
    syncs,      \* saves that stored a configuration and have not synced it yet
    rt,         \* routeRuleCache, routeIfaceAuto and the kernel state they manage
    listeners,  \* tproxy.Manager.listeners
    jobs,       \* <<set, spec>>: a routePreResolveDomains holding that set
    tick,       \* the monitor: the configuration it loaded and how far it is
    snap,       \* Monitor.ifaceState
    up,         \* interfaces that are present
    msgs,       \* RTM_NEWLINK messages not yet received
    pend,       \* linkWatcher.pendingIfaces, its timer running when not empty
    events,     \* how many saves, interface changes and faults there were
    wiped,      \* the tables were flushed from outside and not checked since
    lost,       \* [set -> "no", or how its rules were lost from outside: "flushed", "removed"]
    lastListen, lastRoute,  \* the configuration last applied ("none": a stale set was)
    residue,    \* why kernel state no set owns may remain: "failed", "forgotten"
    missed      \* interfaces whose return was ignored while a set was installed on them

vars == <<store, syncs, rt, listeners, jobs, tick, snap, up, msgs, pend, events, wiped,
          lost, lastListen, lastRoute, residue, missed>>

Off == "off"
Proxy == "proxy"
Block == "block"

Sets == ToSet(SetSeq)

Ids == 1 .. MaxId

ASSUME IdsSuffice ==
    /\ IsFiniteSet(Ifaces) /\ MaxId \in Nat
    /\ MaxId >= Cardinality(Ifaces) + Cardinality(Sets)
    /\ HashOf \in [Ifaces -> Ids] /\ Pin \in [Sets -> [Ifaces -> 0 .. MaxId]]

\* Off, Proxy and Block are not the names of interfaces.
ASSUME ConfigsAssumption ==
    /\ {Off, Proxy, Block} \cap Ifaces = {}
    /\ SetSeq \in Seq(Sets)
    /\ None \notin [mode : {"interface", Proxy, Block}, iface : Ifaces \cup {Proxy, Block},
                    id : 0 .. MaxId]
    /\ Configs \subseteq [Sets -> Ifaces \cup {Off, Proxy, Block}] /\ None \notin Configs
    /\ Startup \subseteq Configs \X SUBSET Ifaces

Idle == [step |-> "idle", cfg |-> None, dropped |-> None]

NoCache == [s \in Sets |-> None]

NoAuto == [i \in Ifaces |-> 0]

\* The ids some set pins; nothing keeps a pinned id away from another interface.
Pinned == {Pin[s][i] : s \in Sets, i \in Ifaces} \ {0}

Marks == {ProxyMark[s] : s \in Sets}

\* No other set's id hashes to the same mark.
OwnMark(s) == \A t \in Sets \ {s} : ProxyMark[t] # ProxyMark[s]

Empty == [cache |-> NoCache, auto |-> NoAuto, chains |-> {}, rules |-> {}, prules |-> {},
          routes |-> [n \in Ids |-> None], local |-> FALSE]

IsIface(st) == st # None /\ st.mode = "interface"

----------------------------------------------------------------------------
(* The route state of a set. *)

modeOf(spec) == IF spec \in Ifaces THEN "interface" ELSE spec

\* The chains a set of each mode owns: pre and out in mangle, nat, and filter.  Their
\* names carry a hash of the set's id; ids whose names coincide are not considered.
OwnedChains(s, mode) ==
    {s} \X (CASE mode = "interface" -> {"pre", "out", "nat"}
              [] mode = Proxy -> {"pre", "out"}
              [] mode = Block -> {"filter"})

\* The chains the monitor looks for.
routeStateChains(s, st) == IF st.mode = Proxy THEN {<<s, "pre">>} ELSE OwnedChains(s, st.mode)

usedIdsNone(r) == {}

\* Ids in use: those of cached sets and those given to interfaces.
usedIds(r) ==
    {r.cache[s].id : s \in {t \in Sets : IsIface(r.cache[t])}}
        \cup ({r.auto[i] : i \in Ifaces} \ {0})

\* The mark and table the set pins, else those of the interface, else from the hash of
\* the interface's name on the first free ones.  Pairs are told apart as a whole.
routeResolveIDs(r, s, i) ==
    IF Pin[s][i] # 0 THEN Pin[s][i]
    ELSE IF r.auto[i] # 0 THEN r.auto[i]
    ELSE LET probe == [k \in 1 .. MaxId |-> ((HashOf[i] + k - 2) % MaxId) + 1]
         IN  probe[CHOOSE k \in 1 .. MaxId :
                    /\ probe[k] \notin usedIds(r)
                    /\ \A j \in 1 .. k - 1 : probe[j] \in usedIds(r)]

buildRouteState(r, s, spec) ==
    [mode |-> modeOf(spec), iface |-> spec,
     id |-> IF spec \in Ifaces THEN routeResolveIDs(r, s, spec) ELSE 0]

\* An id that was not pinned is the interface's for the sets that follow.
Resolved(r, s, st) ==
    IF IsIface(st) /\ Pin[s][st.iface] = 0 THEN [r EXCEPT !.auto[st.iface] = st.id] ELSE r

interfaceShareCount(r, n) ==
    Cardinality({s \in Sets : IsIface(r.cache[s]) /\ r.cache[s].id = n})

proxyActiveCount(r) == Cardinality({s \in Sets : r.cache[s] # None /\ r.cache[s].mode = Proxy})

----------------------------------------------------------------------------
(* Removing what a cached set owns. *)

DropChains(r, s) == [r EXCEPT !.chains = {c \in @ : c \notin OwnedChains(s, r.cache[s].mode)},
                              !.cache[s] = None]

routeCleanupRuleTwo(r, s) ==
    LET n == r.cache[s].id
        last == interfaceShareCount(r, n) <= 2
    IN  DropChains([r EXCEPT !.rules = IF last THEN @ \ {n} ELSE @,
                             !.routes[n] = IF last THEN None ELSE @], s)

\* The ip rule and the table of an interface go with its last set.
routeCleanupRule(r, s) ==
    LET n == r.cache[s].id
        last == interfaceShareCount(r, n) <= 1
    IN  DropChains([r EXCEPT !.rules = IF last THEN @ \ {n} ELSE @,
                             !.routes[n] = IF last THEN None ELSE @], s)

routeCleanupProxyRuleKeeps(r, s) == DropChains(r, s)

\* The ip rule of the mark goes, whoever else has that mark; the local route of the proxy
\* table goes with the last proxy set.
routeCleanupProxyRule(r, s) ==
    DropChains([r EXCEPT !.prules = @ \ {ProxyMark[s]},
                         !.local = @ /\ proxyActiveCount(r) > 1], s)

routeCleanupBlockRule(r, s) == DropChains(r, s)

routeCleanupAny(r, s) ==
    CASE r.cache[s].mode = Block -> routeCleanupBlockRule(r, s)
      [] r.cache[s].mode = Proxy -> routeCleanupProxyRule(r, s)
      [] OTHER -> routeCleanupRule(r, s)

----------------------------------------------------------------------------
(* Installing a set.  A failing command returns before the jumps, the ip rule and the
   route, with the first chain already made. *)

\* The rule is re-added; the default route waits for an interface that is absent.
routeEnsurePolicyRouting(r, st) ==
    [r EXCEPT !.rules = @ \cup {st.id},
              !.routes[st.id] = IF st.iface \in up THEN st.iface ELSE @]

WithChains(r, s, st) == [r EXCEPT !.chains = @ \cup OwnedChains(s, st.mode), !.cache[s] = st]

routeEnsureRule(r, s, st) == routeEnsurePolicyRouting(WithChains(r, s, st), st)

routeEnsureProxyRule(r, s, st) ==
    [WithChains(r, s, st) EXCEPT !.prules = @ \cup {ProxyMark[s]}, !.local = TRUE]

routeEnsureBlockRule(r, s, st) == WithChains(r, s, st)

EnsureAny(r, s, st) ==
    CASE st.mode = Block -> routeEnsureBlockRule(r, s, st)
      [] st.mode = Proxy -> routeEnsureProxyRule(r, s, st)
      [] OTHER -> routeEnsureRule(r, s, st)

EnsureFails(r, s, st) ==
    [r EXCEPT !.chains = @ \cup {IF st.mode = Block THEN <<s, "filter">> ELSE <<s, "pre">>}]

\* The part RoutingHandleDNS and RoutingSyncConfig share: rebuild the state of one set,
\* clean up a different old one, install what is not cached.
Refresh(r, s, spec, failing) ==
    LET st == buildRouteState(r, s, spec)
        r1 == Resolved(r, s, st)
        r2 == IF r1.cache[s] \notin {None, st} THEN routeCleanupAny(r1, s) ELSE r1
    IN  IF r2.cache[s] # None THEN r2
        ELSE IF s \in failing THEN EnsureFails(r2, s, st)
        ELSE EnsureAny(r2, s, st)

\* A loop over the sets in the order of the configuration.
ForEachSet(op(_, _), r) ==
    LET after[n \in 0 .. Len(SetSeq)] == IF n = 0 THEN r ELSE op(after[n - 1], SetSeq[n])
    IN  after[Len(SetSeq)]

\* Sync: clean up the sets no longer wanted, refresh the others in order, then rebuild
\* the interface ids from the cache, from whichever set of an interface comes first in
\* the map: what a sync may end in.
SyncOf(r, cfg, failing) ==
    LET unwanted(q, s) == IF q.cache[s] # None /\ cfg[s] = Off THEN routeCleanupAny(q, s) ELSE q
        wanted(q, s) == IF cfg[s] # Off THEN Refresh(q, s, cfg[s], failing) ELSE q
        done == ForEachSet(wanted, ForEachSet(unwanted, r))
        ids(i) == {done.cache[s].id : s \in {t \in Sets : /\ IsIface(done.cache[t])
                                                          /\ done.cache[t].iface = i}}
    IN  {[done EXCEPT !.auto = a] : a \in {f \in [Ifaces -> 0 .. MaxId] :
            \A i \in Ifaces : f[i] \in IF ids(i) = {} THEN {0} ELSE ids(i)}}

\* Installing a set fills its chains again.
Refilled == [s \in Sets |-> IF rt'.cache[s] = rt.cache[s] THEN lost[s] ELSE "no"]

\* The sets a sync installed anew are resolved by a goroutine; block sets are skipped.
NewJobs(before, after, cfg) ==
    {<<s, cfg[s]>> : s \in {t \in Sets : /\ cfg[t] \notin {Off, Block}
                                         /\ after.cache[t] # None
                                         /\ before.cache[t] # after.cache[t]}}

\* Lookups end at any time; the model follows at most one that is still under way.
Holding(new) == {jobs} \cup {{j} : j \in new}

----------------------------------------------------------------------------
(* Saving a configuration (http/handler/config.go): store it, then tproxy.SyncConfig,
   then RoutingSyncConfig, both with the configuration of this request. *)

Save(c) ==
    /\ events < MaxEvents
    /\ events' = events + 1
    /\ store' = c
    /\ syncs' = syncs \cup {[n |-> events', cfg |-> c, step |-> "listen"]}
    /\ UNCHANGED <<rt, listeners, jobs, tick, snap, up, msgs, pend, wiped, lost, lastListen,
                   lastRoute, residue, missed>>

\* Manager.SyncConfig: stop listeners no longer wanted, start the missing ones; a start
\* that fails is logged and the redirect is installed all the same.
SyncListeners(y, failing) ==
    /\ y \in syncs /\ y.step = "listen"
    /\ failing # {} => events < MaxEvents /\ \A s \in failing : y.cfg[s] = Proxy
    /\ events' = IF failing = {} THEN events ELSE events + 1
    /\ listeners' = LET want == {s \in Sets : y.cfg[s] = Proxy}
                    IN  (listeners \cap want) \cup (want \ failing)
    /\ lastListen' = IF failing = {} THEN y.cfg ELSE None
    /\ syncs' = (syncs \ {y}) \cup {[y EXCEPT !.step = "route"]}
    /\ UNCHANGED <<store, rt, jobs, tick, snap, up, msgs, pend, wiped, lost, lastRoute,
                   residue, missed>>

RoutingSyncConfig(y, failing) ==
    /\ y \in syncs /\ y.step = "route"
    /\ failing # {} => events < MaxEvents
    /\ events' = IF failing = {} THEN events ELSE events + 1
    /\ rt' \in SyncOf(rt, y.cfg, failing)
    /\ lost' = Refilled
    /\ jobs' \in Holding(NewJobs(rt, rt', y.cfg))
    /\ syncs' = syncs \ {y}
    /\ lastRoute' = y.cfg
    /\ residue' = IF failing = {} THEN residue ELSE residue \cup {"failed"}
    /\ UNCHANGED <<store, listeners, tick, snap, up, msgs, pend, wiped, lastListen, missed>>

\* The sync gives up: without the ip binary or a backend it first forgets the sets, when
\* the base cannot be ensured it leaves them.
Abandoned(r, forget) == IF forget THEN [r EXCEPT !.cache = NoCache, !.auto = NoAuto] ELSE r

SyncAbandoned(y, forget) ==
    /\ y \in syncs /\ y.step = "route"
    /\ events < MaxEvents
    /\ events' = events + 1
    /\ rt' = Abandoned(rt, forget)
    /\ syncs' = syncs \ {y}
    /\ lastRoute' = None
    /\ residue' = residue \cup {"failed"}
    /\ UNCHANGED <<store, listeners, jobs, tick, snap, up, msgs, pend, wiped, lost,
                   lastListen, missed>>

----------------------------------------------------------------------------
(* The pre-resolve goroutines. *)

\* The set is the one the goroutine was given, perhaps no longer configured.
RoutingHandleDNS(job, failing) ==
    /\ job \in jobs
    /\ failing # {} => events < MaxEvents
    /\ events' = IF failing = {} THEN events ELSE events + 1
    /\ rt' = Refresh(rt, job[1], job[2], failing)
    /\ lost' = Refilled
    /\ jobs' = jobs \ {job}
    /\ lastRoute' = IF store[job[1]] = job[2] THEN lastRoute ELSE None
    /\ residue' = IF failing = {} THEN residue ELSE residue \cup {"failed"}
    /\ UNCHANGED <<store, syncs, listeners, tick, snap, up, msgs, pend, wiped, lastListen,
                   missed>>

\* A lookup that fails is dropped, and so is one whose base cannot be ensured.
LookupFails(job) ==
    /\ job \in jobs
    /\ jobs' = jobs \ {job}
    /\ UNCHANGED <<store, syncs, rt, listeners, tick, snap, up, msgs, pend, wiped, lost,
                   lastListen, lastRoute, residue, events, missed>>

----------------------------------------------------------------------------
(* The monitor's routing half. *)

\* An interface that is present has its address, any other none.
routeGetIfaceAddr(i) == IF i \in up THEN "address" ELSE ""

snapshotRoutingIfaces(c) ==
    [i \in Ifaces |-> IF \E s \in Sets : c[s] = i THEN routeGetIfaceAddr(i) ELSE None]

routingIfacesChanged == \E i \in Ifaces : snap[i] \notin {None, routeGetIfaceAddr(i)}

\* Only the names of the chains are looked for, not the rules in them nor the jumps.
RoutingRulesPresent ==
    \A s \in Sets : rt.cache[s] # None => routeStateChains(s, rt.cache[s]) \subseteq rt.chains

TickStart ==
    /\ tick = Idle
    /\ tick' = [Idle EXCEPT !.step = "check", !.cfg = store]
    /\ UNCHANGED <<store, syncs, rt, listeners, jobs, snap, up, msgs, pend, wiped, lost,
                   lastListen, lastRoute, residue, events, missed>>

\* The sets of the loaded configuration the periodic re-resolve starts over.
RoutingPeriodicReResolve(c) ==
    {<<s, c[s]>> : s \in {t \in Sets : c[t] \notin {Off, Block} /\ rt.cache[t] # None}}

\* Restoring the main tables takes a new snapshot before the interfaces are compared.
TickQuiet ==
    /\ tick.step = "check"
    /\ LET base == IF wiped THEN snapshotRoutingIfaces(tick.cfg) ELSE snap
           first == \A i \in Ifaces : base[i] = None
       IN  /\ ~wiped => ~routingIfacesChanged
           /\ RoutingRulesPresent
           /\ snap' = IF first THEN snapshotRoutingIfaces(tick.cfg) ELSE base
    /\ jobs' \in Holding(RoutingPeriodicReResolve(tick.cfg))
    /\ tick' = Idle
    /\ wiped' = FALSE
    /\ UNCHANGED <<store, syncs, rt, listeners, up, msgs, pend, lost, lastListen, lastRoute,
                   residue, events, missed>>

\* RoutingForceResync first forgets everything, without touching the kernel ...
RoutingForceResync ==
    /\ tick.step = "check"
    /\ (~wiped /\ routingIfacesChanged) \/ ~RoutingRulesPresent
    /\ rt' = [rt EXCEPT !.cache = NoCache, !.auto = NoAuto]
    /\ tick' = [tick EXCEPT !.step = "resync", !.dropped = rt.cache]
    /\ missed' = {}
    /\ UNCHANGED <<store, syncs, listeners, jobs, snap, up, msgs, pend, wiped, lost,
                   lastListen, lastRoute, residue, events>>

\* ... and then, having let go of the lock, syncs the configuration the tick loaded.
TickResync(failing) ==
    /\ tick.step = "resync"
    /\ failing # {} => events < MaxEvents
    /\ events' = IF failing = {} THEN events ELSE events + 1
    /\ rt' \in SyncOf(rt, tick.cfg, failing)
    /\ lost' = Refilled
    /\ jobs' \in Holding(NewJobs(rt, rt', tick.cfg))
    /\ snap' = snapshotRoutingIfaces(tick.cfg)
    /\ lastRoute' = tick.cfg
    /\ residue' = residue \cup (IF \E s \in Sets : tick.dropped[s] \notin {None, rt'.cache[s]}
                                THEN {"forgotten"} ELSE {})
                         \cup (IF failing = {} THEN {} ELSE {"failed"})
    /\ tick' = Idle
    /\ wiped' = \E s \in Sets : /\ rt'.cache[s] # None
                                /\ ~(routeStateChains(s, rt'.cache[s]) \subseteq rt'.chains)
    /\ UNCHANGED <<store, syncs, listeners, up, msgs, pend, lastListen, missed>>

\* Its sync gives up, with nothing cached already.
TickAbandoned ==
    /\ tick.step = "resync"
    /\ events < MaxEvents
    /\ events' = events + 1
    /\ \E forget \in BOOLEAN : rt' = Abandoned(rt, forget)
    /\ snap' = snapshotRoutingIfaces(tick.cfg)
    /\ lastRoute' = None
    /\ residue' = residue \cup {"failed"}
    /\ tick' = Idle
    /\ UNCHANGED <<store, syncs, listeners, jobs, up, msgs, pend, wiped, lost, lastListen,
                   missed>>

----------------------------------------------------------------------------
(* Interfaces come and go; the kernel drops the routes of one that goes. *)

IfaceDown(i) ==
    /\ events < MaxEvents /\ i \in up
    /\ up' = up \ {i}
    /\ events' = events + 1
    /\ rt' = [rt EXCEPT !.routes = [n \in Ids |-> IF @[n] = i THEN None ELSE @[n]]]
    /\ UNCHANGED <<store, syncs, listeners, jobs, tick, snap, msgs, pend, wiped, lost,
                   lastListen, lastRoute, residue, missed>>

IfaceUp(i) ==
    /\ events < MaxEvents /\ i \notin up
    /\ up' = up \cup {i}
    /\ events' = events + 1
    /\ msgs' = msgs \cup {i}
    /\ UNCHANGED <<store, syncs, rt, listeners, jobs, tick, snap, pend, wiped, lost,
                   lastListen, lastRoute, residue, missed>>

InstalledOn(i) == \E s \in Sets : IsIface(rt.cache[s]) /\ rt.cache[s].iface = i

isWatchedIface(i) == \E s \in Sets : store[s] = i

\* An interface no set of the current configuration uses is ignored.
handleEvent(i) ==
    /\ i \in msgs
    /\ msgs' = msgs \ {i}
    /\ pend' = IF isWatchedIface(i) THEN pend \cup {i} ELSE pend
    /\ missed' = IF ~isWatchedIface(i) /\ InstalledOn(i) THEN missed \cup {i} ELSE missed
    /\ UNCHANGED <<store, syncs, rt, listeners, jobs, tick, snap, up, wiped, lost, lastListen,
                   lastRoute, residue, events>>

RoutingReinstallSkipped(r, ifaces) == {r}

\* The debounce timer fires: the policy routing of every cached set on a pending
\* interface that is still present, in any order (which shows when a pinned id is shared).
RoutingReinstallForInterface(r, ifaces) ==
    LET on(n) == {s \in Sets : /\ IsIface(r.cache[s]) /\ r.cache[s].id = n
                               /\ r.cache[s].iface \in ifaces \cap up}
        again == {n \in Ids : on(n) # {}}
        last(n) == IF n \in again THEN {r.cache[s].iface : s \in on(n)} ELSE {r.routes[n]}
    IN  {[r EXCEPT !.rules = @ \cup again, !.routes = f] :
            f \in {g \in [Ids -> Ifaces \cup {None}] : \A n \in Ids : g[n] \in last(n)}}

scheduleReinstall ==
    /\ pend # {}
    /\ rt' \in RoutingReinstallForInterface(rt, pend)
    /\ pend' = {}
    /\ missed' = missed \ (pend \cap up)
    /\ UNCHANGED <<store, syncs, listeners, jobs, tick, snap, up, msgs, wiped, lost,
                   lastListen, lastRoute, residue, events>>

----------------------------------------------------------------------------
(* Faults. *)

NothingLost == [s \in Sets |-> "no"]

LostNow(how) == [s \in Sets |-> IF rt.cache[s] # None THEN how ELSE lost[s]]

\* Another program removes the chains of the packet filter; ip rules and routes stay.
Wipe ==
    /\ events < MaxEvents
    /\ events' = events + 1
    /\ rt' = [rt EXCEPT !.chains = {}]
    /\ wiped' = TRUE
    /\ lost' = LostNow("removed")
    /\ UNCHANGED <<store, syncs, listeners, jobs, tick, snap, up, msgs, pend, lastListen,
                   lastRoute, residue, missed>>

\* Another program flushes the packet filter: the chains stay, with nothing in them and
\* no jump to them.
Flush ==
    /\ events < MaxEvents
    /\ events' = events + 1
    /\ wiped' = TRUE
    /\ lost' = LostNow("flushed")
    /\ UNCHANGED <<store, syncs, rt, listeners, jobs, tick, snap, up, msgs, pend, lastListen,
                   lastRoute, residue, missed>>

\* RoutingClearAll with the engine known (shutdown) cleans every cached set; with none
\* (start-up) it only removes chains by name.
RoutingClearAll(r, known) ==
    LET cleanup(q, s) == IF q.cache[s] # None THEN routeCleanupAny(q, s) ELSE q
        cleaned == IF known THEN ForEachSet(cleanup, r) ELSE r
    IN  [cleaned EXCEPT !.chains = {}, !.cache = NoCache, !.auto = NoAuto]

\* The process ends (cleanly or not) and starts again with the stored configuration.
Restart(clean) ==
    /\ events < MaxEvents
    /\ events' = events + 1
    /\ rt' = RoutingClearAll(RoutingClearAll(rt, clean), FALSE)
    /\ syncs' = {[n |-> 0, cfg |-> store, step |-> "listen"]}
    /\ listeners' = {} /\ jobs' = {} /\ msgs' = {} /\ pend' = {}
    /\ tick' = Idle
    /\ snap' = [i \in Ifaces |-> None]
    /\ wiped' = FALSE /\ lost' = NothingLost
    /\ lastListen' = None /\ lastRoute' = None
    /\ residue' = IF rt'.rules = {} /\ rt'.prules = {} /\ ~rt'.local THEN {} ELSE {"forgotten"}
    /\ missed' = {}
    /\ UNCHANGED <<store, up>>

----------------------------------------------------------------------------
Init ==
    /\ \E start \in Startup : store = start[1] /\ up = start[2]
    /\ syncs = {[n |-> 0, cfg |-> store, step |-> "listen"]}
    /\ rt = Empty
    /\ listeners = {} /\ jobs = {} /\ msgs = {} /\ pend = {}
    /\ tick = Idle
    /\ snap = [i \in Ifaces |-> None]
    /\ events = 0
    /\ wiped = FALSE /\ lost = NothingLost
    /\ lastListen = None /\ lastRoute = None
    /\ residue = {} /\ missed = {}

Failing(c) == {{}} \cup {{s} : s \in {t \in Sets : c[t] # Off}}

Next ==
    \/ \E c \in Configs : Save(c)
    \/ \E y \in syncs : \E f \in Failing(y.cfg) : SyncListeners(y, f)
    \/ \E y \in syncs : \E f \in Failing(y.cfg) : RoutingSyncConfig(y, f)
    \/ \E y \in syncs : \E forget \in BOOLEAN : SyncAbandoned(y, forget)
    \/ \E j \in jobs : \E f \in {{}, {j[1]}} : RoutingHandleDNS(j, f)
    \/ \E j \in jobs : LookupFails(j)
    \/ TickStart \/ TickQuiet \/ RoutingForceResync
    \/ tick.step = "resync" /\ \E f \in Failing(tick.cfg) : TickResync(f)
    \/ TickAbandoned
    \/ \E i \in Ifaces : IfaceDown(i)
    \/ \E i \in Ifaces : IfaceUp(i)
    \/ \E i \in Ifaces : handleEvent(i)
    \/ scheduleReinstall
    \/ Wipe \/ Flush
    \/ \E clean \in BOOLEAN : Restart(clean)

Spec == Init /\ [][Next]_vars

\* Every sync that was begun is carried through, the monitor's ticker ticks and a tick
\* ends, link messages and the debounce timer are delivered.  Each is told by the
\* variable that only its action moves on.
ListenerSyncEnds ==
    \E y \in syncs : y.step = "listen" /\ syncs' = (syncs \ {y}) \cup {[y EXCEPT !.step = "route"]}

RouteSyncEnds == \E y \in syncs : y.step = "route" /\ syncs' = syncs \ {y}

TickBegins == tick = Idle /\ tick' = [Idle EXCEPT !.step = "check", !.cfg = store]

TickChecks ==
    /\ tick.step = "check"
    /\ tick' \in {Idle, [tick EXCEPT !.step = "resync", !.dropped = rt.cache]}

TickEnds == tick.step = "resync" /\ tick' = Idle

MessageRead(i) == i \in msgs /\ msgs' = msgs \ {i}

TimerFires == pend # {} /\ pend' = {}

Fairness ==
    /\ WF_syncs(ListenerSyncEnds) /\ WF_syncs(RouteSyncEnds)
    /\ WF_tick(TickBegins) /\ WF_tick(TickChecks) /\ WF_tick(TickEnds)
    /\ \A i \in Ifaces : WF_msgs(MessageRead(i))
    /\ WF_pend(TimerFires)

FairSpec == Spec /\ Fairness

----------------------------------------------------------------------------
Quiet == syncs = {} /\ tick.step \in {"idle", "check"}

\* Sets that leave through different interfaces share a mark and table only if some set
\* pins that pair: an automatic id is given to one interface, whatever order the sets were
\* configured, resynced or looked up in, whichever names collide in the hash, and although
\* a rebuilt table of interface ids may hand a pinned id on (routeResolveIDs).
DistinctTables ==
    \A s, t \in Sets :
        IsIface(rt.cache[s]) /\ IsIface(rt.cache[t]) /\ rt.cache[s].iface # rt.cache[t].iface
            => rt.cache[s].id # rt.cache[t].id \/ rt.cache[s].id \in Pinned

\* Removing or moving one of several sets that share an id, a link flap and a resync leave
\* the others their ip rule and, once the interface is back and its event was handled,
\* their default route (interfaceShareCount, the link watcher); the exceptions are an
\* interface that came back while no stored set named it, whose event is ignored, and the
\* route of a pinned table, which the last interface to use it takes.
SharedPolicyKept ==
    \A s \in Sets :
        IsIface(rt.cache[s]) =>
            /\ rt.cache[s].id \in rt.rules
            /\ (/\ rt.cache[s].iface \in up \ (msgs \cup pend \cup missed)
                /\ rt.cache[s].id \notin Pinned)
                   => rt.routes[rt.cache[s].id] = rt.cache[s].iface

Desired(s) == store[s] # Off

\* Once every save has synced and the last one applied is the stored configuration, the
\* chains, ip rules, tables, local route and listeners are those of its sets and no
\* others (unless a resync or a failed command left state that no set owns); only the
\* route of a pinned table may be that of another interface, and only the ip rule of a
\* proxy set whose mark another set has may be gone.
ExactAfterSync ==
    (Quiet /\ residue = {} /\ ~wiped /\ lastRoute = store) =>
        /\ rt.chains = UNION {OwnedChains(s, modeOf(store[s])) : s \in {t \in Sets : Desired(t)}}
        /\ rt.rules = {rt.cache[s].id : s \in {t \in Sets : store[t] \in Ifaces}}
        /\ rt.prules \subseteq {ProxyMark[s] : s \in {t \in Sets : store[t] = Proxy}}
        /\ \A s \in Sets : store[s] = Proxy /\ OwnMark(s) => ProxyMark[s] \in rt.prules
        /\ rt.local = (\E s \in Sets : store[s] = Proxy)
        /\ \A n \in Ids : rt.routes[n] # None =>
               \E s \in Sets : /\ store[s] \in Ifaces /\ rt.cache[s].id = n
                               /\ n \notin Pinned => store[s] = rt.routes[n]
        /\ lastListen = store => listeners = {s \in Sets : store[s] = Proxy}

Installed(s) ==
    /\ rt.cache[s] # None /\ rt.cache[s].iface = store[s]
    /\ OwnedChains(s, rt.cache[s].mode) \subseteq rt.chains
    /\ store[s] \in up /\ rt.cache[s].id \notin Pinned =>
           rt.routes[rt.cache[s].id] = store[s]

\* When the saves, the interfaces and the faults come to rest, every configured set ends
\* up installed, with the rules of chains that were removed and the route of an interface
\* that is present, unless a command failed, an older configuration was applied last or
\* an interface came back unnoticed.  Chains that were flushed and not removed pass for
\* present (RoutingRulesPresent looks for names): their rules are not promised.
RulesReturn ==
    <>[]( \/ residue # {} \/ missed # {} \/ lastRoute # store
          \/ \A s \in Sets : Desired(s) => Installed(s) /\ lost[s] # "removed")

=============================================================================
