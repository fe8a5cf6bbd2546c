# b4: a verification project

b4 is a Go daemon for Linux routers and desktops. It takes packets from
netfilter queues (or a tun device), looks at the server name of each new
connection and rewrites the packets of the matching ones so that DPI does not
recognise them. Around the packet path it has a *discovery* service that
searches for a working strategy, a *watchdog* that starts discovery when a site
stops working, firewall and routing set-up, proxies, and a web interface.

This directory holds TLA+ modules for the parts of b4 with real control:
concurrent goroutines, shared state, timeouts, crashes and partial failure, and
for the packet algorithms whose boundaries are easy to get wrong. TLC checks
them on small instances; TLAPS proves the most important safety properties for
every value of the constants. `PROJECT.json` lists the components, runs,
mutants, the map from definitions to source lines, findings, hazards and
theorems. All paths below are relative to `src/src/`.

    tlc -config DiscoveryRuntime.cfg MCDiscoveryRuntime
    tlapm DiscoveryRuntimeProofs.tla

## 1. Inventory

| Component | State | Operations | Hard parts | Correct when |
|---|---|---|---|---|
| discovery runtime (`discovery/runtime.go`, `runner.go`) | one `runtimeState` (pool, wait group, active id, stopping), firewall rules, suite registry | Start, SetActiveSuiteID, launchSuite, Stop, CancelCheckSuite | Stop from the run itself, from a second caller, between the parts of StartSuite; partial failure of Start | one pool, rules follow the runtime, a run never loses its pool, always released |
| discovery search (`discovery/discovery.go`, `payloads.go`, `ttl.go`, `dns.go`, `preset.go`) | results per domain and preset, best preset, working families, groups | phases of RunDiscovery, finalize | cancel at any point, results replaced by later tests, parallel probes | the report is what the results say |
| discovery cache, history (`cache.go`, `history.go`) | two JSON files | AddEntry, evict, GetCachedPresets, AddFromSuite | capacity, replacement | the best entries are kept |
| watchdog (`watchdog/`) | status, failures and cooldown per domain, healing flag | tick, healBatch, ForceCheck, Stop, applyBatchResults | ticks, heal goroutine, user's search, edits and shutdown interleave; every error exit must undo the mark | no domain stuck, no search abandoned, repairs are real |
| escalation state (`nfq/connstate.go`) | escalations, RST kills, retransmit counts, blocked cache | SetEscalation, RecordRSTKill, Get, Cleanup, ResetEscalations | several workers, expiry, eviction, old pointers | a host stays on its chain and returns to its original set |
| packet handler (`nfq/handler.go`, `inc.go`, `verdict.go`, `nfq.go`) | connection tracker, TLS info cache | handlePacket, handleTCPPacket, HandleIncoming | reads config, matcher and trackers at different moments | each packet gets one verdict, from one configuration |
| worker pool (`nfq/pool.go`) | workers, atomic config and matcher pointers | NewPool, Start, Stop, UpdateConfig | stores are not atomic together | all workers end on the newest configuration |
| mutation, injection (`nfq/mutation.go`, `desync.go`, `combo.go`, ...) | none; a goroutine per packet | split, reorder, overlap, fake, mutate | offsets at the boundaries, loss, reordering and retransmission on the way | the server gets the client's bytes and no fake |
| packet builders (`sock/`) | none | headers, checksums | byte layout | - |
| SNI matcher (`sni/`) | suffix index, learned IPs | Match, LearnIPToDomain, transfer on reload | cache limits, reload | the most specific set wins |
| QUIC assembler (`quic/`) | CRYPTO fragments per connection | Feed, assemble | fragments out of order, duplicates, limits | reassembly equals the stream |
| DNS redirect and routing (`nfq/dns.go`, `dns_routing.go`) | pending queries | redirect, answer | lost answers, id reuse | an answer reaches its asker |
| tun source map (`nfq/tun_srcmap.go`) | NAT map | remember, lookup | eviction | replies find their source |
| firewall tables (`tables/iptables.go`, `nftables.go`) | rules in the kernel | Apply, Clear | partial failure, left-overs | Clear removes what Apply added |
| discovery steering rules (`tables/discovery_*.go`) | rules in the kernel | Apply, Clear | partial failure | see the runtime |
| tables monitor (`tables/monitor.go`, `link_watcher.go`) | last state seen | check, restore, Stop | restore against Clear | rules come back, and not after Stop |
| policy routing (`tables/routing*.go`) | ip rules, sets of learned IPs | sync, clear | reconfiguration | kernel state equals the desired one |
| tun engine (`tun/`) | device, routes, state file | start, cleanup, egress watch | crash between write and undo | a restart undoes what a crash left |
| configuration (`config/`) | file and in-memory copy | load, migrate, validate, save, sanitizeEscalation | migration chain, refused saves | what is installed was saved |
| HTTP API (`http/`) | sessions, config pointer | handlers, auth, hubs | a save stores, then syncs, without a common lock | the last save is the one in force |
| MTProto proxy (`mtproto/`) | secrets, tracked connections, websocket pool, cooldowns | accept, handshake, plan, dial, refill, relay, reload | reload against handshakes, shared cooldowns, half-closed relays | revoked clients are closed, the fallback is reached, no byte is lost, slots come back |
| SOCKS5 server (`socks5/`) | connections, UDP associations | accept, relay, Stop | a target stored after the association ended | idle sockets are closed |
| transparent proxy (`tproxy/`) | listeners, UDP sessions | reconcile, dispatch, reap, Stop | dispatch and reaper against Stop | listeners equal the configuration, no session is orphaned |
| capture manager (`capture/`) | capture files | start, save, delete | - | - |
| geodat (`geodat/`) | data files, schedule | download, update | refresh against readers | - |
| DHCP (`dhcp/`) | lease table | refresh loop | - | - |
| metrics, logs | counters, text | - | - | - |
| detector, netprobe, ai, tlsgen, stun, discord | none others depend on | probes and clients | - | - |
| startup and shutdown (`main.go`) | - | start order, saveFunc, shutdown | 10 s limit | everything stopped |
| web UI, installer, docs | - | - | - | not modelled |

How they interact:

- HTTP handlers and the watchdog call `Runtime.StartSuite`; the run's own
  goroutine, the watchdog's heal, a handler and the shutdown call
  `Runtime.Stop`. The suite registry is read by polling.
- The search changes the configuration of the *discovery* pool for every
  preset; the steering rules send only its marked probes to that pool.
- The watchdog polls the suite, takes its best presets and saves them through
  `saveFunc`, which calls `Pool.UpdateConfig` of the *main* pool.
- `Pool.UpdateConfig` replaces per worker the configuration and the matcher,
  then resets the escalation state all workers share.
- `handleTCPPacket` and `HandleIncoming` write the escalation state;
  `sanitizeEscalation` decides which chains exist.

- A save stores the configuration, then, without a common lock, refreshes the
  firewall rules, the proxy listeners and policy routing, and updates the pool;
  the tables monitor, the link watcher and late DNS lookups work on the same
  kernel state.
- The matcher learns addresses from connections and DNS answers; policy routing
  and later packets use them. `UpdateConfig` copies them into the new matcher.
- A set found by the matcher decides what the injection sends; the escalation
  state may replace it by a backup.
- The transparent listener hands Telegram connections to the MTProto bridge, and
  a SOCKS5 UDP association lives as long as its TCP connection.

`PROJECT.json` lists 40 hazards, each at the line where it bites.

## 2. What is modelled

### DiscoveryRuntime, DiscoveryLease

`DiscoveryRuntime` models `discovery.Runtime`, the suite registry and the life
of a run. A call `c` of StartSuite names the object, the suite and the
goroutine it creates. Each critical section of `m.mu` is one action.

| Model | Code |
|---|---|
| `StartBusy`, `StartApplyFails`, `StartPoolFails`, `Start` | outcomes of `Runtime.Start` |
| `SetActiveSuiteID`, `RegisterSuite`, `LaunchSuite`, `LaunchSkipped` | the rest of `StartSuite` |
| `RunCheck`, `RunSetRunning`, `RunFinalize`, `RunDone` | `RunDiscovery` in its goroutine |
| `StopReturnsEarly`, `StopBegin`, `StopCancel`, `StopWait`, `StopPool`, `StopClearRules`, `StopEnd` | `Runtime.Stop` |
| `CancelCheckSuite`, `DeleteSuite` | `runner.go`, the timer in `finalize` |

The errors of `ClearDiscoverySteeringRules` are ignored by its callers, so after it
the rules are gone or partly left (`Cleared`). Not modelled: a restore by the
nftables monitor rebuilds the table `b4_mangle` that also holds the steering rules
(monitor.go:113-121), which can take them from a running search.

`DiscoveryLease` is the promise: one holder at a time, searches join only an
open lease, a lease ends only after its searches.

### DiscoverySearch

One run of `RunDiscovery` from its first look at the cancel channel to the
strategy groups: DNS, cached presets, baseline, payloads, strategies, verdict,
extended search, optimisation of each family on a representative domain,
combinations, report. A cancel can come at any moment. A preset is tested by a
`...Next` action (begin), `ProbesReturn` (the probes of all domains have
ended) and a `...Stored` action (the results are kept, and what the loop does
with them).

Left out: the packets a preset makes, payload knowledge, the counters of checks,
the contents of cache and history. DNS probing is summarised as clean, some
domain poisoned, or all blocked; these exclude each other because `Probe`
returns before it can set both flags. Ties that the code breaks by priority and
name are left open. `RunDiscovery`'s failure without a configuration is left
out: a pool that started has workers. The position and TTL searches of one
family store several names of one kind; the model has one name, `Probe`, for
them, shared by the families as `ttl-search-N` is.

### Watchdog

The tick goroutine, the heal goroutine, the suite the heal starts, a user's
search, the handlers that edit the list, and Stop. Time is one flag per domain
(the cooldown is in the future); which domains are due is open. The runtime
appears as the lease of `DiscoveryLease`. `applyBatchResults` is modelled by its
outcome, saved or not. StartSuite of the heal either fails or launches; that a
Stop can slip in between is a question of `DiscoveryRuntime`.

### Escalation

One host, its escalation entry, RST kills, and per connection the retransmit
count, the blocked cache and the tracked set, with the parts of
`handleTCPPacket` and `HandleIncoming` that touch them, at the granularity of
locks and atomic loads, and `Pool.UpdateConfig` store by store. A set pointer is
a version and an id, so an old pointer stays old. Expired entries disappear when
they expire, because no reader looks at one. Other hosts appear as `Evict`. Left
out: sets with block or proxy routing (the handler returns first), thresholds
per set, the SYN path. The order in which UpdateConfig reaches the workers is
open. A configuration gives the host one base set (`HelloMatch`); in the code the
matched set also depends on device, TLS version, port and address while the entry
is kept by host (connstate.go:269), so an entry made under one set also moves
packets that match another. The readers of the entry in the packet path, for TCP
and UDP, are in `SetMatching`.

### Firewall

The iptables and nftables managers with their three callers: start-up and
shutdown, the refresh after a save, and the tables monitor. A call is the
sequence of external commands the code issues, and each command is a step, so
calls overlap, fail and are cut off by a kill between any two. A rule is a name
in its chain, with its place; rules of one shape that are installed one after
the other are one rule, and so are those of the two address families. A
configuration has its settings: engine, mark, whether connections are marked,
devices, masquerading, duplication and clamps.

| Model | Code |
|---|---|
| `MarkRules` | the rules whose text has the mark in it, the CONNMARK rule among them |
| `buildManifest`, `buildMSSManifest`, `buildMasqueradeManifest`, `iptApply`, `iptClear` | the manifests and what `Apply` and `Clear` do with them |
| `nftApply`, `nftApplyMasquerade`, `nftApplyMSSClamp`, `nftClear` | the same for nftables |
| `AddRules`, `ClearRules` | the engine detected from the configuration in each call |
| `SysctlApply`, `SysctlRevert` | the saved sysctl values |
| `Without` | the deletion loop of `delAll` |
| `CommandFails`, `Ignored`, `ManifestFails` | a command that fails, where its error is ignored, and `buildManifest` without iptables or connbytes |
| `StoreConfig`, `PerformSoftRestart`, `Refresh`, `RefreshTimesOut` | a save, which of them refresh, and the refresh that gives up because a search runs |
| `checkRules`, `Tick` | `monitor.go`, with the engine it was created with (`backend`) |
| `Start`, `Shutdown`, `PoolStartFails` | `main.go` |

The phase "leaving" is a shutdown whose clear gave up. `dirty` and `mixed` remember
that calls overlapped; `dirty` also that a call failed or that a change was stored
which asks for no refresh. Nothing in the code prevents these, and the properties
say which promise survives them.

Not modelled: the masquerade-only, clamp-only and conntrack-sysctl entry points
(common.go:65-131), the ipsets of duplication, `skip_setup`, IPv6 switched on or
off by itself.

### Routing

`routeRuleCache`, the ids, the kernel's chains, ip rules and tables, the
listeners, the monitor with its snapshot of interfaces, the link watcher, and
the lookups that still hold a set. Every `Routing*` call holds `routeMu` and is
one action. `residue` says why kernel state may remain that no set owns (a failed
command, a forced resync that forgot its owner), and `missed` which interfaces
came back while the stored configuration named no set on them but a set was still
installed there: the link watcher ignores such an event (link_watcher.go:134). The
loops over the sets are `ForEachSet`, in the order of the configuration. The
contents of address sets are left out; both hashes collide in the instance.

A set may pin the mark and table of an interface (`Pin`); a proxy set's ip rule is
that of its mark (`ProxyMark`), a hash of the set's id that two sets may share and
that no share count protects. A sync or resync may give up early
(`SyncAbandoned`, `TickAbandoned`: no `ip` binary, no backend, no base), and `ensure` may fail in
a sync, in a resync and after a lookup. A wipe removes b4's chains; a flush leaves
them empty. `lost` remembers which of the two happened to a set's rules, because
`RoutingRulesPresent` only looks for the names. Abstracted: the mask of the fwmark is
taken as exact, and the hashed names of the chains as different for different sets.
Lookups come from the pre-resolve of a sync and from the periodic one.

### ClientHello, Injection

`ClientHello` keeps a hello as the lengths of its parts and gives the parsers
(`locateSNI`, `findPreSNIExtensionPoint`, the matcher's parser) and every mutation
mode. `Injection` gives each strategy as the set of packet sequences it may send:
where each packet starts, which of its bytes are invented, its TTL and whether
its checksum or timestamp is spoiled. The state is the network and the server's
TCP: packets of one goroutine leave in order, those of two in any order, one loss
or reordering, one retransmission; the server drops what its checks reject, keeps
segments ahead of the window's edge, and prefers the bytes it has. The receiver is
an assumption about the other end, marked external in the map. The IPv6 copies of
the code are definitions of their own where they differ. A strategy pool gives every
packet one of its members, so a retransmission may be cut in another way. A fake
with a random sequence number starts anywhere, also in the window. A split beyond
the end of the payload panics, which ends the goroutine's packets (`crashed`).

### Tun

The kernel as the engine changes it (default routes by metric, tables, rules,
NAT, capture chain, `rp_filter`), the state file, the manager's fields and the
list of commands still to do; every command is a step. A kill, an uplink or
address change and a foreign flush fall between any two. `Start` after a kill
reads the state file and clears stale artefacts. `os.WriteFile` truncates and then
writes. Settings pick the capture mode, a pinned uplink, metrics and the events.
One step each are the commands of `setupBypassTable` before its route (flush and
rules, whose errors are only logged) and those of an ensure, jump or chain function. An uplink
has one gateway and always an address, so a change of the gateway alone and the
guards against an empty source do not occur; writing `rp_filter` does not fail.

### MsgSplit, ProxyConns, UdpRelays, Proxies

`ProxyConns` is the life of a TCP connection through the MTProto server, the
transparent listener with its Telegram bridge or the SOCKS5 server: handshake,
choice and attempts of transports, relay, end; with the server's secrets, live
reload, the pools of WebSocket connections and the shared cooldowns. `MsgSplit` is
the splitter on real byte values. `UdpRelays` is the listener's session table or a
SOCKS5 association's sockets. `Proxies` composes them: an association opens and
ends with its TCP connection.

The number of the data centre comes from the client; in one behaviour all clients ask
for the same: one with a WebSocket edge, one that only has addresses, or none that
exists (`dc` is "edge", "listed" or "unknown"). With `v6` a data centre has two TCP
addresses. Only the MTProto and SOCKS5 servers limit connections, and only WebSocket
upstreams split messages. Where an association closes a socket and deletes its key,
the two are one step: no other task can tell the difference.

### RouteGates, SetMatching

`SetMatching` is the way of a packet to its set: the worker loads the
configuration, then the matcher; TCP, UDP and DNS handlers ask for name, address,
learned address and port in the order of the code; connections and answers teach
addresses; `UpdateConfig` builds a matcher, transfers what was learned and stores
configuration and matcher one after the other. Then an escalated host's set replaces
the one that matched, if the loaded configuration has it enabled (`EscalatedTo`,
`Decide`); the entry is set and cleared at any time and reset at the end of
`UpdateConfig`. The candidates for a name or an
address are a set of records, each with its place in the list of sets, which is
all the code's slices are used for. `RouteGates` is the device gate the
firewall rules of a routed set implement.

## 3. Runs

| Run | Instance | Checks |
|---|---|---|
| `runtime` | 2 StartSuite calls, 2 other Stop callers | OnePool, RulesFollowRuntime, ImplementsLease, RuntimeReleased, RunRetired |
| `runtime_one_search` | 3 calls, 2 stoppers | OneSearch is violated |
| `search` | 2 domains, 2 families, speeds 0..2, at most 2 successes of bypass presets | BestIsFastest, NoBypassChecked, GroupsCover |
| `watchdog_safety` | 2 domains, 2 retries, 1 user event | EscalatingHasHealer, NoOrphanSearch, HealthyIsRepaired, NoHealInCooldown |
| `watchdog_live` | 1 domain, 2 retries, 3 user events | HealTerminates, StopReturns |
| `escalation` | 1 worker, 3 sets, 2 configurations, 3 hops | OnChain, RetriesOriginal |
| `firewall` | 4 configurations, 2 for each engine, changes of mark and engine, 2 of wipe, crash, failure, save, 1 preemption | RestoredExactly, ClearLeavesNothing, SysctlReverted, WipedRulesReturn |
| `routing` | 2 sets, 2 interfaces, 5 configurations, a pinned id, an interface present or not at the start, 2 events | DistinctTables, SharedPolicyKept, ExactAfterSync, RulesReturn |
| `packets` | 88 settings, 9 hellos, 3 datagrams, 1 fault, 1 retransmission | StreamIntact, NothingMissing, FakesStop, HelloIntact |
| `tun` | 2 uplinks, 9 settings with their events | CleanStop, DefaultSurvives, FollowsDefault |
| `proxies` | 2 connections, 3 pools, 2 sessions, 2 datagrams, 15 settings | RevokedClosed, FallbackReached, BytesKept, NoOrphanSession, SlotReturned, IdleSessionsEnd |
| `matching` | 10 sets in 4 configurations, 19 packets of which 3 arrive, 1 update | DevicesRespected, LearnedCurrent, GatesAgree |

Every property of a passing run has a mutant in `PROJECT.json`: a small change
of the model, of the kind a slip in the code would make, under which TLC finds
the property violated.

What the newer properties say:

- *RulesFollowRuntime*: a live runtime has its rules and its pool; without one the
  rules were cleared, as far as the commands succeeded.
- *RestoredExactly*: when the calls are over and the monitor is content, every
  chain of the engine in use holds exactly the rules of the configuration, once and
  in order, unless calls overlapped or failed since the last lone clear, or a change
  asked for no refresh. The CONNMARK rule of an earlier mark and the clamps in
  FORWARD are left aside. *ClearLeavesNothing*: a shutdown that nothing overlapped
  and none of whose commands failed leaves neither rule nor chain in the engine of
  the configuration it ends with, that CONNMARK rule again excepted. *SysctlReverted*:
  nor b4's sysctl values, wherever earlier processes were killed. *WipedRulesReturn*:
  when another program empties a built-in chain or a table between calls, the rules
  come back, unless a command fails or a change was not refreshed.
- *DistinctTables*, *SharedPolicyKept*: sets on different interfaces share a table
  only if some set pins it; sets on one interface share its table, and the first to
  leave does not take it along; a link that comes back gets its route again, unless
  its event was ignored (`missed`). *ExactAfterSync*: chains, rules, tables and
  listeners are those of the stored sets. *RulesReturn*: in the end every configured
  set is installed, with the rules of chains that were removed; rules flushed from
  chains that stayed are not promised.
- *StreamIntact*: the server delivers no invented byte, unless a whole fake got past
  its checks. *FakesStop*: which happens only in the settings `Unguarded` lists.
  *NothingMissing*: the server gets every real byte, and only the tls strategy on a
  payload of five bytes panics. *HelloIntact*: a mutated hello is well formed and
  keeps the client's extensions.
- *DefaultSurvives*: the host keeps or gets back a default route, or an error was
  logged. *CleanStop*: Stop undoes everything. *FollowsDefault*: a route event
  leads to the new uplink without the ticker.
- *RevokedClosed*: no client stays connected with a revoked secret.
  *FallbackReached*: in auto mode nobody is turned away before every TCP address of
  the data centre was tried; a number of no data centre has none.
  *BytesKept*: neither the bridge's fail-open nor the splitter loses or reorders a
  byte. *NoOrphanSession*: every open socket is in someone's hands. *SlotReturned*,
  *IdleSessionsEnd*: connections and sessions that are over are released.
- *DevicesRespected*: the matcher finds a set bound to devices only for theirs, by
  address, name, learned domain or DNS; a set found by its ports alone and the set an
  escalated host was moved to are not claimed. *LearnedCurrent*: no learned address
  leads to a set its configuration does not have. *GatesAgree*: firewall gate and
  matcher admit the same devices.

### Why the bounds are enough

- *runtime*: the races are between one StartSuite, the next one and a Stop that
  belongs to neither; two calls and two stoppers give every pair, with the two
  stops deferred in the runs beside them. `Calls` and `Stoppers` bound only how
  often something is called.
- *search*: `MaxSpeed` = 2 is the least at which "50 % faster" and "80 % of the
  baseline" differ. `MaxSuccesses` = 2 allows a success to be replaced, two
  domains to need different presets and two families to work. One reordering of
  phase 1 is enough: no property looks at the order. With two domains two groups
  cannot overlap unless a domain is counted twice; for more domains there is the
  theorem.
- *watchdog*: two domains are needed for a batch with mixed results. `MaxEvents`
  bounds only what users do. Failures saturate at MaxRetries and successes at
  the number of domains, which is all the code compares them with.
- *escalation*: three sets make a chain with a middle; two configurations, one
  with a shorter chain, make one stale. TTL and Window of 0 let an entry expire
  at any tick. One worker suffices for the hop cap; the interleavings of several
  workers are the theorem `StaysOnChain`.
- *firewall*: the two configurations of an engine differ in mark, devices, masquerading,
  duplication and clamps, so a left-over of one shows in the other; two of the changes
  are of the engine, one with a refresh and one without. IPv6 is not varied. Two events
  give a crash or a failure with a wipe or a save on top; `MaxSwitches` = 1 preempts a
  call once at any command, which is where an overlap can start. An event of each kind
  happens once.
- *routing*: two sets are the least that share a policy; both interface names
  hash to one id, one set pins the id the second of them gets, and `MaxId` = 4 is
  the number of interfaces and sets. Two events are a save
  or interface change with a fault or a second save.
- *packets*: split points depend on lengths only, and the hellos put each at its
  boundary: name first, last, absent, cut, shorter than the thresholds of the
  strategies, exactly the record header and one byte more, one with no room left in
  the packet. What stops a fake is taken on both sides of its limit: TTL at the
  distance and one above, the offset at the length of the fake and one below, 11 and
  12 window values. One fault and one
  retransmission make every pair of segments meet in the wrong order. Settings
  vary one feature at a time around the defaults. A shuffle of other extensions is
  followed in two orders.
- *tun*: two uplinks, each with one change of address; each setting has the events
  that interact with it, up to two kills and three starts.
- *proxies*: one shared cooldown needs two clients; a restart during a refill needs
  two pools; an orphan needs two sessions of one key. A data centre without an edge
  has two addresses, an unknown one none; messages are cut with lengths of one byte
  and of four. Endings and updates are bounded by the setting.
- *matching*: three packets are one that teaches, one of another device and one
  after the update; `LearnedLimit` = 2 makes the cache overflow.

Deadlock is not checked where the instance bounds what the environment does
(firewall, routing, packets, tun, proxies, matching): these systems stop when
nothing more happens to them.

### Fairness

The Go scheduler runs every goroutine that can step, hence weak fairness of the
steps inside StartSuite, of a run, of a teardown, of the tick and of the heal;
a probe has a timeout, so a run and a suite end. Callers of Start, Stop and
cancel, users, and packets owe nothing, so no fairness is assumed for them
(except the Stop a run defers). In `Escalation` only time is fair. In `Firewall`,
`Routing` and `Tun` commands return, a save goes on to its sync, tickers and
timers fire and messages are read; saves, links, wipes and kills owe nothing. In
`Proxies` every connection handler and every UDP goroutine has a deadline or a
closed socket that wakes it.

### What the violation shows

`runtime_one_search`: `changelog.md` says that a new search waits until the
previous one has stopped. A Stop with an empty id between Start and launchSuite
tears the first object down; the second StartSuite replaces it and both
goroutines are launched into it.

### Known divergences

Found while modelling, most of them reached by TLC with a property that is not
kept as a run. The properties above are stated so that they hold beside them.

- Search: a cancel before the baseline probes leaves no baseline result;
  `allBaselineWorks` (discovery.go:327) is still true and the log says "Verified:
  no DPI bypass needed for any domain".
- Watchdog: the early cancel (watchdog.go:285) counts successful checks, several
  per domain, and logs that strategies were found for all domains.
- Escalation: the retransmit count outlives the switch it caused (handler.go:487),
  so one connection can walk past a backup no packet was sent through, while
  `docs/docs/sets/escalation.md` says the chain is walked as each one fails. An
  old connection's RST can move a host from the third set back to the second; an
  RST threshold of 1 acts like 2.
- Runtime: a second Stop returns while the first still waits; a failed
  `pool.Start` leaves the pool's cleanup goroutine and DHCP manager; a suite whose
  launch was skipped stays pending.
- Firewall: the nftables global MSS clamp stands behind the set rules that end
  traversal (nftables.go:482; `docs/docs/settings/core.md:199` says all port 443
  traffic). `checkRules` accepts a lost clamp in FORWARD and does not look at
  per-set clamps. Overlapping nftables calls can leave a mixture the monitor
  accepts. When `pool.Start` fails (main.go:327) the rules stay. Disabling IPv6
  leaves the IPv6 rules. A changed `Mark` leaves the CONNMARK rule of the old one: its
  text has the mark in it (iptables.go:601-609) and the sweep only looks at ACCEPT
  lines (iptables.go:912-914). A changed engine leaves the rules of the old one, since
  each call detects the engine anew (common.go:32, 50, 215), and the monitor keeps the
  engine it was created with (monitor.go:50). Changes of engine, devices and
  duplication ask for no refresh (config.go:468-530). `Clear` gives up before it has
  removed or reverted anything when the manifest cannot be built (iptables.go:783-787),
  and a refresh when a search does not end (main.go:181-183). The monitor accepts a
  partly applied manifest and does not look into the B4 chain.
- Routing: `RoutingRulesPresent` looks for the names of the chains only
  (routing.go:441-526), so a flush that keeps them (`iptables -t mangle -F`) is never
  repaired, while `docs/docs/settings/core.md:54` says that b4 restores deleted rules;
  sets on different interfaces that pin one id share its table (routing.go:1072-1074,
  `docs/docs/sets/routing.md:191`), whose route the last of them takes; two proxy sets
  whose ids hash to one mark (tproxy/port.go:12) share an ip rule, and the first to
  leave removes it; `RoutingForceResync` (routing.go:528) forgets removed sets, whose rules
  then stay (`docs/docs/sets/routing.md:196` says every rule is removed); two saves
  can apply their configurations in the other order (http/handler/config.go:453);
  a failed `ensure` is not retried before the next sync; a late lookup can
  reinstall a removed set; an interface that comes back while the stored
  configuration names no set on it is ignored (link_watcher.go:134) although the
  sync that removes its sets may still be ahead, and when a later save names the
  interface again before that sync, the cache is found equal and the default route
  stays away (until the monitor sees a change).
- Packets: the tls strategy panics on a TLS payload of exactly five bytes, the
  record header, which it cuts at six (tls.go:28-44, 80-96); a fake of strategy
  `randseq` with `SeqOffset` 0 has a random sequence number that may fall into the
  window (fake_ipv4.go:73-76, fake_ipv6.go:76-79), and an offset shorter than the fake
  lets its end reach in; with several fakes and `tcp_check` only the first keeps its bad
  checksum (nfq.go:448); "md5sum" has no case in fake_ipv4.go; window values beyond
  the eleventh wrap the TTL (win.go:82); mode `full` drops the real server_name
  (mutation.go:215; `docs/docs/sets/tcp/faking.md:204`); mutation changes the length
  without adjusting later sequence numbers; with a mutation that draws random
  bytes a retransmission mixes two hellos (handler.go:566).
- Tun: a flushed capture chain stays empty, since `ensurePortCapture` only creates
  it (capture.go:286; `docs/docs/settings/core.md:54`); an uplink change between
  reading and replacing the default route is lost (route.go:424); a kill between
  two commands can leave the client-mark NOTRACK rule or `rp_filter` (cleanup.go:44,
  route.go:275); `refreshEgress` drops the metric.
- Proxies: a client that asks for a data centre that does not exist is refused in
  auto mode with TCP never planned (obfuscated2.go:224-227, dc.go:276-278); disabling
  the MTProto proxy keeps its secrets, so a handshake in flight
  still relays (server.go:508); after a start that failed on invalid secrets,
  correcting them does not restart it (server.go:488); a refill that ends while its
  pool closes leaks a connection (wspool.go:322); accept loops spin when the
  process is out of descriptors (server.go:570, socks5/server.go:140); an old
  reply loop or reader may close a newer session of its key (listener_udp.go:191,
  udp.go:224).
- Matching: sets with only ports ignore their devices (match.go:230), although
  `docs/docs/sets/targets.md:50, 63` describes the device filter for every set; the
  set an escalated host was moved to replaces the matching one without a look at its
  devices (handler.go:396-411, 682-697), and for whatever set the host's packet
  matched; of two sets
  with one pattern or one network only one is found (match.go:118, 161); only the
  nearest matching suffix is considered (match.go:615); for UDP the learned domain
  goes before the QUIC name (handler.go:617) although `docs/docs/sets/index.md:93`
  says the domain always has priority; what a worker learns into the old matcher
  after the transfer is lost; a reused port in `tun_srcmap.go` keeps its old device
  for five minutes.

## 4. Proofs

All theorems hold for every value of the constants allowed by the named
assumptions of the module. Each is proved by an inductive invariant, an `Init`
lemma, a step lemma with one case per action, and a temporal step by PTL.

- `DiscoveryRuntimeProofs`: TypeCorrect, OnePoolAlways, OneTeardownAlways,
  RulesFollow, RunsKeepRuntime, LeaseRefinement, from `NamesAssumption`. None of
  the properties is inductive: OnePool needs to know which stage of a teardown
  the object in `state` is in, RunHasRuntime that nothing is added to the wait
  group of a stopping object. `IndInv` says that any teardown under way is that
  of the current object, and for each stage what is left of the pool and rules.
- `EscalationProofs`: TypeCorrect, StaysOnChain, EnabledSetsOnly, KillsActedOn
  (for thresholds of at least 2), NeverBackToBase (one configuration). The
  invariant adds that a set pointer held by a worker or a connection is a set of
  this host in an installed version, which is what makes OnChain survive old
  pointers. `AcyclicAssumption` is what `sanitizeEscalation` guarantees; only
  NeverBackToBase uses it.
- `DiscoverySearchProofs`: TypeCorrect, NoBypassIsChecked, GroupsAlwaysCover,
  BestAlwaysFastest, for any finite set of domains and any lists of presets. `Types`
  adds that the baseline is under test in its own phase only and that the family
  being optimised is still in the list. `CheckInv` says what `allBaselineWorks`
  means while nobody has canceled. `GroupInv` says that each group built is at
  least as wide as any cover of the domains that remain, which gives the order
  and, with disjointness from the rest, the cover. BestIsFastest is about the ways
  to `finalize` that do not pass `determineBest` after the last result. `CachedOnce`
  says that a cached preset still to be tested has no result, so that until a cancel
  ends the loop `storeResult` alone keeps a fastest one (`Leads`); `OwnNames` that
  the extended search adds only failures under names of its own while it finds no
  family, which changes nothing. Both rest on `NamesAssumption`: cached presets are
  numbered, and no name of phase 2 is one of phase 1 (`preset.go`).
- `DiscoveryRuntimeProofs`, second part: WatchTypeCorrect, EscalatingAlwaysHasHealer,
  NeverOrphanSearch, HealthyOnlyRepaired, NeverHealInCooldown (for at least two retries)
  of `Watchdog`, one of the callers of the runtime, for any finite set of domains.
  `WatchInv` adds that the healing flag is up exactly while there is a heal goroutine
  (`HealerShape`), that a running search is being polled (`RunningPolled`), that the
  heal gives up without unmarking only when the watchdog stops (`QuitOnStop`), that its
  last step knows which repairs were saved (`FinishKnowsSaved`) and that a domain in its
  cooldown counts its failures from zero again (`CoolingStartsOver`), which is why one
  more failure is not enough.
- `ProxiesProofs`: NeverOrphanSession, RevokedAlwaysClosed, FallbackAlwaysReached,
  for any clients, secrets, keys, sessions and tasks. For the sessions, `UdpInv`
  says who has which socket in hand (`Hands`), how the listener's context and its
  stop go together (`Context`), that nothing is put into the table after Stop
  emptied it (`Emptied`), and who will close an open socket: for a listener its
  holder, for an association its own reader (`OpenHeld`). For the clients, `Phase`
  in `ServerOK` says how far a start, stop or reload is and which secrets are in
  force there, `Swept` that a connected client has a stored secret or is still in
  the way of the sweep, and `TcpAhead` in `ConnsOK` that the plan of a client under
  way still holds every TCP address of its data centre that was not tried.
- `SetMatchingProofs`: DevicesAlwaysRespected, LearnedAlwaysCurrent,
  GatesAlwaysAgree, for any sets, configurations, packets and limits. `Inv` says
  that every matcher, old or new, has learned only sets of its own configuration
  and that every set the matcher may find was offered to its device; what escalation
  puts in its place is no part of it. First
  places exist because a non-empty set of numbers has a least one.
- `RoutingProofs`: TablesAlwaysDistinct, SharedPolicyAlwaysKept, ExactlyAfterSync, for
  any number of sets and interfaces, any hash, any pins and any configurations, provided
  there are at least as many ids as interfaces and sets (`IdsSuffice`; the code has 150
  tables, and with more interfaces than that it does hand one out twice). `RT` is what
  every `Routing*` call keeps: each installed interface set has an id whose ip rule is
  in place (`OwnId`), an id that no set pins is given to one interface and used by its
  sets only (`OneIface`), and the default route of an installed set is in place for the
  interfaces that are live, but in a pinned table (`Routed`). `FreeId` is the pigeonhole
  argument that `routeResolveIDs` always finds a number; `LoopStays` carries what one
  round of a loop keeps through the whole loop. For ExactlyAfterSync, `ExactInv` says
  that what the cached sets own is there (`Redirected`, and all of a set's chains or,
  after a wipe, none: `Whole`), that while nothing is left behind there is nothing else
  (`NoStray`), what the forgotten sets still own between the two halves of a resync
  (`Forgotten`), and that once no save waits the cache and the listeners are those of
  the stored configuration (`Applied`). It needs that no configuration is the value
  standing for "none" (`ConfigsAssumption`).
- `TunProofs`: DefaultAlwaysSurvives and StopAlwaysClean, for any uplinks, addresses,
  settings and numbers of events (`SettingsAssumption`). `Basics` is about the commands
  still to come in `w.pc`: which ones a phase issues, which never follow which
  (`Sequenced`), which bring others or are issued under which settings (`Prepared`), and
  what the manager knows by then (`Managed`). For DefaultSurvives, `RouteSaved` says
  that once setup has read the default route it is in the manager and, before the route
  is replaced, in the state file, torn or whole; `Survives` that a default route through
  an uplink is there, or the engine captures it and has it saved, or a restore from the
  file is to come, or an error was logged; `ClearsAll` what the clean-up of a killed run
  has still to do. For CleanStop, `StopInv` says that until a kill the manager remembers
  what it changed (`Owned`), at rest nothing is there (`Pristine`), a start has not yet
  loosened what `loosen` will and captures ports only after its last fallible command
  (`Starting`), a refresh restores before it forgets (`Serving`), and in a teardown
  whatever is still there has its command to come (`Undoing`).
- `FirewallProofs`: SysctlAlwaysReverted, ClearAlwaysLeavesNothing, for any
  configurations, engines and changes between them (`SettingsAssumption`). The first
  half is about the calls as command sequences: in every one the value is set only after
  it was saved and forgotten only after it was restored (`Neat`). `CallsInv` adds who may
  be in a call in which phase, and `Saved` says that until calls overlap the snapshot
  never holds b4's value and b4's value never stands without a snapshot. For the second,
  `KernelInv` says which rules may stand in which chain, `Clearing` that what the
  commands of a lone clear have taken so far stays away, and `ClearTakesAll` that every
  rule that may stand in a chain of the engine cleared is swept by some command of the
  clear, whatever configuration installed it, the CONNMARK rule of another mark apart,
  and every b4 chain dropped when no jump names it any more. `SweepLeaves` is the loop
  of `Without`.

Parts of the model were reshaped so that they can be reasoned about, with the same
reachable states as before: the candidates of `SetMatching`, the loops of `Routing`, the
deletion loop of `Firewall` and its reference `FreshRules` are recursive functions, and
the SNAT rules of `Tun` a set, since `ensureSNAT` never adds one twice. The proof of
SharedPolicyKept failed at first for a good reason: with four events instead of two TLC
reaches a state in which it was false, the ignored link event listed under the known
divergences. The model now has `missed`, and the property says where it does not promise
a route; in return it no longer asks that all saves have been applied.

Only model-checked: liveness (it needs fairness); RestoredExactly, which compares whole
chains with what a reference computes command by command, for every manifest, mark and
engine; BytesKept, StreamIntact, NothingMissing, FakesStop and HelloIntact, which are
about what recursive operators and folds on sequences compute for every input, an
induction over data that the provers cannot do. RunHasRuntime, OneTeardown,
UsesEnabledSet and KillsBelowThreshold are proved and no longer checked by a run.

## 5. Plan

The modules keep to what TLAPS can use: no RECURSIVE operators, constants with
named assumptions, invariants as conjunctions of named parts.

The safety properties are proved, but for the six just named. What would come next:

1. The packet builders of `Injection` and the relay of `ProxyConns`: their five
   invariants need a prover that can instantiate the induction theorems of the library,
   or a reformulation in which no packet's contents are computed by recursion.
2. RestoredExactly, with an invariant that says for each manifest how far its commands
   have come.
3. More of the parts that `PROJECT.json` lists as partly modelled.

## 6. Not modelled, and why

Byte layouts and checksums (`sock/`), rule text, TLS and DNS encoding, QUIC
decryption and the assembler around it: no control, or cryptography. Metrics,
logs, capture files, the web UI, installers: nothing depends on them. The clients
of external services (detector, ai, stun, geodat's downloads): their answers only
inform a user or end in a save, which is modelled. The loading, migration and
validation of the configuration are sequential text processing; the table of
presets (`discovery/preset.go`) is data. Authentication and the CRUD handlers of
the web interface keep no state the packet path uses. `config` appears in every
module as the set of configurations it is checked with.
