------------------------------ MODULE ProxyConns ------------------------------
(***************************************************************************)
(* The TCP side of b4's proxies: the MTProto server with its secrets, its  *)
(* pool of WebSocket connections and its live reload; the transparent      *)
(* listener with the Telegram bridge; the SOCKS5 server.  A connection is  *)
(* accepted, goes through a handshake, finds an upstream and is relayed    *)
(* until one side ends; meanwhile UpdateConfig swaps secrets and restarts  *)
(* the listener, and the pool is refilled in the background.               *)
(***************************************************************************)
EXTENDS Naturals, Sequences, FiniteSets, FiniteSetsExt, SequencesExt, MsgSplit

CONSTANTS
    Conns,      \* slots for client connections, 1 to a bound
    Secrets,    \* identities of secrets: ID and key
    Fresh,      \* the secret that is generated when none is configured
    None,       \* nil
    Settings,   \* what is enabled, how the network behaves, what may happen
    Pools,      \* generations of the pool
    Domains,    \* domains of the CF balancer
    Frame       \* length of the first frame a Telegram client sends

ASSUME FrameHoldsTag == Frame \in Nat /\ Frame > 4

ASSUME SettingsAssumption ==
    \A x \in Settings : /\ x.kind \in {"mt", "bridge", "tproxy", "socks5"}
                         /\ x.dc \in {"edge", "listed", "unknown"}
                         /\ x.udp \in {"none", "tproxy", "socks5"} /\ x.datagrams \in Nat
                         /\ {x.first} \cup x.configs \subseteq
                                [enabled : BOOLEAN, on : SUBSET (Secrets \cup {Fresh}), invalid : BOOLEAN,
                                 disabled : BOOLEAN, fakeSNI : BOOLEAN, rest : Nat]

ASSUME DomainsFinite == IsFiniteSet(Domains)

VARIABLES
    set,        \* the setting of this behaviour
    cfg,        \* s.cfg
    srv,        \* the MTProto server
    upd,        \* what UpdateConfig has still to do, with s.mu held
    pool,       \* the pools of WebSocket connections
    conn,       \* the connections
    cool,       \* cooldowns and the blacklist, shared by server and bridge
    left        \* updates, connections and endings of a side that may still come

vars == <<set, cfg, srv, upd, pool, conn, cool, left>>

NoConn == [kind |-> None, pc |-> "none", sec |-> None, seen |-> {}, tracked |-> FALSE,
           open |-> FALSE, gone |-> FALSE, pool |-> None, mode |-> None, plans |-> <<>>, ws |-> 0, red |-> 0,
           up |-> None, relay |-> None, dirs |-> {}, silent |-> FALSE, read |-> 0, sent |-> 0,
           refused |-> FALSE, untried |-> {}, viaWS |-> FALSE, stream |-> NoStream]

NoPool == [cancelled |-> FALSE, idle |-> <<>>, refill |-> "no", need |-> 0, hand |-> FALSE]

Set(c, r) == conn' = [conn EXCEPT ![c] = r]

At(c, pc) == conn[c].pc = pc

-----------------------------------------------------------------------------
(* Transports to a data centre *)

IsWS(t) == t \notin {"tcp", "tcp6"}

\* The data centre is the client's choice, one for all clients of a behaviour: a
\* blacklist, a cooldown and a pinned domain belong to one data centre.  DC 2 and 4
\* have an edge of Telegram's, the listed ones have addresses, any other number none;
\* a relay stands for all of them.
wsEdgeServesDC == set.dc = "edge"

ResolveDCAll(c) ==
    CASE set.relay /\ conn[c].kind = "mt" -> <<"tcp">>
      [] ~(set.relay /\ conn[c].kind = "mt") /\ set.dc = "unknown" -> <<>>
      [] OTHER -> IF set.v6 THEN <<"tcp6", "tcp">> ELSE <<"tcp">>

\* Addresses that timed out lately are left out.
appendTCP(c) ==
    LET one(t) == IF Contains(ResolveDCAll(c), t) /\ t \notin cool.tcp THEN <<t>> ELSE <<>>
    IN  one("tcp6") \o one("tcp")

\* The pinned domain first, the rest in any order; those that answered 429 or
\* 503 lately are left out, unless nothing is left.
domainsForDC ==
    LET of(D) == {(IF cool.pin \in D THEN <<cool.pin>> ELSE <<>>) \o s : s \in SetToSeqs(D \ {cool.pin})}
        all == Domains \cup {cool.pin}
    IN  IF all \ cool.cf # {} THEN of(all \ cool.cf) ELSE of(all)

\* Telegram's own edges, the workers that reach a listed address, the custom domain.
edgesForDC(c) ==
    (IF wsEdgeServesDC /\ conn[c].kind # "bridge" THEN <<"kws", "kws-1">> ELSE <<>>)
    \o (IF set.worker /\ set.dc # "unknown" THEN <<"worker">> ELSE <<>>)
    \o (IF set.custom THEN <<"custom">> ELSE <<>>)

\* Mutant: nothing else is planned for a data centre on the blacklist.
planTransportsBlacklistEnds(c) ==
    LET tcp == appendTCP(c)
        ws == {edgesForDC(c) \o d : d \in IF set.cf THEN domainsForDC ELSE {<<>>}}
    IN  CASE conn[c].mode \in {"tcp", ""} -> {tcp}
          [] conn[c].mode \in {"ws", "auto"} /\ cool.black -> {<<>>}
          [] conn[c].mode = "ws" /\ ~cool.black -> ws
          [] conn[c].mode = "auto" /\ ~cool.black -> {s \o tcp : s \in ws}

planTransports(c) ==
    LET tcp == appendTCP(c)
        ws == IF cool.black THEN {<<>>}
              ELSE {edgesForDC(c) \o d : d \in IF set.cf THEN domainsForDC ELSE {<<>>}}
    IN  CASE conn[c].mode \in {"tcp", ""} -> {tcp}
          [] conn[c].mode = "ws" -> ws
          [] conn[c].mode = "auto" -> {IF set.relay /\ conn[c].kind = "mt" THEN tcp \o s ELSE s \o tcp : s \in ws}

\* A cooldown only shortens the dial, so that a slow edge fails.
Connects(t, outcome) == outcome = "ok" \/ (outcome = "slow" /\ ~(IsWS(t) /\ cool.ws))

wsRecordSuccess(t) ==
    [cool EXCEPT !.black = FALSE, !.ws = FALSE, !.pin = IF t \in Domains \cup {"custom"} THEN t ELSE @]

tcpRecordSuccess(t) == [cool EXCEPT !.tcp = @ \ {t}]

wsRecordFailure(allRedirect) == [cool EXCEPT !.black = @ \/ allRedirect, !.ws = TRUE]

\* What a failed attempt leaves behind.
AttemptFailed(t, outcome) ==
    CASE t \in Domains \cup {"custom"} /\ outcome = "limited" -> [cool EXCEPT !.cf = @ \cup {t}]
      [] ~IsWS(t) /\ outcome = "timeout" -> [cool EXCEPT !.tcp = @ \cup {t}]
      [] OTHER -> cool

\* An address in cooldown counts as tried: it timed out lately.
Plan(c) ==
    /\ At(c, "plan")
    /\ \E p \in planTransports(c) : Set(c, [conn[c] EXCEPT !.pc = "dial", !.plans = p,
                                                            !.untried = Range(ResolveDCAll(c)) \ cool.tcp])
    /\ UNCHANGED <<set, cfg, srv, upd, pool, cool, left>>

\* One transport of the plan; "reset" stands for a connection that is made and
\* fails when the handshake is written to it.
Attempt(c) ==
    /\ At(c, "dial") /\ conn[c].plans # <<>>
    /\ \E outcome \in set.net[Head(conn[c].plans)] :
         LET t == Head(conn[c].plans)
             count == IF IsWS(t) /\ outcome # "reset" THEN 1 ELSE 0
         IN  IF Connects(t, outcome)
             THEN /\ Set(c, [conn[c] EXCEPT !.pc = "stat", !.up = "live", !.viaWS = IsWS(t), !.plans = <<>>])
                  /\ cool' = IF IsWS(t) THEN wsRecordSuccess(t) ELSE tcpRecordSuccess(t)
             ELSE /\ Set(c, [conn[c] EXCEPT !.plans = Tail(@), !.untried = @ \ {t}, !.ws = @ + count,
                                            !.red = @ + (IF outcome = "redirect" THEN count ELSE 0)])
                  /\ cool' = AttemptFailed(t, outcome)
    /\ UNCHANGED <<set, cfg, srv, upd, pool, left>>

DialObfuscatedFails(c) ==
    /\ At(c, "dial") /\ conn[c].plans = <<>>
    /\ Set(c, [conn[c] EXCEPT !.pc = "untrack", !.refused = TRUE])
    /\ cool' = IF conn[c].ws > 0 THEN wsRecordFailure(conn[c].red = conn[c].ws) ELSE cool
    /\ UNCHANGED <<set, cfg, srv, upd, pool, left>>

Expire ==
    /\ \/ cool' = [cool EXCEPT !.black = FALSE]
       \/ cool' = [cool EXCEPT !.ws = FALSE]
       \/ cool' = [cool EXCEPT !.tcp = {}]
       \/ cool' = [cool EXCEPT !.cf = {}]
    /\ cool' # cool
    /\ UNCHANGED <<set, cfg, srv, upd, pool, conn, left>>

-----------------------------------------------------------------------------
(* The pool of WebSocket connections *)

newWSPool(p) == [pool EXCEPT ![p] = [NoPool EXCEPT !.refill = "start"]]

\* get drops what is dead or too old and takes the first that is left; a refill
\* is scheduled unless one is running.  The pool is for data centres with an edge.
PoolGet(c) ==
    /\ At(c, "get")
    /\ LET p == conn[c].pool
           q == IF p = None THEN NoPool ELSE pool[p]
           usable == {i \in DOMAIN q.idle : q.idle[i] = "live"}
       IN  IF p = None \/ cool.black \/ ~wsEdgeServesDC
           THEN /\ Set(c, [conn[c] EXCEPT !.pc = "plan"])
                /\ UNCHANGED pool
           ELSE /\ Set(c, IF usable = {} THEN [conn[c] EXCEPT !.pc = "plan"]
                          ELSE [conn[c] EXCEPT !.pc = "pooled", !.up = "live"])
                /\ pool' = [pool EXCEPT ![p].idle = IF usable = {} THEN <<>>
                                                    ELSE SubSeq(q.idle, Min(usable) + 1, Len(q.idle)),
                                       ![p].refill = IF @ = "no" THEN "start" ELSE @]
    /\ UNCHANGED <<set, cfg, srv, upd, cool, left>>

\* completeObfuscation on the pooled connection, then liveNow.
Pooled(c) ==
    /\ At(c, "pooled")
    /\ \E ok \in BOOLEAN :
         IF ok /\ conn[c].up = "live"
         THEN /\ Set(c, [conn[c] EXCEPT !.pc = "stat", !.viaWS = TRUE])
              /\ cool' = [cool EXCEPT !.black = FALSE, !.ws = FALSE]
         ELSE /\ Set(c, [conn[c] EXCEPT !.pc = "plan", !.up = None])
              /\ UNCHANGED cool
    /\ UNCHANGED <<set, cfg, srv, upd, pool, left>>

RefillStart(p) ==
    /\ pool[p].refill = "start"
    /\ LET need == set.target - Len(pool[p].idle)
       IN  pool' = [pool EXCEPT ![p] = IF @.cancelled \/ cool.black \/ need <= 0 THEN [@ EXCEPT !.refill = "no"]
                                       ELSE [@ EXCEPT !.refill = "dial", !.need = need]]
    /\ UNCHANGED <<set, cfg, srv, upd, conn, cool, left>>

\* One result of the parallel dials.  A connection that arrives after close is
\* closed; between this look at the context and the append there is no lock.
RefillResult(p) ==
    /\ pool[p].refill = "dial" /\ pool[p].need > 0 /\ ~pool[p].hand
    /\ \E ok \in BOOLEAN :
         pool' = [pool EXCEPT ![p].need = @ - 1, ![p].hand = ok /\ ~pool[p].cancelled]
    /\ UNCHANGED <<set, cfg, srv, upd, conn, cool, left>>

RefillAppend(p) ==
    /\ pool[p].hand
    /\ pool' = [pool EXCEPT ![p].idle = Append(@, "live"), ![p].hand = FALSE]
    /\ UNCHANGED <<set, cfg, srv, upd, conn, cool, left>>

RefillDone(p) ==
    /\ pool[p].refill = "dial" /\ pool[p].need = 0 /\ ~pool[p].hand
    /\ pool' = [pool EXCEPT ![p].refill = "no"]
    /\ UNCHANGED <<set, cfg, srv, upd, conn, cool, left>>

\* Telegram closes an idle connection.
IdleDies(p) ==
    /\ \E i \in DOMAIN pool[p].idle :
         /\ pool[p].idle[i] = "live"
         /\ pool' = [pool EXCEPT ![p].idle[i] = "dead"]
    /\ UNCHANGED <<set, cfg, srv, upd, conn, cool, left>>

-----------------------------------------------------------------------------
(* The MTProto server: start, stop, reload *)

Err == [err |-> TRUE, secrets |-> {}]

\* Valid secrets that are enabled; all of them disabled locks everyone out; none
\* configured makes one.
buildSecrets(k) ==
    CASE k.on # {} -> [err |-> FALSE, secrets |-> k.on]
      [] k.on = {} /\ k.invalid -> Err
      [] k.on = {} /\ ~k.invalid /\ k.disabled -> [err |-> FALSE, secrets |-> {}]
      [] k.on = {} /\ ~k.invalid /\ ~k.disabled /\ ~k.fakeSNI -> Err
      [] OTHER -> [err |-> FALSE, secrets |-> {Fresh}]

mtprotoNeedsRestart(old, new) == old.enabled # new.enabled \/ old.rest # new.rest \/ old.fakeSNI # new.fakeSNI

mtprotoSecretsChanged(old, new) ==
    old.on # new.on \/ old.invalid # new.invalid \/ old.disabled # new.disabled

stopLocked == <<"cancel pool", "clear pool", "unlisten">>

startLocked == <<"build", "listen", "store", "victims", "close", "pool", "serve">>

\* Mutant: connections are closed before the new secrets are visible.
reloadSecretsClosingFirst == <<"build", "victims", "close", "store">>

reloadSecretsLocked == <<"build", "store", "victims", "close">>

Start ==
    /\ set.kind = "mt" /\ ~srv.started
    /\ srv' = [srv EXCEPT !.started = TRUE]
    /\ upd' = IF cfg.enabled THEN startLocked ELSE <<>>
    /\ UNCHANGED <<set, cfg, pool, conn, cool, left>>

UpdateConfig(new) ==
    /\ srv.started /\ upd = <<>> /\ left.updates > 0 /\ new # cfg
    /\ left' = [left EXCEPT !.updates = @ - 1]
    /\ cfg' = new
    /\ upd' = IF mtprotoNeedsRestart(cfg, new)
              THEN (IF srv.running THEN stopLocked ELSE <<>>)
                   \o (IF new.enabled THEN startLocked
                       ELSE IF cfg.enabled THEN <<"victims of all", "close">> ELSE <<>>)
              ELSE IF srv.running /\ mtprotoSecretsChanged(cfg, new) THEN reloadSecretsLocked ELSE <<>>
    /\ UNCHANGED <<set, srv, pool, conn, cool>>

\* closeRevokedConns takes its victims under the lock and closes them after it.
closeRevokedConns(allowed) == {c \in Conns : conn[c].tracked /\ conn[c].sec \notin allowed}

NextPool == Cardinality({p \in Pools : pool[p] # NoPool}) + 1

\* One step of start, stop or reload.
Locked ==
    /\ upd # <<>>
    /\ LET s == Head(upd)
           go == upd' = Tail(upd)
           failed == upd' = IF srv.running THEN <<>> ELSE <<"victims of all", "close">>
       IN  CASE s = "cancel pool" ->
                  /\ go
                  /\ pool' = IF srv.pool = None THEN pool ELSE [pool EXCEPT ![srv.pool].cancelled = TRUE]
                  /\ UNCHANGED <<srv, conn, cool, cfg>>
             [] s = "clear pool" ->
                  /\ go
                  /\ pool' = IF srv.pool = None THEN pool ELSE [pool EXCEPT ![srv.pool].idle = <<>>]
                  /\ srv' = [srv EXCEPT !.pool = None]
                  /\ UNCHANGED <<conn, cool, cfg>>
             [] s = "unlisten" ->
                  /\ go
                  /\ srv' = [srv EXCEPT !.running = FALSE]
                  /\ UNCHANGED <<pool, conn, cool, cfg>>
             [] s = "build" ->
                  /\ IF buildSecrets(cfg).err THEN failed ELSE go
                  /\ srv' = [srv EXCEPT !.built = buildSecrets(cfg).secrets]
                  /\ cfg' = [cfg EXCEPT !.on = IF buildSecrets(cfg).secrets = {Fresh} THEN {Fresh} ELSE @]
                  /\ UNCHANGED <<pool, conn, cool>>
             [] s = "listen" ->
                  /\ go \/ (set.portBusy /\ failed)
                  /\ UNCHANGED <<srv, pool, conn, cool, cfg>>
             [] s = "store" ->
                  /\ go
                  /\ srv' = [srv EXCEPT !.secrets = srv.built]
                  /\ UNCHANGED <<pool, conn, cool, cfg>>
             [] s \in {"victims", "victims of all"} ->
                  /\ go
                  /\ srv' = [srv EXCEPT !.victims = closeRevokedConns(IF s = "victims" THEN srv.built ELSE {})]
                  /\ UNCHANGED <<pool, conn, cool, cfg>>
             [] s = "close" ->
                  /\ go
                  /\ conn' = [c \in Conns |-> IF c \in srv.victims THEN [conn[c] EXCEPT !.open = FALSE] ELSE conn[c]]
                  /\ srv' = [srv EXCEPT !.victims = {}]
                  /\ UNCHANGED <<pool, cool, cfg>>
             [] s = "pool" ->
                  /\ go
                  /\ cool' = IF set.mode = "tcp" THEN cool ELSE [cool EXCEPT !.black = FALSE, !.ws = FALSE, !.tcp = {}]
                  /\ pool' = IF set.mode = "tcp" THEN pool ELSE newWSPool(NextPool)
                  /\ srv' = [srv EXCEPT !.pool = IF set.mode = "tcp" THEN None ELSE NextPool]
                  /\ UNCHANGED <<conn, cfg>>
             [] s = "serve" ->
                  /\ go
                  /\ srv' = [srv EXCEPT !.running = TRUE]
                  /\ UNCHANGED <<pool, conn, cool, cfg>>
    /\ UNCHANGED <<set, left>>

-----------------------------------------------------------------------------
(* A connection up to its upstream *)

Used == {c \in Conns : conn[c].pc # "none"}

First == [mt |-> "secrets", bridge |-> "head", tproxy |-> "upstream", socks5 |-> "auth"]

\* Over the limit of the two servers the connection is closed at once; the
\* transparent listener has none.
acceptLoop(c) ==
    /\ c = Min({d \in Conns : At(d, "none")} \cup {Cardinality(Conns) + 1}) /\ left.conns > 0
    /\ set.kind = "mt" => srv.running
    /\ set.kind \in {"mt", "socks5"} => Cardinality(Used) < set.limit
    /\ left' = [left EXCEPT !.conns = @ - 1]
    /\ Set(c, [NoConn EXCEPT !.kind = set.kind, !.pc = First[set.kind], !.open = TRUE,
                             !.mode = IF set.kind = "bridge" THEN "auto" ELSE set.mode])
    /\ UNCHANGED <<set, cfg, srv, upd, pool, cool>>

\* A step of the connection's handler that touches nothing else.
Handler(c, from, to) ==
    /\ At(c, from)
    /\ conn' = [conn EXCEPT ![c] = to]
    /\ UNCHANGED <<set, cfg, srv, upd, pool, cool, left>>

loadSecrets(c) ==
    Handler(c, "secrets", IF srv.secrets = {} THEN [conn[c] EXCEPT !.pc = "untrack"]
                          ELSE [conn[c] EXCEPT !.pc = "hello", !.seen = srv.secrets])

\* The secret is one of those loaded before; a stranger is shown the masking site.
AcceptFakeTLSMulti(c) ==
    \E k \in Secrets \cup {Fresh, None} :
        Handler(c, "hello",
                IF k \in conn[c].seen /\ ~conn[c].gone THEN [conn[c] EXCEPT !.pc = "track", !.sec = k]
                ELSE IF cfg.fakeSNI THEN [conn[c] EXCEPT !.pc = "mask"] ELSE [conn[c] EXCEPT !.pc = "untrack"])

trackConn(c) == Handler(c, "track", [conn[c] EXCEPT !.tracked = TRUE, !.pc = "active"])

secretActive(c) ==
    Handler(c, "active", [conn[c] EXCEPT !.pc = IF conn[c].sec \in srv.secrets THEN "frame" ELSE "untrack"])

\* The frame is bad, late or never comes; or it names the data centre.
AcceptObfuscated(c) ==
    \E ok \in BOOLEAN :
        Handler(c, "frame", IF ok /\ conn[c].open /\ ~conn[c].gone
                            THEN [conn[c] EXCEPT !.pc = "get", !.pool = srv.pool]
                            ELSE [conn[c] EXCEPT !.pc = "untrack"])

proxyToMaskingDomain(c) ==
    \E ok \in BOOLEAN :
        Handler(c, "mask", IF ok THEN [conn[c] EXCEPT !.pc = "relay", !.relay = "mask", !.up = "live",
                                                      !.dirs = {"up", "down"}]
                           ELSE [conn[c] EXCEPT !.pc = "untrack"])

\* Mutant: the bytes of a short frame are counted from its fifth.
BridgeHandleShort(c) ==
    /\ At(c, "head")
    /\ \E n \in 0..Frame, good, reserved \in BOOLEAN :
           LET r == [conn[c] EXCEPT !.read = IF n >= 4 /\ reserved THEN 4 ELSE n]
           IN  Handler(c, "head",
                   CASE n = 0 -> [r EXCEPT !.pc = "untrack"]
                     [] n = Frame /\ good /\ ~reserved -> [r EXCEPT !.pc = "plan"]
                     [] n >= 4 /\ n < Frame /\ ~reserved -> [r EXCEPT !.pc = "worker", !.sent = n - 4]
                     [] OTHER -> [r EXCEPT !.pc = "worker", !.sent = r.read])

\* Four bytes are read, then the rest of the frame; whatever is not a frame of
\* a known data centre goes on to the original address with all that was read.
BridgeHandle(c) ==
    /\ At(c, "head")
    /\ \E n \in 0..Frame, good, reserved \in BOOLEAN :
           LET r == [conn[c] EXCEPT !.read = IF n >= 4 /\ reserved THEN 4 ELSE n]
           IN  Handler(c, "head",
                   CASE n = 0 -> [r EXCEPT !.pc = "untrack"]
                     [] n = Frame /\ good /\ ~reserved -> [r EXCEPT !.pc = "plan"]
                     [] OTHER -> [r EXCEPT !.pc = "worker", !.sent = r.read])

FailOpenViaWorker(c) ==
    \E ok \in BOOLEAN :
        Handler(c, "worker", IF ok /\ set.worker
                             THEN [conn[c] EXCEPT !.pc = "relay", !.relay = "conns", !.up = "live",
                                                  !.dirs = {"up", "down"}]
                             ELSE [conn[c] EXCEPT !.pc = "direct"])

\* Greeting, password and CONNECT at the upstream succeed or fail.
clientConnect == BOOLEAN

\* The listener of a routing set dials the SOCKS5 upstream.
DialUpstream(c) ==
    \E ok \in clientConnect :
        Handler(c, "upstream", IF ok THEN [conn[c] EXCEPT !.pc = "relay", !.relay = "pipe", !.up = "live",
                                                          !.dirs = {"up", "down"}]
                               ELSE [conn[c] EXCEPT !.pc = IF set.failOpen THEN "direct" ELSE "untrack"])

failOpenDirect(c) ==
    \E ok \in BOOLEAN :
        Handler(c, "direct", IF ok THEN [conn[c] EXCEPT !.pc = "relay", !.relay = "pipe", !.up = "live",
                                                        !.dirs = {"up", "down"}]
                             ELSE [conn[c] EXCEPT !.pc = "untrack"])

authenticate(c) ==
    \E ok \in BOOLEAN :
        Handler(c, "auth", [conn[c] EXCEPT !.pc = IF ok /\ ~conn[c].gone THEN "request" ELSE "untrack"])

\* CONNECT, UDP ASSOCIATE, or a reply that refuses.
handleRequest(c) ==
    \E pc \in {"connect", "associate", "untrack"} :
        Handler(c, "request", [conn[c] EXCEPT !.pc = IF conn[c].gone THEN "untrack" ELSE pc])

\* Refused for an address the packet handler marked as blocked.
handleConnect(c) ==
    \E ok \in BOOLEAN :
        Handler(c, "connect", IF ok THEN [conn[c] EXCEPT !.pc = "relay", !.relay = "pipe", !.up = "live",
                                                         !.dirs = {"up", "down"}]
                              ELSE [conn[c] EXCEPT !.pc = "untrack"])

\* The association lasts as long as its TCP connection.
AssociateEnds(c) ==
    /\ conn[c].gone
    /\ Handler(c, "associate", [conn[c] EXCEPT !.pc = "untrack"])

-----------------------------------------------------------------------------
(* Relaying *)

\* Only what goes into WebSocket frames is cut.
StartRelay(c) ==
    Handler(c, "stat", [conn[c] EXCEPT !.pc = "relay", !.relay = "conns", !.dirs = {"up", "down"},
                                       !.stream = IF conn[c].viaWS THEN newMsgSplitter(set.proto, set.stream) ELSE NoStream])

ReadClient(c) ==
    /\ At(c, "relay") /\ "up" \in conn[c].dirs
    /\ \E n \in 1..Len(conn[c].stream.todo) :
         Set(c, [conn[c] EXCEPT !.stream = split(@, n)])
    /\ UNCHANGED <<set, cfg, srv, upd, pool, cool, left>>

\* A direction ends when its read fails: the side it reads is closed.
DirEnds(c, d) ==
    /\ At(c, "relay") /\ d \in conn[c].dirs
    /\ d = "up" => conn[c].gone \/ ~conn[c].open
    /\ d = "down" => conn[c].up # "live"
    /\ Set(c, [conn[c] EXCEPT !.dirs = @ \ {d}, !.stream = IF d = "up" THEN flush(@) ELSE @])
    /\ UNCHANGED <<set, cfg, srv, upd, pool, cool, left>>

\* Or when what it read cannot be written.
WriteFails(c, d) ==
    /\ At(c, "relay") /\ d \in conn[c].dirs
    /\ d = "up" => conn[c].up # "live"
    /\ d = "down" => conn[c].gone \/ ~conn[c].open
    /\ Set(c, [conn[c] EXCEPT !.dirs = @ \ {d}])
    /\ UNCHANGED <<set, cfg, srv, upd, pool, cool, left>>

\* Mutant: only the client's side is closed.
relayConnsHalf(c) ==
    /\ conn[c].relay \in {"conns", "mask"} /\ Cardinality(conn[c].dirs) = 1 /\ conn[c].open
    /\ Handler(c, "relay", [conn[c] EXCEPT !.open = FALSE])

\* The first direction that ends closes both sides; pipe waits for both.
relayConns(c) ==
    /\ conn[c].relay \in {"conns", "mask"} /\ Cardinality(conn[c].dirs) = 1
    /\ conn[c].open \/ conn[c].up # "closed"
    /\ Handler(c, "relay", [conn[c] EXCEPT !.open = FALSE, !.up = "closed"])

\* The reaper of relayConns.
Reap(c) ==
    /\ conn[c].relay = "conns" /\ set.idle /\ conn[c].silent
    /\ conn[c].open \/ conn[c].up # "closed"
    /\ Handler(c, "relay", [conn[c] EXCEPT !.open = FALSE, !.up = "closed"])

RelayOver(c) ==
    /\ conn[c].dirs = {}
    /\ Handler(c, "relay", [conn[c] EXCEPT !.pc = "untrack"])

untrack(c) == Handler(c, "untrack", [conn[c] EXCEPT !.tracked = FALSE, !.up = None, !.pc = "close"])

\* The slot is free again.
Finish(c) ==
    /\ At(c, "close")
    /\ Set(c, NoConn)
    /\ srv' = [srv EXCEPT !.victims = @ \ {c}]
    /\ UNCHANGED <<set, cfg, upd, pool, cool, left>>

\* The client closes, the server side closes, or both fall silent.
Ending(c, r) ==
    /\ left.endings > 0
    /\ left' = [left EXCEPT !.endings = @ - 1]
    /\ Set(c, r)
    /\ UNCHANGED <<set, cfg, srv, upd, pool, cool>>

ClientLeaves(c) ==
    /\ conn[c].pc \notin {"none", "close"} /\ ~conn[c].gone
    /\ Ending(c, [conn[c] EXCEPT !.gone = TRUE])

UpstreamCloses(c) ==
    /\ conn[c].up = "live"
    /\ Ending(c, [conn[c] EXCEPT !.up = "dead"])

FallsSilent(c) ==
    /\ At(c, "relay") /\ ~conn[c].silent
    /\ Ending(c, [conn[c] EXCEPT !.silent = TRUE])

-----------------------------------------------------------------------------
Init ==
    /\ set \in Settings
    /\ cfg = set.first
    /\ srv = [started |-> FALSE, running |-> FALSE, secrets |-> {}, built |-> {}, pool |-> None, victims |-> {}]
    /\ upd = <<>>
    /\ pool = [p \in Pools |-> NoPool]
    /\ conn = [c \in Conns |-> NoConn]
    /\ cool = [black |-> FALSE, ws |-> FALSE, tcp |-> {}, cf |-> {}, pin |-> CHOOSE d \in Domains : TRUE]
    /\ left = set.left

\* What the program itself always gets on with.
Progress(c) ==
    \/ Plan(c) \/ Attempt(c) \/ DialObfuscatedFails(c) \/ PoolGet(c) \/ Pooled(c)
    \/ loadSecrets(c) \/ AcceptFakeTLSMulti(c) \/ trackConn(c) \/ secretActive(c) \/ AcceptObfuscated(c)
    \/ proxyToMaskingDomain(c) \/ BridgeHandle(c) \/ FailOpenViaWorker(c) \/ DialUpstream(c) \/ failOpenDirect(c)
    \/ authenticate(c) \/ handleRequest(c) \/ handleConnect(c) \/ AssociateEnds(c)
    \/ StartRelay(c) \/ relayConns(c) \/ Reap(c) \/ RelayOver(c) \/ untrack(c) \/ Finish(c)
    \/ \E d \in {"up", "down"} : DirEnds(c, d)

Refill(p) == RefillStart(p) \/ RefillResult(p) \/ RefillAppend(p) \/ RefillDone(p)

Next ==
    \/ Start \/ Locked \/ Expire
    \/ \E new \in set.configs : UpdateConfig(new)
    \/ \E p \in Pools : Refill(p) \/ IdleDies(p)
    \/ \E c \in Conns : \/ acceptLoop(c) \/ Progress(c) \/ ReadClient(c)
                         \/ \E d \in {"up", "down"} : WriteFails(c, d)
                         \/ ClientLeaves(c) \/ UpstreamCloses(c) \/ FallsSilent(c)

\* Every handler has a deadline or a closed socket to wake it: its goroutine runs on.
Fairness == \A c \in Conns : WF_vars(conn[c].pc # "none" /\ Progress(c))

Spec == Init /\ [][Next]_vars /\ Fairness

-----------------------------------------------------------------------------
(* Properties *)

\* While the proxy serves and no reload is under way, a client past the check of
\* its secret is connected only if that secret is one of the configuration's: a
\* handshake that overlaps the reload either sees the new list or is in the map
\* when it is swept (trackConn comes before secretActive, the store before the sweep).
RevokedClosed ==
    (srv.running /\ upd = <<>>) =>
        \A c \in Conns : conn[c].tracked /\ conn[c].open /\ conn[c].pc # "active" /\ conn[c].pc # "untrack"
                            => /\ conn[c].sec \in srv.secrets
                               /\ ~buildSecrets(cfg).err => conn[c].sec \in buildSecrets(cfg).secrets

\* In auto mode a client is turned away only after every TCP address of its data
\* centre was tried, for it or, within the address's cooldown, for another: neither
\* the blacklist that the redirects of other clients fill nor the cooldown of the
\* edges ends its plan.  A number of no data centre has no address: that client is
\* turned away when the WebSocket plans have failed.
FallbackReached ==
    \A c \in Conns : conn[c].refused /\ conn[c].mode = "auto" => conn[c].untried = {}

\* What the bridge read before it gave up, and what the splitter holds back, reach
\* the other side: nothing is lost when a connection fails open, and the frames are
\* the client's bytes in order, cut at the ends of packets until a length is zero.
BytesKept ==
    \A c \in Conns :
        LET st == conn[c].stream
        IN  /\ conn[c].pc \in {"worker", "direct"} => conn[c].sent = conn[c].read
            /\ st.proto # "none" =>
                   /\ FlattenSeq(st.out) \o st.buf \o st.todo = set.stream
                   /\ "up" \in conn[c].dirs /\ ~st.disabled => \A i \in DOMAIN st.out : i \in DOMAIN set.packets /\ st.out[i] = set.packets[i]

\* The client left, or its session fell silent where silence is reaped.
Over(c) == conn[c].gone \/ (conn[c].silent /\ set.idle /\ conn[c].relay = "conns")

\* A connection that is over gives its slot back: both relays of the MTProto proxies
\* close the side that is still open, pipe and the SOCKS5 relay wait for it to end.
SlotReturned ==
    \A c \in Conns :
        (Over(c) /\ conn[c].relay # "pipe") \/ (conn[c].gone /\ conn[c].up = "dead")
            ~> conn[c].pc = "none" \/ (conn[c].relay = "pipe" /\ conn[c].up = "live")

=============================================================================
