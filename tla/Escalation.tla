----------------------------- MODULE Escalation -----------------------------
(***************************************************************************)
(* Per-host escalation (src/src/nfq): the shared destStateTracker          *)
(* (connstate.go), the part of handleTCPPacket and HandleIncoming that     *)
(* reads and writes it, and Pool.UpdateConfig, for one host.               *)
(*                                                                         *)
(* The kernel hands every packet of a connection, both ways, to the same   *)
(* worker (queue-balance), which handles one packet at a time; workers     *)
(* interleave at each critical section on the host's entries and each load *)
(* of the configuration or the matcher; what touches only the entries of   *)
(* the worker's own connection is part of the step before it.  A set       *)
(* pointer is a record of the configuration version it belongs to and the  *)
(* set's id.  The sets of the model have no block or proxy routing: for    *)
(* those the handler returns before it counts anything.                    *)
(***************************************************************************)
EXTENDS Naturals, FiniteSets

CONSTANTS Workers, Conns,
          WorkerOf,           \* the worker of each connection
          Sets, None,
          Configs,            \* the configurations, in the order they come
          Versions,           \* how many
          MaxEscalationHops,
          Threshold,          \* IPBlockDetect.RetransmitThreshold
          RstThreshold,       \* Escalate.RstThreshold
          TTL, Window         \* Escalate.TtlSec and RstWindowSec, in ticks

(* sanitizeEscalation leaves only enabled targets and no cycle. *)
Acyclic(to) ==
  \E rank \in [Sets -> 1..Cardinality(Sets)] :
    \A s \in Sets : to[s] # None => rank[s] < rank[to[s]]

ConfigType == [base : Sets, on : SUBSET Sets, ibd : SUBSET Sets,
               to : [Sets -> Sets \cup {None}]]

ASSUME NamesAssumption == None \notin Sets \cup Conns
ASSUME ConfigAssumption ==
  /\ Versions \in Nat \ {0}
  /\ Configs \in [1..Versions -> ConfigType]
  /\ \A v \in 1..Versions : LET c == Configs[v] IN
       /\ c.base \in c.on
       /\ \A s \in Sets : c.to[s] # None => c.to[s] \in c.on
ASSUME AcyclicAssumption == \A v \in 1..Versions : Acyclic(Configs[v].to)
ASSUME WorkerAssumption == WorkerOf \in [Conns -> Workers]
ASSUME BoundsAssumption ==
  /\ MaxEscalationHops \in Nat \ {0} /\ Threshold \in Nat \ {0, 1}
  /\ RstThreshold \in Nat \ {0} /\ TTL \in Nat /\ Window \in Nat

VARIABLES
  cfg, matcher,   \* the version each worker's atomic pointers hold
  version,        \* the newest version UpdateConfig began to install
  stores,         \* the stores UpdateConfig still has to do
  resetDue,       \* and its ResetEscalations
  esc,            \* escalations[host], with its age
  kills,          \* rstKills[host], with its age
  hellos,         \* retransmits of each connection, up to Threshold
  rstSent,        \* connections the IP-block path reset
  blocked,        \* destinations in the blocked cache (one per connection)
  tracked,        \* the set connTracker holds for each connection
  pc, job         \* the packet each worker is handling

cfgVars == <<cfg, matcher, version, stores, resetDue>>
desVars == <<esc, kills>>
conVars == <<hellos, rstSent, blocked, tracked>>
vars == <<cfgVars, desVars, conVars, pc, job>>

SetPtr   == [ver : 1..Versions, id : Sets]
NoSet    == [ver |-> 0, id |-> None]
NoJob    == [conn |-> None, ver |-> 0, set |-> NoSet]
Job      == [conn : Conns, ver : 1..Versions, set : SetPtr \cup {NoSet}]
Entry    == [set : Sets, hops : 1..MaxEscalationHops, age : 0..TTL]
NoEsc    == [set |-> None, hops |-> 0, age |-> 0]
Kills    == [count : 1..RstThreshold, age : 0..Window]
NoKills  == [count |-> 0, age |-> 0]
Store    == Workers \X {"cfg", "matcher"}

(* Every variable has its type; no entry has more hops than the cap. *)
TypeOK ==
  /\ cfg \in [Workers -> 1..Versions] /\ matcher \in [Workers -> 1..Versions]
  /\ version \in 1..Versions
  /\ stores \subseteq Store /\ resetDue \in BOOLEAN
  /\ esc \in Entry \cup {NoEsc} /\ kills \in Kills \cup {NoKills}
  /\ hellos \in [Conns -> 0..Threshold]
  /\ rstSent \subseteq Conns /\ blocked \subseteq Conns
  /\ tracked \in [Conns -> SetPtr \cup {NoSet}]
  /\ pc \in [Workers -> {"idle", "match", "lookup", "clear", "record", "escalate",
                         "load", "switch"}]
  /\ job \in [Workers -> Job \cup {NoJob}]

Init ==
  /\ cfg = [w \in Workers |-> 1] /\ matcher = [w \in Workers |-> 1]
  /\ version = 1 /\ stores = {} /\ resetDue = FALSE
  /\ esc = NoEsc /\ kills = NoKills
  /\ hellos = [k \in Conns |-> 0] /\ rstSent = {} /\ blocked = {}
  /\ tracked = [k \in Conns |-> NoSet]
  /\ pc = [w \in Workers |-> "idle"] /\ job = [w \in Workers |-> NoJob]

To(set)  == Configs[set.ver].to[set.id]
Ibd(set) == set.id \in Configs[set.ver].ibd

(* Mutant: GetSetById falls back to the base set. *)
MutTargetFallback(set, v) == IF To(set) \in Configs[v].on THEN To(set) ELSE Configs[v].base

(* GetSetById(to) of the configuration the handler holds, if enabled. *)
Target(set, v) == IF To(set) \in Configs[v].on THEN To(set) ELSE None

Hold(w, k, v, set) == job' = [job EXCEPT ![w] = [conn |-> k, ver |-> v, set |-> set]]
Goto(w, label) == pc' = [pc EXCEPT ![w] = label]
Finish(w) == Goto(w, "idle") /\ job' = [job EXCEPT ![w] = NoJob]

----------------------------------------------------------------------------
(* SetEscalation: one hop more than the entry that is still alive; past    *)
(* the cap the entry is left as it is, its age too.                        *)
CanEscalate == esc.hops < MaxEscalationHops

SetEscalation(id) ==
  /\ CanEscalate
  /\ esc' = [set |-> id, hops |-> esc.hops + 1, age |-> 0]

----------------------------------------------------------------------------
(* A ClientHello: handlePacket, handleTCPPacket *)

HelloBegin(w, k) ==
  /\ pc[w] = "idle" /\ WorkerOf[k] = w
  /\ Hold(w, k, cfg[w], NoSet)
  /\ Goto(w, "match")
  /\ UNCHANGED <<cfgVars, desVars, conVars>>

(* The matcher yields the base set, of the version the matcher was built   *)
(* from: UpdateConfig may have replaced one pointer and not the other.     *)
HelloMatch(w) ==
  /\ pc[w] = "match"
  /\ Hold(w, job[w].conn, job[w].ver,
          [ver |-> matcher[w], id |-> Configs[matcher[w]].base])
  /\ Goto(w, "lookup")
  /\ UNCHANGED <<cfgVars, desVars, conVars>>

(* GetEscalation; an entry whose set is gone or disabled is cleared next. *)
HelloLookup(w) ==
  /\ pc[w] = "lookup"
  /\ LET v == job[w].ver IN
     \/ /\ esc = NoEsc
        /\ Goto(w, "record") /\ UNCHANGED job
     \/ /\ esc.set \in Configs[v].on
        /\ Hold(w, job[w].conn, v, [ver |-> v, id |-> esc.set])
        /\ Goto(w, "record")
     \/ /\ esc # NoEsc /\ esc.set \notin Configs[v].on
        /\ Goto(w, "clear") /\ UNCHANGED job
  /\ UNCHANGED <<cfgVars, desVars, conVars>>

(* ClearEscalation removes whatever entry is there by now. *)
HelloClear(w) ==
  /\ pc[w] = "clear"
  /\ esc' = NoEsc
  /\ Goto(w, "record")
  /\ UNCHANGED <<cfgVars, kills, conVars, job>>

(* RegisterOutgoing when the set may escalate, then the packet goes out. *)
Send(w) ==
  /\ tracked' = IF To(job[w].set) # None
                  THEN [tracked EXCEPT ![job[w].conn] = job[w].set] ELSE tracked
  /\ Finish(w)

(* A destination cached as blocked is reset and dropped. *)
HelloCached(w) ==
  /\ pc[w] = "record"
  /\ Ibd(job[w].set) /\ job[w].conn \in blocked
  /\ Finish(w)
  /\ UNCHANGED <<cfgVars, desVars, conVars>>

(* RecordClientHello, for a set that detects blocks or may escalate, and   *)
(* the test of the count or of the timeout.                                *)
HelloRecord(w, late) ==
  /\ pc[w] = "record"
  /\ ~(Ibd(job[w].set) /\ job[w].conn \in blocked)
  /\ LET k == job[w].conn
         counted == Ibd(job[w].set) \/ To(job[w].set) # None
         n == IF hellos[k] < Threshold THEN hellos[k] + 1 ELSE Threshold
     IN /\ hellos' = IF counted THEN [hellos EXCEPT ![k] = n] ELSE hellos
        /\ IF counted /\ (n >= Threshold \/ (n > 1 /\ late))
             THEN Goto(w, "escalate") /\ UNCHANGED <<tracked, job>>
             ELSE Send(w)
  /\ UNCHANGED <<cfgVars, desVars, rstSent, blocked>>

(* The packet that tips the count is dropped once the host is switched. *)
HelloEscalate(w) ==
  /\ pc[w] = "escalate"
  /\ LET next == Target(job[w].set, job[w].ver) IN
     /\ next # None
     /\ SetEscalation(next)
  /\ Finish(w)
  /\ UNCHANGED <<cfgVars, kills, conVars>>

(* No target, or the hop cap: a set that detects blocks resets the client  *)
(* once and from then on only drops; any other set sends the packet.       *)
HelloIpBlock(w) ==
  /\ pc[w] = "escalate"
  /\ Target(job[w].set, job[w].ver) = None \/ ~CanEscalate
  /\ IF Ibd(job[w].set)
       THEN /\ rstSent' = rstSent \cup {job[w].conn}
            /\ blocked' = IF job[w].conn \in rstSent THEN blocked
                                                     ELSE blocked \cup {job[w].conn}
            /\ Finish(w)
            /\ UNCHANGED tracked
       ELSE Send(w) /\ UNCHANGED <<rstSent, blocked>>
  /\ UNCHANGED <<cfgVars, desVars, hellos>>

----------------------------------------------------------------------------
(* An incoming RST that CheckRST takes for injected: HandleIncoming *)

(* RecordRSTKill: the first kill only opens the window. *)
RecordRSTKill(w, k) ==
  /\ pc[w] = "idle" /\ WorkerOf[k] = w
  /\ tracked[k] # NoSet /\ To(tracked[k]) # None
  /\ LET n == kills.count + 1 IN
     IF kills # NoKills /\ n >= RstThreshold
       THEN /\ kills' = NoKills
            /\ Goto(w, "load")
            /\ Hold(w, k, tracked[k].ver, tracked[k])
       ELSE /\ kills' = [count |-> n, age |-> kills.age]
            /\ UNCHANGED <<pc, job>>
  /\ UNCHANGED <<cfgVars, esc, conVars>>

RstLoad(w) ==
  /\ pc[w] = "load"
  /\ Hold(w, job[w].conn, cfg[w], job[w].set)
  /\ Goto(w, "switch")
  /\ UNCHANGED <<cfgVars, desVars, conVars>>

(* Mutant: at the cap the entry is written again, with a new setAt. *)
MutRenewAtCap(w) ==
  /\ pc[w] = "switch"
  /\ LET next == Target(job[w].set, job[w].ver)
         hops == IF CanEscalate THEN esc.hops + 1 ELSE esc.hops
     IN IF next # None
          THEN esc' = [set |-> next, hops |-> hops, age |-> 0]
          ELSE UNCHANGED esc
  /\ Finish(w)
  /\ UNCHANGED <<cfgVars, kills, conVars>>

(* The target comes from the set the connection was sent through, whatever *)
(* set the host is on by now.                                              *)
RstSwitch(w) ==
  /\ pc[w] = "switch"
  /\ LET next == Target(job[w].set, job[w].ver) IN
     IF next # None /\ CanEscalate
       THEN SetEscalation(next)
       ELSE UNCHANGED esc
  /\ Finish(w)
  /\ UNCHANGED <<cfgVars, kills, conVars>>

----------------------------------------------------------------------------
(* Pool.UpdateConfig: per worker the configuration, then the matcher; when *)
(* every worker has both, ResetEscalations.                                *)

UpdateBegin ==
  /\ ~resetDue /\ version < Versions
  /\ version' = version + 1
  /\ stores' = Store /\ resetDue' = TRUE
  /\ UNCHANGED <<cfg, matcher, desVars, conVars, pc, job>>

UpdateStoreCfg(w) ==
  /\ <<w, "cfg">> \in stores
  /\ cfg' = [cfg EXCEPT ![w] = version]
  /\ stores' = stores \ {<<w, "cfg">>}
  /\ UNCHANGED <<matcher, version, resetDue, desVars, conVars, pc, job>>

UpdateStoreMatcher(w) ==
  /\ <<w, "matcher">> \in stores /\ <<w, "cfg">> \notin stores
  /\ matcher' = [matcher EXCEPT ![w] = version]
  /\ stores' = stores \ {<<w, "matcher">>}
  /\ UNCHANGED <<cfg, version, resetDue, desVars, conVars, pc, job>>

ResetEscalations ==
  /\ resetDue /\ stores = {}
  /\ esc' = NoEsc /\ kills' = NoKills
  /\ resetDue' = FALSE
  /\ UNCHANGED <<cfg, matcher, version, stores, conVars, pc, job>>

----------------------------------------------------------------------------
(* Time, Cleanup and the limits of the maps.  An entry past its TTL is     *)
(* treated as absent by every reader, so it is removed when it expires.    *)

Tick ==
  /\ esc # NoEsc \/ kills # NoKills
  /\ esc' = IF esc = NoEsc \/ esc.age = TTL THEN NoEsc
              ELSE [set |-> esc.set, hops |-> esc.hops, age |-> esc.age + 1]
  /\ kills' = IF kills = NoKills \/ kills.age = Window THEN NoKills
                ELSE [count |-> kills.count, age |-> kills.age + 1]
  /\ UNCHANGED <<cfgVars, conVars, pc, job>>

(* The full map of another host's SetEscalation drops the oldest entry;    *)
(* the dashboard's reset drops this one.                                   *)
Evict ==
  /\ esc # NoEsc
  /\ esc' = NoEsc
  /\ UNCHANGED <<cfgVars, kills, conVars, pc, job>>

(* Cleanup forgets a connection and a blocked destination. *)
Forget(k) ==
  /\ hellos[k] > 0 \/ tracked[k] # NoSet \/ k \in blocked
  /\ \/ /\ hellos' = [hellos EXCEPT ![k] = 0] /\ rstSent' = rstSent \ {k}
        /\ UNCHANGED <<blocked, tracked>>
     \/ /\ tracked' = [tracked EXCEPT ![k] = NoSet]
        /\ UNCHANGED <<hellos, rstSent, blocked>>
     \/ /\ blocked' = blocked \ {k}
        /\ UNCHANGED <<hellos, rstSent, tracked>>
  /\ UNCHANGED <<cfgVars, desVars, pc, job>>

----------------------------------------------------------------------------
Hello(w) == \/ HelloMatch(w) \/ HelloLookup(w) \/ HelloClear(w) \/ HelloCached(w)
            \/ \E late \in BOOLEAN : HelloRecord(w, late)
            \/ HelloEscalate(w) \/ HelloIpBlock(w)
Rst(w) == RstLoad(w) \/ RstSwitch(w)
Packet(w) == \E k \in Conns : HelloBegin(w, k) \/ RecordRSTKill(w, k)
UpdateConfig == \/ UpdateBegin \/ ResetEscalations
                \/ \E w \in Workers : UpdateStoreCfg(w) \/ UpdateStoreMatcher(w)
Upkeep == Evict \/ \E k \in Conns : Forget(k)

Next == \/ \E w \in Workers : Packet(w) \/ Hello(w) \/ Rst(w)
        \/ UpdateConfig \/ Tick \/ Upkeep

Spec == Init /\ [][Next]_vars

(* Time passes; nothing else is owed, packets least of all. *)
FairSpec == Spec /\ WF_vars(Tick)

----------------------------------------------------------------------------
(* Properties *)

(* S holds every backup of every base set and is closed under Escalate.To, *)
(* in every version installed so far.                                      *)
HoldsBackups(S) ==
  \A v \in 1..version : LET c == Configs[v] IN
    \A s \in S \cup {c.base} : c.to[s] # None => c.to[s] \in S

(* A host is only ever switched to a set on the escalation chain of its    *)
(* own base set, through whatever interleaving of failing connections,     *)
(* RSTs and configuration changes: SetEscalation is always given the       *)
(* target of a set this host was using.                                    *)
OnChain ==
  esc # NoEsc => \A S \in SUBSET Sets : HoldsBackups(S) => esc.set \in S

(* A packet leaves through a set that its own configuration has enabled,   *)
(* even when the entry was written by a worker on an older configuration.  *)
UsesEnabledSet ==
  \A w \in Workers : pc[w] \in {"record", "escalate"} =>
    job[w].set.id \in Configs[job[w].set.ver].on

(* RecordRSTKill acts as soon as the count reaches the threshold. *)
KillsBelowThreshold == kills.count < RstThreshold

(* After some time b4 retries the original set: the hop cap bounds how     *)
(* often failing connections can renew the entry, so it expires.           *)
RetriesOriginal == esc # NoEsc ~> esc = NoEsc

=============================================================================
