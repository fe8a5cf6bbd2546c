------------------------------ MODULE Watchdog ------------------------------
(***************************************************************************)
(* The domain watchdog (src/src/watchdog): the tick of its run goroutine,  *)
(* the heal goroutine a tick may start, and what they share with the       *)
(* discovery runtime, the HTTP handlers and the shutdown.                  *)
(*                                                                         *)
(* Every critical section of w.mu is one action.  Of time there remains a  *)
(* flag per domain, cooling (CooldownUntil is in the future), which may    *)
(* lapse; which other domains are due for a check (LastCheck + Interval)   *)
(* is left open.  The runtime is the lease of DiscoveryLease: free, held   *)
(* by a user's search, or held by the watchdog's.                          *)
(***************************************************************************)
EXTENDS Naturals, FiniteSets

CONSTANTS Domains,      \* domains that may be monitored
          MaxRetries,   \* wdCfg.MaxRetries
          MaxEvents     \* bound on what users do: edits, force checks, searches

ASSUME RetriesAssumption == MaxRetries \in Nat \ {0} /\ MaxEvents \in Nat
ASSUME DomainsAssumption == IsFiniteSet(Domains)

VARIABLES
  enabled, listed,          \* the watchdog section of the current config
  events,                   \* what users did so far, up to MaxEvents
  repaired,                 \* domains whose strategy this repair saved
  domainStatus, failures,   \* DomainStatus.Status, .ConsecutiveFailures
  cooling,                  \* DomainStatus.CooldownUntil is in the future
  tickPc, tickList, batch,  \* run goroutine: its config, domains to check
  stop,                     \* w.stop is closed
  healing,                  \* w.healing
  healPc, healSet, healBad, \* heal goroutine: domains, those with an error
  lease,                    \* who holds the discovery runtime
  suite,                    \* status of the heal's suite in the registry
  successes, best           \* SuccessfulChecks, domains with BestSuccess

cfgVars    == <<enabled, listed, events>>
domVars    == <<domainStatus, failures, cooling>>
tickVars   == <<tickPc, tickList, batch>>
healVars   == <<healing, healPc, healSet, healBad>>
searchVars == <<lease, suite, successes, best>>
watchVars == <<cfgVars, repaired, domVars, tickVars, stop, healVars, searchVars>>

(* Every variable has its type; a domain has one of the three statuses     *)
(* the page shows, or is not known.                                        *)
WatchTypeOK ==
  /\ enabled \in BOOLEAN /\ listed \subseteq Domains /\ events \in 0..MaxEvents
  /\ repaired \subseteq Domains
  /\ domainStatus \in [Domains -> {"absent", "healthy", "degraded", "escalating"}]
  /\ failures \in [Domains -> 0..MaxRetries]
  /\ cooling \in [Domains -> BOOLEAN]
  /\ tickPc \in {"idle", "select", "checking", "exited"}
  /\ tickList \subseteq Domains /\ batch \subseteq Domains
  /\ stop \in BOOLEAN /\ healing \in BOOLEAN
  /\ healPc \in {"none", "begin", "mark", "start", "poll", "quit", "disabled",
                 "sleep", "collect", "finish"}
  /\ healSet \subseteq Domains /\ healBad \subseteq Domains
  /\ lease \in {"free", "user", "heal"}
  /\ suite \in {"none", "running", "complete", "canceled", "gone"}
  /\ successes \in 0..Cardinality(Domains) /\ best \subseteq Domains

WatchInit ==
  /\ enabled \in BOOLEAN /\ listed \in SUBSET Domains /\ events = 0 /\ repaired = {}
  /\ domainStatus = [d \in Domains |-> "absent"]
  /\ failures = [d \in Domains |-> 0]
  /\ cooling = [d \in Domains |-> FALSE]
  /\ tickPc = "idle" /\ tickList = {} /\ batch = {}
  /\ stop = FALSE
  /\ healing = FALSE /\ healPc = "none" /\ healSet = {} /\ healBad = {}
  /\ lease = "free" /\ suite = "none" /\ successes = 0 /\ best = {}

----------------------------------------------------------------------------
(* The run goroutine *)

(* tick loads the configuration; it does nothing when disabled or empty. *)
TickLoad ==
  /\ tickPc = "idle" /\ ~stop
  /\ enabled /\ listed # {}
  /\ tickPc' = "select" /\ tickList' = listed
  /\ UNCHANGED <<cfgVars, repaired, domVars, batch, stop, healVars, searchVars>>

(* syncDomainStates, then the domains that are due. *)
Synced == [d \in Domains |->
  IF d \notin tickList THEN "absent"
  ELSE IF domainStatus[d] = "absent" THEN "healthy" ELSE domainStatus[d]]

(* Mutant: CooldownUntil is not consulted. *)
MutSelectCooling(due) ==
  /\ tickPc = "select"
  /\ LET known(d) == domainStatus[d] # "absent" /\ d \in tickList IN
     /\ domainStatus' = Synced
     /\ failures' = [d \in Domains |-> IF known(d) THEN failures[d] ELSE 0]
     /\ cooling' = [d \in Domains |-> known(d) /\ cooling[d]]
  /\ batch' = {d \in tickList \cap due : domainStatus'[d] # "escalating"}
  /\ tickPc' = IF batch' = {} THEN "idle" ELSE "checking"
  /\ UNCHANGED <<cfgVars, repaired, tickList, stop, healVars, searchVars>>

TickSelect(due) ==
  /\ tickPc = "select"
  /\ LET known(d) == domainStatus[d] # "absent" /\ d \in tickList IN
     /\ domainStatus' = Synced
     /\ failures' = [d \in Domains |-> IF known(d) THEN failures[d] ELSE 0]
     /\ cooling' = [d \in Domains |-> known(d) /\ cooling[d]]
  /\ batch' = {d \in tickList \cap due : domainStatus'[d] # "escalating" /\ ~cooling'[d]}
  /\ tickPc' = IF batch' = {} THEN "idle" ELSE "checking"
  /\ UNCHANGED <<cfgVars, repaired, tickList, stop, healVars, searchVars>>

(* The checks answer: ok, failed, or failed on a client certificate.       *)
(* failures saturates at MaxRetries, all the code compares it with.        *)
TickApply(ok, mtls) ==
  /\ tickPc = "checking"
  /\ LET known == {d \in batch : domainStatus[d] # "absent"}
         bad   == known \ ok
         fail  == bad \ mtls
         more(d) == IF failures[d] < MaxRetries THEN failures[d] + 1 ELSE MaxRetries
         needs == {d \in fail : more(d) >= MaxRetries}
     IN
     /\ domainStatus' = [d \in Domains |-> IF d \in bad THEN "degraded"
                                           ELSE IF d \in known THEN "healthy" ELSE domainStatus[d]]
     /\ failures' = [d \in Domains |-> IF d \in fail THEN more(d)
                                       ELSE IF d \in known \ bad THEN 0 ELSE failures[d]]
     /\ cooling' = [d \in Domains |-> (d \in bad \cap mtls) \/ cooling[d]]
     /\ IF needs # {} /\ ~healing
          THEN healing' = TRUE /\ healPc' = "begin" /\ healSet' = needs
          ELSE UNCHANGED <<healing, healPc, healSet>>
  /\ tickPc' = "idle" /\ batch' = {}
  /\ UNCHANGED <<cfgVars, repaired, tickList, stop, healBad, searchVars>>

(* Mutant: stop is noticed only in a tick that has something to do. *)
MutRunExitBusy ==
  /\ tickPc = "idle" /\ stop /\ enabled /\ listed # {}
  /\ tickPc' = "exited"
  /\ UNCHANGED <<cfgVars, repaired, domVars, tickList, batch, stop, healVars, searchVars>>

RunExit ==
  /\ tickPc = "idle" /\ stop
  /\ tickPc' = "exited"
  /\ UNCHANGED <<cfgVars, repaired, domVars, tickList, batch, stop, healVars, searchVars>>

----------------------------------------------------------------------------
(* healBatch *)

HealEnds ==
  /\ healing' = FALSE /\ healPc' = "none"
  /\ healSet' = {} /\ healBad' = {} /\ repaired' = {}

(* The domains of S that still have a state become degraded, failures 0. *)
Degrade(S) ==
  LET known == {d \in S : domainStatus[d] # "absent"} IN
  /\ domainStatus' = [d \in Domains |-> IF d \in known THEN "degraded" ELSE domainStatus[d]]
  /\ failures' = [d \in Domains |-> IF d \in known THEN 0 ELSE failures[d]]

DegradeAndCool(S) ==
  /\ Degrade(S)
  /\ cooling' = [d \in Domains |-> (d \in S /\ domainStatus[d] # "absent") \/ cooling[d]]

(* IsActive: a user's search, or the heal's own, defers the repair. *)
HealBegin ==
  /\ healPc = "begin"
  /\ IF lease # "free"
       THEN HealEnds
       ELSE healPc' = "mark" /\ UNCHANGED <<healing, healSet, healBad, repaired>>
  /\ UNCHANGED <<cfgVars, domVars, tickVars, stop, searchVars>>

HealMark ==
  /\ healPc = "mark"
  /\ healPc' = "start"
  /\ domainStatus' = [d \in Domains |->
       IF d \in healSet /\ domainStatus[d] # "absent" THEN "escalating" ELSE domainStatus[d]]
  /\ UNCHANGED <<cfgVars, repaired, failures, cooling, tickVars, stop,
                 healing, healSet, healBad, searchVars>>

(* StartSuite takes the lease and launches the search. *)
HealStart ==
  /\ healPc = "start" /\ lease = "free"
  /\ healPc' = "poll"
  /\ lease' = "heal" /\ suite' = "running" /\ successes' = 0 /\ best' = {}
  /\ UNCHANGED <<cfgVars, repaired, domVars, tickVars, stop, healing, healSet, healBad>>

(* Mutant: the failed start leaves the statuses as they are. *)
MutStartFailsSilently ==
  /\ healPc = "start"
  /\ HealEnds
  /\ UNCHANGED <<cfgVars, domVars, tickVars, stop, searchVars>>

(* StartSuite fails: somebody else holds the lease, or rules or pool fail. *)
HealStartFails ==
  /\ healPc = "start"
  /\ DegradeAndCool(healSet)
  /\ HealEnds
  /\ UNCHANGED <<cfgVars, tickVars, stop, searchVars>>

CancelledSuite == IF suite = "running" THEN "canceled" ELSE suite

(* The poll sees w.stop or a disabled watchdog: cancel, then Stop. *)
HealPollQuit ==
  /\ healPc = "poll"
  /\ stop \/ ~enabled
  /\ healPc' \in {p \in {"quit", "disabled"} : IF p = "quit" THEN stop ELSE ~enabled}
  /\ suite' = CancelledSuite
  /\ UNCHANGED <<cfgVars, repaired, domVars, tickVars, stop, healing, healSet,
                 healBad, lease, successes, best>>

(* Mutant: the poll gives up on a search that still runs. *)
MutPollGivesUp ==
  /\ healPc = "poll" /\ enabled
  /\ healPc' = "collect"
  /\ UNCHANGED <<cfgVars, repaired, domVars, tickVars, stop, healing, healSet,
                 healBad, searchVars>>

(* Mutant: the poll knows only the status complete. *)
MutPollComplete ==
  /\ healPc = "poll" /\ enabled
  /\ suite = "complete"
  /\ healPc' = "collect"
  /\ UNCHANGED <<cfgVars, repaired, domVars, tickVars, stop, healing, healSet,
                 healBad, searchVars>>

(* The suite is over, or gone from the registry. *)
HealPollOver ==
  /\ healPc = "poll" /\ enabled
  /\ suite # "running"
  /\ healPc' = "collect"
  /\ UNCHANGED <<cfgVars, repaired, domVars, tickVars, stop, healing, healSet,
                 healBad, searchVars>>

(* As many successful checks as domains: cancel early and sleep 1 s. *)
HealPollEnough ==
  /\ healPc = "poll" /\ enabled
  /\ suite = "running" /\ successes >= Cardinality(healSet)
  /\ healPc' = "sleep"
  /\ suite' = "canceled"
  /\ UNCHANGED <<cfgVars, repaired, domVars, tickVars, stop, healing, healSet,
                 healBad, lease, successes, best>>

HealWake ==
  /\ healPc = "sleep"
  /\ healPc' = "collect"
  /\ UNCHANGED <<cfgVars, repaired, domVars, tickVars, stop, healing, healSet,
                 healBad, searchVars>>

(* Stop returns once the run has ended and the lease is given back; on     *)
(* shutdown the statuses stay as they are.                                 *)
HealStopped ==
  /\ healPc \in {"quit", "disabled"} /\ lease # "heal"
  /\ IF healPc = "disabled" THEN Degrade(healSet) ELSE UNCHANGED <<domainStatus, failures>>
  /\ HealEnds
  /\ UNCHANGED <<cfgVars, cooling, tickVars, stop, searchVars>>

(* Stop returns at once when the run's own deferred Stop is at work. *)
HealStopsEarly ==
  /\ healPc \in {"quit", "disabled"} /\ lease = "heal" /\ suite # "running"
  /\ IF healPc = "disabled" THEN Degrade(healSet) ELSE UNCHANGED <<domainStatus, failures>>
  /\ HealEnds
  /\ UNCHANGED <<cfgVars, cooling, tickVars, stop, searchVars>>

HealSuiteGone ==
  /\ healPc = "collect" /\ suite = "gone"
  /\ DegradeAndCool(healSet)
  /\ HealEnds
  /\ UNCHANGED <<cfgVars, tickVars, stop, searchVars>>

(* Mutant: the error of saveFunc is dropped. *)
MutIgnoreSaveError(saved) ==
  /\ healPc = "collect" /\ suite # "gone"
  /\ healBad' = healSet \ best
  /\ repaired' = IF saved THEN healSet \cap best ELSE {}
  /\ healPc' = "finish"
  /\ UNCHANGED <<cfgVars, domVars, tickVars, stop, healing, healSet, searchVars>>

(* applyBatchResults: the successful domains go into a fresh clone of the  *)
(* configuration; saveFunc may refuse it.                                  *)
HealCollect(saved) ==
  /\ healPc = "collect" /\ suite # "gone"
  /\ LET good == IF saved THEN healSet \cap best ELSE {} IN
     /\ healBad' = healSet \ good
     /\ repaired' = good
  /\ healPc' = "finish"
  /\ UNCHANGED <<cfgVars, domVars, tickVars, stop, healing, healSet, searchVars>>

HealFinish ==
  /\ healPc = "finish"
  /\ LET known == {d \in healSet : domainStatus[d] # "absent"} IN
     /\ domainStatus' = [d \in Domains |->
          IF d \notin known THEN domainStatus[d]
          ELSE IF d \in healBad THEN "degraded" ELSE "healthy"]
     /\ failures' = [d \in Domains |-> IF d \in known THEN 0 ELSE failures[d]]
     /\ cooling' = [d \in Domains |-> d \in known \/ cooling[d]]
  /\ HealEnds
  /\ UNCHANGED <<cfgVars, tickVars, stop, searchVars>>

----------------------------------------------------------------------------
(* The heal's search, as the watchdog sees it *)

(* storeResultsMulti: a preset succeeded for d.  Every success counts, the *)
(* baseline's too, but only a bypass preset makes d's best result.         *)
SuiteProgress(d, bypass) ==
  /\ lease = "heal" /\ suite \in {"running", "canceled"}
  /\ d \in healSet
  /\ successes' = IF successes < Cardinality(Domains) THEN successes + 1 ELSE successes
  /\ best' = IF bypass THEN best \cup {d} ELSE best
  /\ UNCHANGED <<cfgVars, repaired, domVars, tickVars, stop, healVars, lease, suite>>

(* finalize; when the baseline works everywhere it is everyone's best. *)
SuiteComplete(baseline) ==
  /\ suite = "running"
  /\ suite' = "complete"
  /\ best' = IF baseline THEN healSet ELSE best
  /\ UNCHANGED <<cfgVars, repaired, domVars, tickVars, stop, healVars, lease, successes>>

(* handleCancelCheck on the watchdog's suite. *)
UserCancels ==
  /\ suite = "running"
  /\ suite' = "canceled"
  /\ UNCHANGED <<cfgVars, repaired, domVars, tickVars, stop, healVars, lease, successes, best>>

(* The run returns and the runtime is torn down. *)
SuiteReleased ==
  /\ lease = "heal" /\ suite \in {"complete", "canceled"}
  /\ lease' = "free"
  /\ UNCHANGED <<cfgVars, repaired, domVars, tickVars, stop, healVars, suite, successes, best>>

(* 30 s after finalize the registry forgets the suite. *)
SuiteDeleted ==
  /\ lease # "heal" /\ suite \in {"complete", "canceled"}
  /\ suite' = "gone" /\ successes' = 0 /\ best' = {}
  /\ UNCHANGED <<cfgVars, repaired, domVars, tickVars, stop, healVars, lease>>

----------------------------------------------------------------------------
(* The environment: HTTP handlers, the clock, a user's search, shutdown *)

Event == events < MaxEvents /\ events' = events + 1

ForceCheck(d) ==
  /\ d \in listed /\ Event
  /\ domainStatus' = [domainStatus EXCEPT ![d] = IF @ = "absent" THEN "healthy" ELSE @]
  /\ cooling' = [cooling EXCEPT ![d] = FALSE]
  /\ UNCHANGED <<enabled, listed, repaired, failures, tickVars, stop, healVars, searchVars>>

EditConfig ==
  /\ Event
  /\ \/ enabled' = ~enabled /\ listed' = listed
     \/ \E d \in Domains : listed' \in {listed \cup {d}, listed \ {d}} /\ enabled' = enabled
  /\ UNCHANGED <<repaired, domVars, tickVars, stop, healVars, searchVars>>

CooldownLapses(d) ==
  /\ cooling[d]
  /\ cooling' = [cooling EXCEPT ![d] = FALSE]
  /\ UNCHANGED <<cfgVars, repaired, domainStatus, failures, tickVars, stop, healVars, searchVars>>

UserSearch ==
  /\ \/ lease = "free" /\ lease' = "user" /\ Event
     \/ lease = "user" /\ lease' = "free" /\ UNCHANGED events
  /\ UNCHANGED <<enabled, listed, repaired, domVars, tickVars, stop, healVars, suite, successes, best>>

Stop ==
  /\ ~stop
  /\ stop' = TRUE
  /\ UNCHANGED <<cfgVars, repaired, domVars, tickVars, healVars, searchVars>>

Tick == \/ TickLoad \/ RunExit
        \/ \E due \in SUBSET Domains : TickSelect(due)
        \/ \E ok, mtls \in SUBSET batch : TickApply(ok, mtls)
HealBatch ==
  \/ HealBegin \/ HealMark \/ HealStart \/ HealStartFails
  \/ HealPollQuit \/ HealPollOver \/ HealPollEnough \/ HealWake
  \/ HealStopped \/ HealSuiteGone \/ HealFinish
  \/ \E saved \in BOOLEAN : HealCollect(saved)
SuiteEnds == SuiteReleased \/ \E b \in BOOLEAN : SuiteComplete(b)
Search == \/ SuiteEnds \/ UserCancels \/ SuiteDeleted
          \/ \E d \in Domains, b \in BOOLEAN : SuiteProgress(d, b)
Environment == \/ EditConfig \/ UserSearch \/ Stop
               \/ \E d \in Domains : ForceCheck(d) \/ CooldownLapses(d)

(* The service is down. *)
Stopped == tickPc = "exited" /\ ~healing /\ UNCHANGED watchVars

WatchNext == Tick \/ HealBatch \/ HealStopsEarly \/ Search \/ Environment \/ Stopped

WatchSpec == WatchInit /\ [][WatchNext]_watchVars

(* Goroutines that can step do; a search ends (its probes have timeouts).  *)
(* No fairness for the user, the handlers or the shutdown.                 *)
WatchFairSpec == WatchSpec /\ WF_watchVars(Tick) /\ WF_watchVars(HealBatch) /\ WF_watchVars(SuiteEnds)

----------------------------------------------------------------------------
(* Properties *)

(* A domain shown as escalating is in the hands of a live heal goroutine:  *)
(* every exit of healBatch resets it, save the one taken on shutdown.      *)
EscalatingHasHealer ==
  \A d \in Domains : domainStatus[d] = "escalating" /\ ~stop =>
    healing /\ d \in healSet /\ healPc \notin {"none", "begin", "mark"}

(* healBatch never returns while its search is still going on unwatched. *)
NoOrphanSearch == ~healing => suite # "running"

(* The watchdog reports a repair (escalating to healthy, cooldown set) by  *)
(* the heal goroutine only for a strategy that was saved.                  *)
HealthyIsRepaired ==
  [][\A d \in Domains :
       healPc = "finish" /\ healPc' = "none" /\ d \in healSet /\ domainStatus'[d] = "healthy"
         /\ domainStatus[d] = "escalating" => d \in repaired]_watchVars

(* A domain in its cooldown is not sent to a new repair: the cooldown      *)
(* comes with failures = 0, and no check is selected until it lapses.      *)
(* (With MaxRetries = 1 a check that was under way may still do it.)       *)
NoHealInCooldown ==
  [][healing' /\ ~healing => \A d \in healSet' : ~cooling'[d]]_watchVars

(* Every repair attempt ends. *)
HealTerminates == healing ~> ~healing

(* Stop (close, wait for run, wait for the heal) returns. *)
StopReturns == stop ~> tickPc = "exited" /\ ~healing

=============================================================================
