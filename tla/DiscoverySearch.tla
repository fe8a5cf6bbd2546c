-------------------------- MODULE DiscoverySearch ---------------------------
(***************************************************************************)
(* One run of RunDiscovery (src/src/discovery/discovery.go): the DNS       *)
(* phase, the cached presets, the baseline and the strategy presets, the   *)
(* extended search, the optimisation of each working family on a           *)
(* representative domain, the combinations, and the report finalize makes. *)
(*                                                                         *)
(* A preset is a pair of its phase and its name.  What a preset does to    *)
(* packets, which payload it fakes and the byte count of a fetch are left  *)
(* out: a probe ends failed, or complete at some speed (0 for an empty     *)
(* page).  CancelCheckSuite may come at any point.  The context of the     *)
(* fetches follows the cancel channel in a goroutine of its own, so a      *)
(* probe may still succeed after the cancel.                               *)
(***************************************************************************)
EXTENDS Integers, Sequences, FiniteSets

CONSTANTS
  Domains, Primary,      \* the suite's domains; the one it names
  Families,              \* families that can be found to work
  CachedPresets,         \* discoveryCache.GetCachedPresets()
  Phase1Presets,         \* GetPhase1Presets() less the tested ones
  Phase2Presets,         \* GetPhase2Presets, a function of the family
  ExtendedPresets,       \* the same for all families, in order
  CombinationPresets,    \* GetCombinationPresets
  FamilyOf,              \* the family of a preset, or "none"
  Searched, FallsBack,   \* families optimised by a search; by presets
                         \* when the search finds nothing
  Reorderings,           \* what reorderByFamilies may make of phase 1
  MaxSpeed, MaxSuccesses \* bounds on the speeds and on the successes kept

NoPreset  == <<"none", "none">>
NoBypass  == <<"baseline", "no-bypass">>
PastSeq   == <<"baseline", "combo-pastseq">>
Alternate == <<"baseline", "combo-pastseq-alt">>
Probe     == <<"optimization", "search">>   \* ttl-search, pos-search, ...
Optimized(f) == <<"optimization", f>>

Elements(s) == {s[i] : i \in 1..Len(s)}

Names ==
  {NoBypass, PastSeq, Alternate, Probe} \cup {Optimized(f) : f \in Families}
    \cup Elements(CachedPresets) \cup Elements(Phase1Presets)
    \cup UNION {Elements(Phase2Presets[f]) : f \in Families}
    \cup Elements(ExtendedPresets) \cup Elements(CombinationPresets)

(* What Probe finds: no domain is poisoned, some is, or all are blocked;   *)
(* it returns on a blocked domain before it may call it poisoned.          *)
DnsVerdicts == {"ok", "poisoned", "blocked"}

(* What a test of a preset leaves: nothing, a failure, or a speed. *)
Untested == -2
Failed   == -1
Outcomes == Untested..MaxSpeed
Complete(o) == o >= 0

ASSUME DomainsAssumption == IsFiniteSet(Domains) /\ Primary \in Domains
ASSUME BoundsAssumption == MaxSpeed \in Nat /\ MaxSuccesses \in Nat

(* No loop tests the baseline again: filterTestedPresets drops it, and no  *)
(* other list has it.                                                      *)
Bypasses == Names \ {NoBypass}
ASSUME PresetsAssumption ==
  /\ CachedPresets \in Seq(Bypasses) /\ Reorderings \subseteq Seq(Bypasses)
  /\ Phase2Presets \in [Families -> Seq(Bypasses)]
  /\ ExtendedPresets \in Seq(Bypasses) /\ CombinationPresets \in Seq(Bypasses)
  /\ FamilyOf \in [Names -> Families \cup {"none"}]
  /\ \A p \in Elements(ExtendedPresets) : FamilyOf[p] \in Families
  /\ NoPreset \notin Names

(* The cached presets are numbered, and the extended search has names of   *)
(* its own: none is tested before it.                                      *)
ASSUME NamesAssumption ==
  /\ \A i, j \in 1..Len(CachedPresets) : CachedPresets[i] = CachedPresets[j] => i = j
  /\ \A p \in Elements(ExtendedPresets) :
       /\ p \notin {PastSeq, Alternate} \cup Elements(CachedPresets)
       /\ \A s \in Reorderings : p \notin Elements(s)

VARIABLES
  pc, status, canceled,
  dns,            \* some domain is poisoned; or all are blocked; or neither
  queue,          \* presets the current loop still has to test
  testing,        \* the preset under test
  inflight, got,  \* the domains it is probed on, and what they returned
  cur,            \* ds.Domain
  results, best,  \* domainResults
  works,          \* allBaselineWorks
  families,       \* workingFamilies
  todo, opt, mode,\* families to optimise; the best preset of the first one
  groups, remaining

probeVars  == <<testing, inflight, got>>
resultVars == <<results, best>>
optVars    == <<todo, opt, mode>>
groupVars  == <<groups, remaining>>
vars == <<pc, status, canceled, dns, queue, probeVars, cur, resultVars,
          works, families, optVars, groupVars>>

NoBest   == [preset |-> NoPreset, speed |-> 0, success |-> FALSE]
BestType == [preset : Names \cup {NoPreset}, speed : 0..MaxSpeed, success : BOOLEAN]

(* Every variable has its type, and no family is listed twice. *)
TypeOK ==
  /\ pc \in {"begin", "running", "dns", "cached", "baseline", "payload", "strategy",
             "verdict", "extended", "families", "optimize", "validate", "combine",
             "finalize", "group", "done"}
  /\ status \in {"pending", "running", "complete", "canceled"}
  /\ canceled \in BOOLEAN
  /\ dns \in DnsVerdicts
  /\ queue \in Seq(Bypasses) /\ testing \in Names \cup {NoPreset}
  /\ inflight \subseteq Domains /\ got \in [Domains -> Outcomes]
  /\ cur \in Domains
  /\ results \in [Domains -> [Names -> Outcomes]]
  /\ best \in [Domains -> BestType]
  /\ works \in BOOLEAN
  /\ families \in Seq(Families) /\ todo \in Seq(Families)
  /\ \A i, j \in 1..Len(families) : families[i] = families[j] => i = j
  /\ opt \in [preset : Bypasses \cup {NoPreset}, speed : 0..MaxSpeed]
  /\ mode \in {"presets", "search"}
  /\ groups \in Seq([winner : Names, domains : SUBSET Domains])
  /\ remaining \subseteq Domains

NoOpt == [preset |-> NoPreset, speed |-> 0]
Nothing == [d \in Domains |-> Untested]

Init ==
  /\ pc = "begin" /\ status = "pending" /\ canceled = FALSE
  /\ dns = "ok"
  /\ queue = <<>>
  /\ testing = NoPreset /\ inflight = {} /\ got = Nothing
  /\ cur = Primary
  /\ results = [d \in Domains |-> [p \in Names |-> Untested]]
  /\ best = [d \in Domains |-> NoBest]
  /\ works = TRUE
  /\ families = <<>> /\ todo = <<>> /\ opt = NoOpt /\ mode = "presets"
  /\ groups = <<>> /\ remaining = {}

----------------------------------------------------------------------------
(* Testing a preset *)

(* The tests on ds.Domain alone, in one goroutine and without a look at    *)
(* the channel; the others probe every domain at once.                     *)
Single == pc \in {"payload", "extended", "optimize"}

Begin(p, where) ==
  /\ testing = NoPreset
  /\ testing' = p
  /\ inflight' = where
  /\ got' = Nothing

(* The successes of bypass presets the results hold. *)
Kept == Cardinality({x \in Domains \X (Names \ {NoBypass}) : Complete(results[x[1]][x[2]])})

(* The probes return, in whatever order: fetchForDomain failed in one of   *)
(* the validation tries, or all of them read the page.  After the cancel a *)
(* domain may not be spawned, or its goroutine returns before the next     *)
(* try: it leaves no result.                                               *)
ProbesReturn ==
  /\ inflight # {}
  /\ \E o \in [inflight -> Outcomes] :
       /\ \A d \in inflight : o[d] = Untested => canceled /\ ~Single
       /\ testing # NoBypass =>
            Kept + Cardinality({d \in inflight : Complete(o[d])}) <= MaxSuccesses
       /\ got' = [d \in Domains |-> IF d \in inflight THEN o[d] ELSE Untested]
  /\ inflight' = {}
  /\ UNCHANGED <<pc, status, canceled, dns, queue, testing, cur, resultVars,
                 works, families, optVars, groupVars>>

Returned == {d \in Domains : got[d] # Untested}
Probed   == testing # NoPreset /\ inflight = {}

(* storeResult and storeResultsMulti: a result replaces one of the same    *)
(* name, and a faster success becomes the domain's best.                   *)
StoreResults ==
  /\ Probed
  /\ results' = [d \in Domains |->
       IF d \in Returned THEN [results[d] EXCEPT ![testing] = got[d]] ELSE results[d]]
  /\ best' = [d \in Domains |->
       IF testing # NoBypass /\ got[d] > best[d].speed
       THEN [preset |-> testing, speed |-> got[d], success |-> TRUE] ELSE best[d]]
  /\ testing' = NoPreset /\ got' = Nothing /\ UNCHANGED inflight

(* A loop over presets takes the next one, unless canceled. *)
LoopNext(where) ==
  /\ queue # <<>>
  /\ Begin(Head(queue), where)
  /\ queue' = Tail(queue)
  /\ UNCHANGED <<pc, status, canceled, dns, cur, resultVars, works, families,
                 optVars, groupVars>>
LoopStore ==
  /\ StoreResults
  /\ UNCHANGED <<pc, status, canceled, dns, queue, cur, works, families,
                 optVars, groupVars>>
LoopOver == testing = NoPreset /\ (queue = <<>> \/ canceled)

(* What determineBest may leave: for each domain a fastest preset, the     *)
(* baseline excepted; the order of a map decides a tie.                    *)
Speed(d, p) == IF p = NoBypass THEN 0 ELSE results[d][p]
Fastest(d) ==
  {p \in Names : Speed(d, p) > 0 /\ \A q \in Names : Speed(d, q) <= Speed(d, p)}
Bests(d) ==
  IF Fastest(d) = {} THEN {NoBest}
  ELSE {[preset |-> p, speed |-> results[d][p], success |-> TRUE] : p \in Fastest(d)}

(* Mutant: the best of the loops is taken as it is. *)
MutKeepBest == UNCHANGED best

DetermineBest ==
  best' \in {b \in [Domains -> UNION {Bests(d) : d \in Domains}] :
               \A d \in Domains : b[d] \in Bests(d)}

----------------------------------------------------------------------------
(* The phases of RunDiscovery *)

RunCanceled ==
  /\ pc = "begin" /\ canceled
  /\ status' = "canceled"
  /\ pc' = "finalize"
  /\ UNCHANGED <<canceled, dns, queue, probeVars, cur, resultVars, works,
                 families, optVars, groupVars>>

RunBegins ==
  /\ pc = "begin" /\ ~canceled
  /\ pc' = "running"
  /\ UNCHANGED <<status, canceled, dns, queue, probeVars, cur, resultVars, works,
                 families, optVars, groupVars>>

(* setStatus does not look at the channel again. *)
SetRunning ==
  /\ pc = "running"
  /\ status' = "running"
  /\ pc' = "dns"
  /\ UNCHANGED <<canceled, dns, queue, probeVars, cur, resultVars, works,
                 families, optVars, groupVars>>

(* anyDNSPoisoned and allDomainsTransportBlocked are all the later phases  *)
(* read; a skipped DNS phase leaves what a clean one does.                 *)
RunDNS ==
  /\ pc = "dns"
  /\ dns' \in DnsVerdicts
  /\ queue' = CachedPresets
  /\ pc' = "cached"
  /\ UNCHANGED <<status, canceled, probeVars, cur, resultVars, works,
                 families, optVars, groupVars>>

CachedNext == pc = "cached" /\ ~canceled /\ LoopNext(Domains)
CachedStored == pc = "cached" /\ LoopStore

(* A cancel here reports what was found so far. *)
CachedCanceled ==
  /\ pc = "cached" /\ LoopOver /\ queue # <<>>
  /\ pc' = "finalize"
  /\ UNCHANGED <<status, canceled, dns, queue, probeVars, cur, resultVars, works,
                 families, optVars, groupVars>>

(* runPhase1Multi begins with the baseline, canceled or not. *)
BaselineBegins ==
  /\ pc = "cached" /\ queue = <<>>
  /\ Begin(NoBypass, Domains)
  /\ pc' = "baseline"
  /\ UNCHANGED <<status, canceled, dns, queue, cur, resultVars, works,
                 families, optVars, groupVars>>

(* Mutant: one domain that works is taken for all. *)
MutBaselineAny ==
  LET ok == {d \in Domains : Complete(got[d])} IN
  works' = (ok # {} \/ Returned = {})

(* allBaselineWorks, over the domains that returned. *)
BaselineWorks ==
  LET ok == {d \in Domains : Complete(got[d])} IN
  works' = (Returned \subseteq ok)

(* baselineSpeed, the mean over the domains the baseline worked for, or 0. *)
BaselineOk == {d \in Domains : Complete(results[d][NoBypass])}
BaselineSum ==
  LET sum[T \in SUBSET Domains] ==
        IF T = {} THEN 0
        ELSE LET d == CHOOSE d \in T : TRUE IN results[d][NoBypass] + sum[T \ {d}]
  IN  sum[BaselineOk]
BaselineCount == IF BaselineOk = {} THEN 1 ELSE Cardinality(BaselineOk)

(* With payloads of the user the payload tests keep no result. *)
BaselineStored ==
  /\ pc = "baseline"
  /\ StoreResults
  /\ BaselineWorks
  /\ queue' \in {<<>>, <<PastSeq, Alternate>>}
  /\ pc' = "payload"
  /\ UNCHANGED <<status, canceled, dns, cur, families, optVars, groupVars>>

(* detectWorkingPayloads, on the primary domain. *)
PayloadNext == pc = "payload" /\ LoopNext({cur})
PayloadStored == pc = "payload" /\ LoopStore

(* The presets of the families the failure suggests come first. *)
StrategyBegins ==
  /\ pc = "payload" /\ testing = NoPreset /\ queue = <<>>
  /\ queue' \in Reorderings
  /\ pc' = "strategy"
  /\ UNCHANGED <<status, canceled, dns, probeVars, cur, resultVars, works,
                 families, optVars, groupVars>>

StrategyNext == pc = "strategy" /\ ~canceled /\ LoopNext(Domains)

Listed(f) ==
  families' = IF f \in Elements(families) THEN families ELSE Append(families, f)

(* A family works if it is nearly as fast as the baseline somewhere. *)
StrategyStored ==
  LET f == FamilyOf[testing]
      good(d) == Complete(got[d]) /\ 5 * got[d] * BaselineCount > 4 * BaselineSum
  IN
  /\ pc = "strategy"
  /\ StoreResults
  /\ IF f # "none" /\ \E d \in Domains : good(d) THEN Listed(f) ELSE UNCHANGED families
  /\ UNCHANGED <<pc, status, canceled, dns, queue, cur, works, optVars, groupVars>>

(* The end of runPhase1Multi: a much faster bypass refutes the baseline    *)
(* (a canceled loop does not look), and determineBest.                     *)
StrategyOver ==
  LET faster == /\ queue = <<>> /\ families # <<>>
                /\ \E d \in Domains : 2 * best[d].speed * BaselineCount > 3 * BaselineSum
  IN
  /\ pc = "strategy" /\ LoopOver
  /\ works' = (works /\ ~faster)
  /\ DetermineBest
  /\ queue' = <<>>
  /\ pc' = "verdict"
  /\ UNCHANGED <<status, canceled, dns, probeVars, cur, results,
                 families, optVars, groupVars>>

NoneNeeded == works /\ dns # "poisoned"

(* The speed reported is baselineSpeed; nothing reads it again. *)
ReportNoBypass ==
  /\ pc = "verdict" /\ NoneNeeded
  /\ best' = [d \in Domains |->
       [preset |-> NoBypass, speed |-> 0, success |-> TRUE]]
  /\ pc' = "finalize"
  /\ UNCHANGED <<status, canceled, dns, queue, probeVars, cur, results,
                 works, families, optVars, groupVars>>

(* allDomainsTransportBlocked: no strategy would help. *)
AllBlocked == dns = "blocked"

GiveUpBlocked ==
  /\ pc = "verdict" /\ ~NoneNeeded /\ families = <<>> /\ AllBlocked
  /\ pc' = "finalize"
  /\ UNCHANGED <<status, canceled, dns, queue, probeVars, cur, resultVars, works,
                 families, optVars, groupVars>>

ExtendedBegins ==
  /\ pc = "verdict" /\ ~NoneNeeded /\ families = <<>> /\ ~AllBlocked
  /\ queue' = ExtendedPresets
  /\ pc' = "extended"
  /\ UNCHANGED <<status, canceled, dns, probeVars, cur, resultVars, works,
                 families, optVars, groupVars>>

ExtendedNext == pc = "extended" /\ ~canceled /\ LoopNext({cur})

ExtendedStored ==
  /\ pc = "extended"
  /\ StoreResults
  /\ IF Complete(got[cur]) THEN Listed(FamilyOf[testing]) ELSE UNCHANGED families
  /\ UNCHANGED <<pc, status, canceled, dns, queue, cur, works, optVars, groupVars>>

ExtendedOver ==
  /\ pc = "extended" /\ LoopOver
  /\ queue' = <<>> /\ todo' = families
  /\ pc' = IF families = <<>> THEN "finalize" ELSE "families"
  /\ UNCHANGED <<status, canceled, dns, probeVars, cur, resultVars, works,
                 families, opt, mode, groupVars>>

OptimizeBegins ==
  /\ pc = "verdict" /\ ~NoneNeeded /\ families # <<>>
  /\ todo' = families
  /\ pc' = "families"
  /\ UNCHANGED <<status, canceled, dns, queue, probeVars, cur, resultVars, works,
                 families, opt, mode, groupVars>>

(* findRepresentativeDomain: a domain with the fastest result of the       *)
(* family, or the primary one.                                             *)
Representatives(f) ==
  LET fast(d) == {results[d][p] : p \in {q \in Names : FamilyOf[q] = f}} \ {Untested, Failed, 0}
      all == UNION {fast(d) : d \in Domains}
      top == {d \in Domains : \E s \in fast(d) : \A t \in all : t <= s}
  IN  IF top = {} THEN {cur} ELSE top

(* withSingleDomain for the next family.  A search may return a preset it  *)
(* tested under the same name (tcp-pos-middle).                            *)
FamilyNext ==
  /\ pc = "families" /\ todo # <<>> /\ ~canceled
  /\ cur' \in Representatives(Head(todo))
  /\ IF Head(todo) \in Searched
     THEN mode' = "search" /\ queue' \in {<<Probe>>, <<Probe, Optimized(Head(todo))>>}
     ELSE mode' = "presets" /\ queue' = Phase2Presets[Head(todo)]
  /\ opt' = NoOpt
  /\ pc' = "optimize"
  /\ UNCHANGED <<status, canceled, dns, probeVars, resultVars, works, families,
                 todo, groupVars>>

(* Some searches look at the channel before a probe, some do not.  A       *)
(* search keeps any success, the presets only one with a speed.            *)
OptimizeNext == pc = "optimize" /\ (canceled => mode = "search") /\ LoopNext({cur})

OptimizeStored ==
  /\ pc = "optimize"
  /\ StoreResults
  /\ opt' = IF got[cur] > opt.speed \/ (mode = "search" /\ opt = NoOpt /\ Complete(got[cur]))
            THEN [preset |-> testing, speed |-> got[cur]] ELSE opt
  /\ UNCHANGED <<pc, status, canceled, dns, queue, cur, works, families, todo,
                 mode, groupVars>>

(* optimizeCombo turns to the presets when no TTL worked. *)
OptimizeFallsBack ==
  /\ pc = "optimize" /\ LoopOver
  /\ mode = "search" /\ Head(todo) \in FallsBack /\ opt = NoOpt
  /\ mode' = "presets" /\ queue' = Phase2Presets[Head(todo)]
  /\ UNCHANGED <<pc, status, canceled, dns, probeVars, cur, resultVars, works,
                 families, todo, opt, groupVars>>

(* The winner is validated on every domain, under its own name. *)
OptimizeOver ==
  LET f == Head(todo)
      winner == IF mode = "search" THEN Optimized(f) ELSE opt.preset
  IN
  /\ pc = "optimize" /\ LoopOver
  /\ ~(mode = "search" /\ f \in FallsBack /\ opt = NoOpt)
  /\ queue' = <<>> /\ cur' = Primary
  /\ IF winner = NoPreset
     THEN pc' = "families" /\ todo' = Tail(todo) /\ UNCHANGED probeVars
     ELSE pc' = "validate" /\ Begin(winner, Domains) /\ UNCHANGED todo
  /\ UNCHANGED <<status, canceled, dns, resultVars, works, families, opt, mode,
                 groupVars>>

ValidateStored ==
  /\ pc = "validate"
  /\ StoreResults
  /\ pc' = "families" /\ todo' = Tail(todo)
  /\ UNCHANGED <<status, canceled, dns, queue, cur, works, families, opt, mode,
                 groupVars>>

(* runPhase3Multi needs two families. *)
FamiliesOver ==
  /\ pc = "families" /\ (todo = <<>> \/ canceled)
  /\ DetermineBest
  /\ pc' = "combine"
  /\ queue' = IF Len(families) >= 2 THEN CombinationPresets ELSE <<>>
  /\ UNCHANGED <<status, canceled, dns, probeVars, cur, results, works,
                 families, optVars, groupVars>>

CombineNext == pc = "combine" /\ ~canceled /\ LoopNext(Domains)
CombineStored == pc = "combine" /\ LoopStore

CombineOver ==
  /\ pc = "combine" /\ LoopOver
  /\ DetermineBest
  /\ queue' = <<>>
  /\ pc' = "finalize"
  /\ UNCHANGED <<status, canceled, dns, probeVars, cur, results, works,
                 families, optVars, groupVars>>

----------------------------------------------------------------------------
(* The report *)

(* finalize, and the start of buildStrategyGroups. *)
Finalize ==
  /\ pc = "finalize"
  /\ status' = IF status = "canceled" THEN status ELSE "complete"
  /\ groups' = <<>>
  /\ remaining' = {d \in Domains : best[d].success}
  /\ pc' = "group"
  /\ UNCHANGED <<canceled, dns, queue, probeVars, cur, resultVars, works,
                 families, optVars>>

(* Mutant: a domain that has a group is counted again. *)
MutCoversAll(p) == {d \in Domains : p # NoBypass /\ Complete(results[d][p])}

(* The domains still without a group that preset p completed for. *)
Covers(p) == {d \in remaining : p # NoBypass /\ Complete(results[d][p])}

PhaseRank(p) ==
  CASE p[1] \in {"baseline", "cached"} -> 0
    [] p[1] = "strategy" -> 1
    [] p[1] = "optimization" -> 2
    [] p[1] = "combination" -> 3
    [] OTHER -> 4

(* The widest cover, then the earliest phase; the priority and the name    *)
(* that break further ties are left open.                                  *)
Winners ==
  {p \in Names :
     /\ Covers(p) # {}
     /\ \A q \in Names :
          \/ Cardinality(Covers(q)) < Cardinality(Covers(p))
          \/ /\ Cardinality(Covers(q)) = Cardinality(Covers(p))
             /\ PhaseRank(p) <= PhaseRank(q)}

Grouped(p) == [winner |-> p, domains |-> Covers(p)]

BuildGroup ==
  /\ pc = "group"
  /\ \E p \in Winners :
       /\ groups' = Append(groups, Grouped(p))
       /\ remaining' = remaining \ Covers(p)
  /\ UNCHANGED <<pc, status, canceled, dns, queue, probeVars, cur, resultVars, works,
                 families, optVars>>

GroupsOver ==
  /\ pc = "group" /\ \A p \in Names : Covers(p) = {}
  /\ pc' = "done"
  /\ UNCHANGED <<status, canceled, dns, queue, probeVars, cur, resultVars, works,
                 families, optVars, groupVars>>

(* A user, the watchdog or Runtime.Stop. *)
CancelCheckSuite ==
  /\ status \in {"pending", "running"}
  /\ canceled' = TRUE
  /\ status' = "canceled"
  /\ UNCHANGED <<pc, dns, queue, probeVars, cur, resultVars, works, families,
                 optVars, groupVars>>

----------------------------------------------------------------------------
Start == RunCanceled \/ RunBegins \/ SetRunning \/ RunDNS
Cached == CachedNext \/ CachedStored \/ CachedCanceled
Phase1 ==
  \/ BaselineBegins \/ BaselineStored \/ PayloadNext \/ PayloadStored
  \/ StrategyBegins \/ StrategyNext \/ StrategyStored \/ StrategyOver
Verdict == ReportNoBypass \/ GiveUpBlocked \/ ExtendedBegins \/ OptimizeBegins
Extended == ExtendedNext \/ ExtendedStored \/ ExtendedOver
Phase2 ==
  \/ FamilyNext \/ OptimizeNext \/ OptimizeStored \/ OptimizeFallsBack
  \/ OptimizeOver \/ ValidateStored \/ FamiliesOver
Phase3 == CombineNext \/ CombineStored \/ CombineOver
Report == Finalize \/ BuildGroup \/ GroupsOver

Finished == pc = "done" /\ UNCHANGED vars

Next ==
  \/ Start \/ ProbesReturn \/ Cached \/ Phase1 \/ Verdict \/ Extended
  \/ Phase2 \/ Phase3 \/ Report \/ CancelCheckSuite \/ Finished

Spec == Init /\ [][Next]_vars

----------------------------------------------------------------------------
(* Properties *)

(* What the search reports as best is the fastest result it kept, although *)
(* names are tested again and a later failure replaces a success; a domain *)
(* is reported as failed only if nothing worked for it.                    *)
BestIsFastest ==
  pc \in {"group", "done"} =>
    \A d \in Domains : best[d].preset # NoBypass => best[d] \in Bests(d)

(* A search that was not canceled says that no bypass is needed only if    *)
(* the baseline was complete for every domain.                             *)
NoBypassChecked ==
  ~canceled =>
    \A d \in Domains : best[d].preset = NoBypass =>
      \A e \in Domains : Complete(results[e][NoBypass])

(* The strategy groups: no domain is in two, every domain is one its       *)
(* winner completed for, none that has a working preset is left out, and   *)
(* the groups come widest first.                                           *)
GroupsCover ==
  LET in(i) == groups[i].domains IN
  /\ \A i, j \in 1..Len(groups) : i # j => in(i) \cap in(j) = {}
  /\ \A i, j \in 1..Len(groups) : i < j => Cardinality(in(i)) >= Cardinality(in(j))
  /\ \A i \in 1..Len(groups) : \A d \in in(i) : Complete(results[d][groups[i].winner])
  /\ pc = "done" => \A d \in Domains :
       best[d].success =>
         \/ \E i \in 1..Len(groups) : d \in in(i)
         \/ \A p \in Names \ {NoBypass} : ~Complete(results[d][p])

=============================================================================
