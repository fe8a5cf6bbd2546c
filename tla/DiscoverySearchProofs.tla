----------------------- MODULE DiscoverySearchProofs ------------------------
(***************************************************************************)
(* What a search reports, proved for any set of domains, any families and  *)
(* any lists of presets.                                                   *)
(***************************************************************************)
EXTENDS DiscoverySearch, FiniteSetTheorems, TLAPS

USE DEF Untested, Failed

(* Every preset named in the module is one of Names. *)
LEMMA Named ==
  /\ NoBypass \in Names /\ PastSeq \in Bypasses /\ Alternate \in Bypasses
  /\ Probe \in Bypasses
  /\ \A f \in Families : Optimized(f) \in Bypasses
BY DEF Names, Bypasses, NoBypass, PastSeq, Alternate, Probe, Optimized

(* The extended search tests presets of a family. *)
ExtendedOnly ==
  pc = "extended" => /\ queue \in Seq(Elements(ExtendedPresets))
                     /\ testing \in Elements(ExtendedPresets) \cup {NoPreset}

LEMMA Elem == ASSUME NEW S, NEW s \in Seq(S)
              PROVE  Elements(s) \subseteq S /\ s \in Seq(Elements(s))
BY DEF Elements

(* The loops keep their sequences. *)
LEMMA NextType ==
  ASSUME TypeOK, NEW where \in SUBSET Domains, LoopNext(where)
  PROVE  TypeOK'
<1>1. Head(queue) \in Bypasses /\ Tail(queue) \in Seq(Bypasses)
  BY DEF TypeOK, LoopNext
<1>2. got' \in [Domains -> Outcomes]
  BY BoundsAssumption DEF LoopNext, Begin, Nothing, Outcomes
<1> QED
  BY <1>1, <1>2 DEF TypeOK, LoopNext, Begin, resultVars, optVars, groupVars, Bypasses

LEMMA StoreType ==
  ASSUME TypeOK, StoreResults
  PROVE  /\ results' \in [Domains -> [Names -> Outcomes]]
         /\ best' \in [Domains -> BestType]
         /\ testing' \in Names \cup {NoPreset}
         /\ inflight' \subseteq Domains /\ got' \in [Domains -> Outcomes]
<1>1. testing \in Names
  BY DEF TypeOK, StoreResults, Probed
<1>2. results' \in [Domains -> [Names -> Outcomes]]
  <2> SUFFICES ASSUME NEW d \in Domains
               PROVE  (IF d \in Returned THEN [results[d] EXCEPT ![testing] = got[d]]
                       ELSE results[d]) \in [Names -> Outcomes]
    BY DEF StoreResults
  <2> QED
    BY <1>1 DEF TypeOK
<1>3. best' \in [Domains -> BestType]
  <2> SUFFICES ASSUME NEW d \in Domains
               PROVE  (IF testing # NoBypass /\ got[d] > best[d].speed
                       THEN [preset |-> testing, speed |-> got[d], success |-> TRUE]
                       ELSE best[d]) \in BestType
    BY DEF StoreResults
  <2>1. got[d] \in Int /\ got[d] <= MaxSpeed /\ best[d] \in BestType
    BY BoundsAssumption DEF TypeOK, Outcomes
  <2>2. best[d].speed \in 0..MaxSpeed
    BY <2>1 DEF BestType
  <2>3. CASE testing # NoBypass /\ got[d] > best[d].speed
    <3>1. got[d] \in 0..MaxSpeed
      BY <2>1, <2>2, <2>3, BoundsAssumption
    <3> QED
      BY <2>3, <3>1, <1>1 DEF BestType
  <2>4. CASE ~(testing # NoBypass /\ got[d] > best[d].speed)
    BY <2>1, <2>4
  <2> QED
    BY <2>3, <2>4
<1>4. got' \in [Domains -> Outcomes]
  BY BoundsAssumption DEF StoreResults, Nothing, Outcomes
<1> QED
  BY <1>2, <1>3, <1>4 DEF TypeOK, StoreResults

LEMMA DetermineType ==
  ASSUME TypeOK, DetermineBest
  PROVE  /\ best' \in [Domains -> BestType]
         /\ \A d \in Domains : best'[d].preset # NoBypass
<1> SUFFICES ASSUME NEW d \in Domains, NEW b \in Bests(d)
             PROVE  b \in BestType /\ b.preset # NoBypass
  BY DEF DetermineBest
<1>1. CASE b = NoBest
  BY <1>1, BoundsAssumption DEF NoBest, BestType, NoPreset, NoBypass
<1>2. ASSUME NEW p \in Fastest(d), b = [preset |-> p, speed |-> results[d][p], success |-> TRUE]
      PROVE  b \in BestType /\ b.preset # NoBypass
  <2>1. p \in Names /\ p # NoBypass
    BY <1>2 DEF Fastest, Speed
  <2>2. results[d][p] \in Outcomes /\ results[d][p] > 0
    BY <2>1, <1>2 DEF Fastest, Speed, TypeOK
  <2>3. results[d][p] \in 0..MaxSpeed
    BY <2>2, BoundsAssumption DEF Outcomes
  <2> QED
    BY <1>2, <2>1, <2>3 DEF BestType
<1> QED
  BY <1>1, <1>2 DEF Bests

(* While a family is optimised or validated, it is the first of todo. *)
TodoLeft == pc \in {"optimize", "validate"} => todo # <<>>

(* The baseline is tested in its own place only. *)
TestsBypass == testing = NoBypass => pc = "baseline"

(* No probe runs while the results of phase 1 are judged. *)
Rests == pc \in {"verdict", "families"} => testing = NoPreset

Types == TypeOK /\ ExtendedOnly /\ TodoLeft /\ TestsBypass /\ Rests

LEMMA InitTypes == Init => Types
<1> SUFFICES ASSUME Init PROVE Types
  OBVIOUS
<1>1. got \in [Domains -> Outcomes] /\ results \in [Domains -> [Names -> Outcomes]]
  BY BoundsAssumption DEF Init, Nothing, Outcomes
<1>2. best \in [Domains -> BestType] /\ opt \in [preset : Bypasses \cup {NoPreset}, speed : 0..MaxSpeed]
  BY BoundsAssumption DEF Init, NoBest, BestType, NoOpt
<1>3. ExtendedOnly /\ TodoLeft /\ TestsBypass /\ Rests
  BY DEF Init, Rests, ExtendedOnly, TodoLeft, TestsBypass, NoPreset, NoBypass
<1>4. /\ queue \in Seq(Bypasses) /\ families \in Seq(Families) /\ todo \in Seq(Families)
      /\ groups \in Seq([winner : Names, domains : SUBSET Domains])
      /\ \A i, j \in 1..Len(families) : families[i] = families[j] => i = j
  BY DEF Init
<1> QED
  BY <1>1, <1>2, <1>3, <1>4, DomainsAssumption DEF Init, Types, TypeOK, DnsVerdicts

LEMMA TypeStep == Types /\ [Next]_vars => TypeOK'
<1> SUFFICES ASSUME Types, [Next]_vars PROVE TypeOK'
  OBVIOUS
<1> USE DEF Types, probeVars, resultVars, optVars, groupVars
<1>1. CASE Start
  BY <1>1, PresetsAssumption DEF Start, RunCanceled, RunBegins, SetRunning, RunDNS, TypeOK
<1>2. CASE ProbesReturn
  <2>1. PICK o \in [inflight -> Outcomes] :
               got' = [d \in Domains |-> IF d \in inflight THEN o[d] ELSE Untested]
    BY <1>2 DEF ProbesReturn
  <2>2. got' \in [Domains -> Outcomes]
    BY <2>1, BoundsAssumption DEF Outcomes
  <2> QED
    BY <1>2, <2>2 DEF ProbesReturn, TypeOK
<1>3. CASE Cached
  <2>1. CASE CachedNext
    BY <2>1, NextType DEF CachedNext
  <2>2. CASE CachedStored
    BY <2>2, StoreType DEF CachedStored, LoopStore, TypeOK
  <2>3. CASE CachedCanceled
    BY <2>3 DEF CachedCanceled, TypeOK
  <2> QED
    BY <1>3, <2>1, <2>2, <2>3 DEF Cached
<1>4. CASE Phase1
  <2>1. CASE BaselineBegins
    <3>1. got' \in [Domains -> Outcomes]
      BY <2>1, BoundsAssumption DEF BaselineBegins, Begin, Nothing, Outcomes
    <3> QED
      BY <2>1, <3>1, Named DEF BaselineBegins, Begin, TypeOK
  <2>2. CASE BaselineStored
    <3>1. works' \in BOOLEAN
      BY <2>2 DEF BaselineStored, BaselineWorks
    <3>2. queue' \in Seq(Bypasses)
      <4>1. <<>> \in Seq(Bypasses) /\ <<PastSeq, Alternate>> \in Seq(Bypasses)
        BY Named
      <4> QED
        BY <2>2, <4>1 DEF BaselineStored
    <3> QED
      BY <2>2, <3>1, <3>2, StoreType DEF BaselineStored, TypeOK
  <2>3. CASE PayloadNext
    BY <2>3, NextType DEF PayloadNext, TypeOK
  <2>4. CASE PayloadStored
    BY <2>4, StoreType DEF PayloadStored, LoopStore, TypeOK
  <2>5. CASE StrategyBegins
    BY <2>5, PresetsAssumption DEF StrategyBegins, TypeOK
  <2>6. CASE StrategyNext
    BY <2>6, NextType DEF StrategyNext
  <2>7. CASE StrategyStored
    <3>1. FamilyOf[testing] # "none" => FamilyOf[testing] \in Families
      BY <2>7, PresetsAssumption DEF StrategyStored, StoreResults, Probed, TypeOK
    <3>2. /\ families' \in Seq(Families)
          /\ \A i, j \in 1..Len(families') : families'[i] = families'[j] => i = j
      <4>1. CASE families' = families
        BY <4>1 DEF TypeOK
      <4>2. CASE /\ FamilyOf[testing] \notin Elements(families)
                 /\ FamilyOf[testing] \in Families
                 /\ families' = Append(families, FamilyOf[testing])
        BY <4>2 DEF TypeOK, Elements
      <4> QED
        BY <2>7, <3>1, <4>1, <4>2 DEF StrategyStored, Listed
    <3> QED
      BY <2>7, <3>2, StoreType DEF StrategyStored, TypeOK
  <2>8. CASE StrategyOver
    BY <2>8, DetermineType DEF StrategyOver, TypeOK
  <2> QED
    BY <1>4, <2>1, <2>2, <2>3, <2>4, <2>5, <2>6, <2>7, <2>8 DEF Phase1
<1>5. CASE Verdict
  <2>1. CASE ReportNoBypass
    <3>1. best' \in [Domains -> BestType]
      BY <2>1, Named, BoundsAssumption DEF ReportNoBypass, BestType
    <3> QED
      BY <2>1, <3>1 DEF ReportNoBypass, TypeOK
  <2>2. CASE GiveUpBlocked
    BY <2>2 DEF GiveUpBlocked, TypeOK
  <2>3. CASE ExtendedBegins
    BY <2>3, PresetsAssumption DEF ExtendedBegins, TypeOK
  <2>4. CASE OptimizeBegins
    BY <2>4 DEF OptimizeBegins, TypeOK
  <2> QED
    BY <1>5, <2>1, <2>2, <2>3, <2>4 DEF Verdict
<1>6. CASE Extended
  <2>1. CASE ExtendedNext
    BY <2>1, NextType DEF ExtendedNext, TypeOK
  <2>2. CASE ExtendedStored
    <3>1. FamilyOf[testing] \in Families
      BY <2>2, PresetsAssumption DEF ExtendedStored, StoreResults, Probed, ExtendedOnly
    <3>2. /\ families' \in Seq(Families)
          /\ \A i, j \in 1..Len(families') : families'[i] = families'[j] => i = j
      <4>1. CASE families' = families
        BY <4>1 DEF TypeOK
      <4>2. CASE /\ FamilyOf[testing] \notin Elements(families)
                 /\ families' = Append(families, FamilyOf[testing])
        BY <3>1, <4>2 DEF TypeOK, Elements
      <4> QED
        BY <2>2, <4>1, <4>2 DEF ExtendedStored, Listed
    <3> QED
      BY <2>2, <3>2, StoreType DEF ExtendedStored, TypeOK
  <2>3. CASE ExtendedOver
    BY <2>3 DEF ExtendedOver, TypeOK
  <2> QED
    BY <1>6, <2>1, <2>2, <2>3 DEF Extended
<1>7. CASE Phase2
  <2>1. CASE FamilyNext
    <3>1. Head(todo) \in Families
      BY <2>1 DEF FamilyNext, TypeOK
    <3>2. cur' \in Domains
      BY <2>1 DEF FamilyNext, Representatives, TypeOK
    <3>3. queue' \in Seq(Bypasses) /\ mode' \in {"presets", "search"}
      <4>1. CASE Head(todo) \in Searched
        <5>1. <<Probe>> \in Seq(Bypasses) /\ <<Probe, Optimized(Head(todo))>> \in Seq(Bypasses)
          BY <3>1, Named
        <5> QED
          BY <2>1, <4>1, <5>1 DEF FamilyNext
      <4>2. CASE Head(todo) \notin Searched
        BY <2>1, <3>1, <4>2, PresetsAssumption DEF FamilyNext
      <4> QED
        BY <4>1, <4>2
    <3>4. opt' \in [preset : Bypasses \cup {NoPreset}, speed : 0..MaxSpeed]
      BY <2>1, BoundsAssumption DEF FamilyNext, NoOpt
    <3> QED
      BY <2>1, <3>2, <3>3, <3>4 DEF FamilyNext, TypeOK
  <2>2. CASE OptimizeNext
    BY <2>2, NextType DEF OptimizeNext, TypeOK
  <2>3. CASE OptimizeStored
    <3>1. testing \in Bypasses
      BY <2>3 DEF OptimizeStored, StoreResults, Probed, TestsBypass, TypeOK, Bypasses
    <3>2. got[cur] \in Int /\ got[cur] <= MaxSpeed /\ opt.speed \in 0..MaxSpeed
      BY BoundsAssumption DEF TypeOK, Outcomes
    <3>3. opt' \in [preset : Bypasses \cup {NoPreset}, speed : 0..MaxSpeed]
      <4>1. CASE opt' = [preset |-> testing, speed |-> got[cur]] /\ got[cur] >= 0
        BY <3>1, <3>2, <4>1, BoundsAssumption
      <4>2. CASE opt' = opt
        BY <4>2 DEF TypeOK
      <4> QED
        BY <2>3, <3>2, <4>1, <4>2 DEF OptimizeStored, Complete
    <3> QED
      BY <2>3, <3>3, StoreType DEF OptimizeStored, TypeOK
  <2>4. CASE OptimizeFallsBack
    <3>1. Head(todo) \in Families
      BY <2>4 DEF OptimizeFallsBack, TypeOK, TodoLeft
    <3> QED
      BY <2>4, <3>1, PresetsAssumption DEF OptimizeFallsBack, TypeOK
  <2>5. CASE OptimizeOver
    <3>1. Head(todo) \in Families /\ Tail(todo) \in Seq(Families)
      BY <2>5 DEF OptimizeOver, TypeOK, TodoLeft
    <3>2. queue' \in Seq(Bypasses)
      BY <2>5 DEF OptimizeOver
    <3>3. CASE pc' = "families" /\ todo' = Tail(todo) /\ UNCHANGED probeVars
      BY <2>5, <3>1, <3>2, <3>3, DomainsAssumption DEF OptimizeOver, TypeOK
    <3>4. ASSUME NEW p \in Bypasses, pc' = "validate", Begin(p, Domains), UNCHANGED todo
          PROVE  TypeOK'
      <4>1. got' \in [Domains -> Outcomes]
        BY <3>4, BoundsAssumption DEF Begin, Nothing, Outcomes
      <4> QED
        BY <2>5, <3>2, <3>4, <4>1, DomainsAssumption DEF OptimizeOver, Begin, TypeOK, Bypasses
    <3>5. opt.preset \in Bypasses \cup {NoPreset}
      BY DEF TypeOK
    <3> QED
      BY <2>5, <3>1, <3>3, <3>4, <3>5, Named DEF OptimizeOver
  <2>6. CASE ValidateStored
    <3>1. Tail(todo) \in Seq(Families)
      BY <2>6 DEF ValidateStored, TypeOK, TodoLeft
    <3> QED
      BY <2>6, <3>1, StoreType DEF ValidateStored, TypeOK
  <2>7. CASE FamiliesOver
    <3>1. queue' \in Seq(Bypasses)
      BY <2>7, PresetsAssumption DEF FamiliesOver
    <3> QED
      BY <2>7, <3>1, DetermineType DEF FamiliesOver, TypeOK
  <2> QED
    BY <1>7, <2>1, <2>2, <2>3, <2>4, <2>5, <2>6, <2>7 DEF Phase2
<1>8. CASE Phase3
  <2>1. CASE CombineNext
    BY <2>1, NextType DEF CombineNext
  <2>2. CASE CombineStored
    BY <2>2, StoreType DEF CombineStored, LoopStore, TypeOK
  <2>3. CASE CombineOver
    BY <2>3, DetermineType DEF CombineOver, TypeOK
  <2> QED
    BY <1>8, <2>1, <2>2, <2>3 DEF Phase3
<1>9. CASE Report
  <2>1. CASE Finalize
    BY <2>1 DEF Finalize, TypeOK
  <2>2. CASE BuildGroup
    <3>1. PICK p \in Winners : /\ groups' = Append(groups, Grouped(p))
                               /\ remaining' = remaining \ Covers(p)
      BY <2>2 DEF BuildGroup
    <3>2. Grouped(p) \in [winner : Names, domains : SUBSET Domains]
      BY <3>1 DEF Grouped, Covers, Winners, TypeOK
    <3> QED
      BY <2>2, <3>1, <3>2 DEF BuildGroup, TypeOK
  <2>3. CASE GroupsOver
    BY <2>3 DEF GroupsOver, TypeOK
  <2> QED
    BY <1>9, <2>1, <2>2, <2>3 DEF Report
<1>10. CASE CancelCheckSuite
  BY <1>10 DEF CancelCheckSuite, TypeOK
<1>11. CASE UNCHANGED vars
  BY <1>11 DEF vars, TypeOK
<1> QED
  BY <1>1, <1>2, <1>3, <1>4, <1>5, <1>6, <1>7, <1>8, <1>9, <1>10, <1>11 DEF Next, Finished

LEMMA TailIn == ASSUME NEW S, NEW s \in Seq(S), s # <<>>
                PROVE  Head(s) \in S /\ Tail(s) \in Seq(S)
OBVIOUS

LEMMA ShapeStep == Types /\ [Next]_vars => (ExtendedOnly /\ TodoLeft /\ TestsBypass /\ Rests)'
<1> SUFFICES ASSUME Types, [Next]_vars PROVE (ExtendedOnly /\ TodoLeft /\ TestsBypass /\ Rests)'
  OBVIOUS
<1> USE DEF Types, probeVars, resultVars, optVars, groupVars
<1>a. NoPreset # NoBypass /\ NoBypass \notin Bypasses
  BY DEF NoPreset, NoBypass, Bypasses
<1>b. ASSUME NEW where, LoopNext(where), pc \notin {"verdict", "families"}
      PROVE  (ExtendedOnly /\ TodoLeft /\ TestsBypass /\ Rests)'
  <2>1. /\ testing' = Head(queue) /\ queue' = Tail(queue) /\ queue # <<>>
        /\ UNCHANGED <<pc, todo>>
    BY <1>b DEF LoopNext, Begin
  <2>2. testing' \in Bypasses
    BY <2>1 DEF TypeOK
  <2>3. ExtendedOnly'
    BY <2>1, TailIn DEF ExtendedOnly
  <2> QED
    BY <1>a, <1>b, <2>1, <2>2, <2>3 DEF TodoLeft, TestsBypass, Rests
<1>1. CASE Start
  BY <1>1 DEF Start, RunCanceled, RunBegins, SetRunning, RunDNS, ExtendedOnly, TodoLeft, TestsBypass, Rests
<1>2. CASE ProbesReturn
  BY <1>2 DEF ProbesReturn, ExtendedOnly, TodoLeft, TestsBypass, Rests
<1>3. CASE Cached
  BY <1>3, <1>a, <1>b DEF Cached, CachedNext, CachedStored, CachedCanceled, LoopNext, LoopStore,
     StoreResults, LoopOver, ExtendedOnly, TodoLeft, TestsBypass, Rests
<1>4. CASE Phase1
  <2>1. CASE PayloadNext \/ StrategyNext
    BY <2>1, <1>b DEF PayloadNext, StrategyNext
  <2>2. CASE BaselineBegins \/ BaselineStored \/ PayloadStored \/ StrategyBegins
    BY <2>2, <1>a DEF BaselineBegins, BaselineStored, PayloadStored, StrategyBegins, LoopStore,
       StoreResults, Begin, ExtendedOnly, TodoLeft, TestsBypass, Rests
  <2>3. CASE StrategyStored \/ StrategyOver
    BY <2>3, <1>a DEF StrategyStored, StrategyOver, LoopOver, StoreResults, ExtendedOnly, TodoLeft,
       TestsBypass, Rests
  <2> QED
    BY <1>4, <2>1, <2>2, <2>3 DEF Phase1
<1>5. CASE Verdict
  <2>1. CASE ExtendedBegins
    <3>1. ExtendedPresets \in Seq(Elements(ExtendedPresets))
      BY PresetsAssumption, Elem
    <3>2. testing = NoPreset
      BY <2>1 DEF ExtendedBegins, Rests
    <3> QED
      BY <2>1, <3>1, <3>2, <1>a DEF ExtendedBegins, ExtendedOnly, TodoLeft, TestsBypass, Rests
  <2>2. CASE ReportNoBypass \/ GiveUpBlocked \/ OptimizeBegins
    BY <2>2 DEF ReportNoBypass, GiveUpBlocked, OptimizeBegins, ExtendedOnly, TodoLeft, TestsBypass, Rests
  <2> QED
    BY <1>5, <2>1, <2>2 DEF Verdict
<1>6. CASE Extended
  <2>1. CASE ExtendedNext
    BY <2>1, <1>b DEF ExtendedNext
  <2>2. CASE ExtendedStored
    BY <2>2, <1>a DEF ExtendedStored, StoreResults, ExtendedOnly, TodoLeft, TestsBypass, Rests
  <2>3. CASE ExtendedOver
    BY <2>3, <1>a DEF ExtendedOver, LoopOver, ExtendedOnly, TodoLeft, TestsBypass, Rests
  <2> QED
    BY <1>6, <2>1, <2>2, <2>3 DEF Extended
<1>7. CASE Phase2
  <2>1. CASE OptimizeNext
    BY <2>1, <1>b DEF OptimizeNext
  <2>2. CASE FamilyNext \/ OptimizeStored \/ OptimizeFallsBack
    BY <2>2, <1>a DEF FamilyNext, OptimizeStored, OptimizeFallsBack, StoreResults, ExtendedOnly,
       TodoLeft, TestsBypass, Rests
  <2>3. CASE OptimizeOver
    <3>1. opt.preset # NoBypass /\ \A f : Optimized(f) # NoBypass
      BY <1>a DEF TypeOK, Optimized, NoBypass
    <3> QED
      BY <2>3, <3>1, <1>a DEF OptimizeOver, LoopOver, Begin, ExtendedOnly, TodoLeft, TestsBypass, Rests
  <2>4. CASE ValidateStored \/ FamiliesOver
    BY <2>4, <1>a DEF ValidateStored, FamiliesOver, StoreResults, ExtendedOnly, TodoLeft, TestsBypass, Rests
  <2> QED
    BY <1>7, <2>1, <2>2, <2>3, <2>4 DEF Phase2
<1>8. CASE Phase3
  BY <1>8, <1>a, <1>b DEF Phase3, CombineNext, CombineStored, CombineOver, LoopNext, LoopStore,
     StoreResults, LoopOver, ExtendedOnly, TodoLeft, TestsBypass, Rests
<1>9. CASE Report
  BY <1>9 DEF Report, Finalize, BuildGroup, GroupsOver, ExtendedOnly, TodoLeft, TestsBypass, Rests
<1>10. CASE CancelCheckSuite
  BY <1>10 DEF CancelCheckSuite, ExtendedOnly, TodoLeft, TestsBypass, Rests
<1>11. CASE UNCHANGED vars
  BY <1>11 DEF vars, ExtendedOnly, TodoLeft, TestsBypass, Rests
<1> QED
  BY <1>1, <1>2, <1>3, <1>4, <1>5, <1>6, <1>7, <1>8, <1>9, <1>10, <1>11 DEF Next, Finished

(* Every variable has its type in every state of RunDiscovery, and no      *)
(* family is optimised twice.                                              *)
THEOREM TypeCorrect == Spec => []TypeOK
<1>1. Types /\ [Next]_vars => Types'
  BY TypeStep, ShapeStep DEF Types
<1>2. Types => TypeOK
  BY DEF Types
<1> QED
  BY InitTypes, <1>1, <1>2, PTL DEF Spec

----------------------------------------------------------------------------
(* No bypass is needed *)

(* The baseline was complete for every domain. *)
AllComplete == \A e \in Domains : Complete(results[e][NoBypass])

BeforeVerdict == {"begin", "running", "dns", "cached", "baseline"}

(* The baseline is tested on all domains, or the search is canceled.  Then *)
(* allBaselineWorks means what its name says, and only a verdict of it     *)
(* makes the baseline the best preset.                                     *)
Probing ==
  pc = "baseline" =>
    /\ testing = NoBypass
    /\ \/ inflight = Domains
       \/ inflight = {} /\ (canceled \/ \A d \in Domains : got[d] # Untested)
WorksMeans == pc \notin BeforeVerdict /\ works /\ ~canceled => AllComplete
Reported ==
  \A d \in Domains : best[d].preset = NoBypass =>
    pc \in {"finalize", "group", "done"} /\ (canceled \/ AllComplete)
CheckInv == Probing /\ WorksMeans /\ Reported

(* A preset other than the baseline leaves the baseline's results alone,   *)
(* and does not make it the best.                                          *)
LEMMA StoreKeeps ==
  ASSUME TypeOK, StoreResults, testing # NoBypass
  PROVE  /\ AllComplete' = AllComplete
         /\ \A d \in Domains : best'[d].preset = NoBypass => best[d].preset = NoBypass
<1>1. \A e \in Domains : results'[e][NoBypass] = results[e][NoBypass]
  BY DEF StoreResults, TypeOK
<1> QED
  BY <1>1 DEF AllComplete, StoreResults, Complete

LEMMA CheckInit == Init => CheckInv
BY DEF Init, CheckInv, Probing, WorksMeans, Reported, BeforeVerdict, NoBest, NoPreset, NoBypass

LEMMA CheckStep == Types /\ CheckInv /\ [Next]_vars => CheckInv'
<1> SUFFICES ASSUME Types, CheckInv, [Next]_vars PROVE CheckInv'
  OBVIOUS
<1> USE DEF Types, CheckInv, probeVars, resultVars, optVars, groupVars
<1>a. NoPreset # NoBypass
  BY DEF NoPreset, NoBypass
<1>s. ASSUME StoreResults, pc \notin {"baseline", "finalize", "group", "done"},
             pc' \notin {"baseline", "finalize", "group", "done"},
             pc' \in BeforeVerdict \/ pc \notin BeforeVerdict, UNCHANGED <<works, canceled>>
      PROVE  CheckInv'
  BY <1>s, StoreKeeps DEF TestsBypass, Probing, WorksMeans, Reported
<1>k. ASSUME UNCHANGED <<works, canceled, results, best>>, pc' # "baseline",
             pc \notin {"finalize", "group", "done"} \/ pc' \in {"finalize", "group", "done"},
             pc' \in BeforeVerdict \/ pc \notin BeforeVerdict \/ canceled
      PROVE  CheckInv'
  BY <1>k DEF Probing, WorksMeans, Reported, AllComplete
<1>n. ASSUME NEW where, LoopNext(where), pc \notin {"baseline", "finalize", "group", "done"}
      PROVE  CheckInv'
  BY <1>n, <1>k DEF LoopNext
<1>1. CASE Start
  BY <1>1, <1>k DEF Start, RunCanceled, RunBegins, SetRunning, RunDNS, BeforeVerdict
<1>2. CASE ProbesReturn
  <2>1. PICK o \in [inflight -> Outcomes] :
               /\ \A d \in inflight : o[d] = Untested => canceled
               /\ got' = [d \in Domains |-> IF d \in inflight THEN o[d] ELSE Untested]
    BY <1>2 DEF ProbesReturn
  <2>2. Probing'
    <3> SUFFICES ASSUME pc = "baseline", ~canceled
                 PROVE  \A d \in Domains : got'[d] # Untested
      BY <1>2 DEF ProbesReturn, Probing
    <3>1. inflight = Domains
      BY <1>2 DEF ProbesReturn, Probing
    <3> QED
      BY <2>1, <3>1
  <2>3. (WorksMeans /\ Reported)'
    BY <1>2 DEF ProbesReturn, WorksMeans, Reported, AllComplete
  <2> QED
    BY <2>2, <2>3
<1>3. CASE Cached
  BY <1>3, <1>s, <1>k, <1>n DEF Cached, CachedNext, CachedStored, CachedCanceled, LoopStore, LoopOver,
     BeforeVerdict
<1>4. CASE Phase1
  <2>1. CASE BaselineBegins
    BY <2>1 DEF BaselineBegins, Begin, Probing, WorksMeans, Reported, AllComplete, BeforeVerdict
  <2>2. CASE BaselineStored
    <3>1. testing = NoBypass /\ inflight = {}
      BY <2>2 DEF BaselineStored, StoreResults, Probed, Probing
    <3>2. UNCHANGED best
      BY <2>2, <3>1 DEF BaselineStored, StoreResults, TypeOK
    <3>3. ASSUME works', ~canceled PROVE AllComplete'
      <4>1. \A d \in Domains : got[d] # Untested
        BY <2>2, <3>1, <3>3 DEF BaselineStored, Probing
      <4>2. \A d \in Domains : d \in Returned /\ Complete(got[d])
        BY <2>2, <3>3, <4>1 DEF BaselineStored, BaselineWorks, Returned
      <4> QED
        BY <2>2, <3>1, <4>2, Named DEF BaselineStored, StoreResults, AllComplete, TypeOK
    <3>4. \A d \in Domains : best[d].preset # NoBypass
      BY <2>2 DEF BaselineStored, Reported
    <3> QED
      BY <2>2, <3>2, <3>3, <3>4 DEF BaselineStored, Probing, WorksMeans, Reported
  <2>3. CASE PayloadNext \/ StrategyNext
    BY <2>3, <1>n DEF PayloadNext, StrategyNext
  <2>4. CASE PayloadStored \/ StrategyStored
    BY <2>4, <1>s DEF PayloadStored, StrategyStored, LoopStore, BeforeVerdict
  <2>5. CASE StrategyBegins
    BY <2>5, <1>k DEF StrategyBegins, BeforeVerdict
  <2>6. CASE StrategyOver
    BY <2>6, DetermineType DEF StrategyOver, Probing, WorksMeans, Reported, AllComplete, BeforeVerdict
  <2> QED
    BY <1>4, <2>1, <2>2, <2>3, <2>4, <2>5, <2>6 DEF Phase1
<1>5. CASE Verdict
  <2>1. CASE ReportNoBypass
    BY <2>1 DEF ReportNoBypass, NoneNeeded, Probing, WorksMeans, Reported, AllComplete, BeforeVerdict
  <2>2. CASE GiveUpBlocked \/ ExtendedBegins \/ OptimizeBegins
    BY <2>2, <1>k DEF GiveUpBlocked, ExtendedBegins, OptimizeBegins, BeforeVerdict
  <2> QED
    BY <1>5, <2>1, <2>2 DEF Verdict
<1>6. CASE Extended
  BY <1>6, <1>s, <1>k, <1>n DEF Extended, ExtendedNext, ExtendedStored, ExtendedOver, BeforeVerdict
<1>7. CASE Phase2
  <2>1. CASE FamilyNext \/ OptimizeNext \/ OptimizeFallsBack \/ OptimizeOver
    BY <2>1, <1>k, <1>n DEF FamilyNext, OptimizeNext, OptimizeFallsBack, OptimizeOver, BeforeVerdict
  <2>2. CASE OptimizeStored \/ ValidateStored
    BY <2>2, <1>s DEF OptimizeStored, ValidateStored, BeforeVerdict
  <2>3. CASE FamiliesOver
    BY <2>3, DetermineType DEF FamiliesOver, Probing, WorksMeans, Reported, AllComplete, BeforeVerdict
  <2> QED
    BY <1>7, <2>1, <2>2, <2>3 DEF Phase2
<1>8. CASE Phase3
  <2>1. CASE CombineNext \/ CombineStored
    BY <2>1, <1>s, <1>n DEF CombineNext, CombineStored, LoopStore, BeforeVerdict
  <2>2. CASE CombineOver
    BY <2>2, DetermineType DEF CombineOver, Probing, WorksMeans, Reported, AllComplete, BeforeVerdict
  <2> QED
    BY <1>8, <2>1, <2>2 DEF Phase3
<1>9. CASE Report
  BY <1>9, <1>k DEF Report, Finalize, BuildGroup, GroupsOver, BeforeVerdict
<1>10. CASE CancelCheckSuite
  BY <1>10 DEF CancelCheckSuite, Probing, WorksMeans, Reported, AllComplete
<1>11. CASE UNCHANGED vars
  BY <1>11 DEF vars, Probing, WorksMeans, Reported, AllComplete
<1> QED
  BY <1>1, <1>2, <1>3, <1>4, <1>5, <1>6, <1>7, <1>8, <1>9, <1>10, <1>11 DEF Next, Finished

(* A search that nobody canceled reports that no bypass is needed only     *)
(* when every domain was fetched without one.                              *)
THEOREM NoBypassIsChecked == Spec => []NoBypassChecked
<1>1. Types /\ [Next]_vars => Types'
  BY TypeStep, ShapeStep DEF Types
<1>2. CheckInv => NoBypassChecked
  BY DEF CheckInv, Reported, AllComplete, NoBypassChecked
<1> QED
  BY InitTypes, CheckInit, CheckStep, <1>1, <1>2, PTL DEF Spec

----------------------------------------------------------------------------
(* The strategy groups *)

In(i) == groups[i].domains
Grouping == pc \in {"group", "done"}

(* The groups are built after the search; each is at least as wide as any  *)
(* cover of the domains that remain, and a domain with a best preset is    *)
(* in a group or remains.                                                  *)
NoneYet  == ~Grouping => groups = <<>>
Disjoint == \A i, j \in 1..Len(groups) : i # j => In(i) \cap In(j) = {}
Widest   == \A i, j \in 1..Len(groups) : i < j => Cardinality(In(i)) >= Cardinality(In(j))
Served   == \A i \in 1..Len(groups) : \A d \in In(i) : Complete(results[d][groups[i].winner])
Left ==
  Grouping =>
    /\ \A i \in 1..Len(groups) : In(i) \cap remaining = {}
    /\ \A i \in 1..Len(groups) : \A p \in Names : Cardinality(Covers(p)) <= Cardinality(In(i))
    /\ \A d \in Domains : best[d].success =>
         d \in remaining \/ \E i \in 1..Len(groups) : d \in In(i)
Exhausted == pc = "done" => \A p \in Names : Covers(p) = {}
GroupInv == NoneYet /\ Disjoint /\ Widest /\ Served /\ Left /\ Exhausted

LEMMA GroupInit == Init => GroupInv
BY DEF Init, GroupInv, NoneYet, Disjoint, Widest, Served, Left, Exhausted, Grouping

LEMMA CoversFinite ==
  ASSUME TypeOK, NEW p
  PROVE  IsFiniteSet(Covers(p)) /\ Cardinality(Covers(p)) \in Nat
<1>1. Covers(p) \subseteq Domains
  BY DEF Covers, TypeOK
<1> QED
  BY <1>1, DomainsAssumption, FS_Subset, FS_CardinalityType

LEMMA GroupsFinite ==
  ASSUME TypeOK, NEW i \in 1..Len(groups)
  PROVE  Cardinality(In(i)) \in Nat
<1> DEFINE G == [winner : Names, domains : SUBSET Domains]
<1>1. groups[i] \in G
  <2>1. groups \in Seq(G)
    BY DEF TypeOK
  <2> HIDE DEF G
  <2> QED
    BY <2>1
<1>2. In(i) \subseteq Domains
  BY <1>1 DEF In
<1> QED
  BY <1>2, DomainsAssumption, FS_Subset, FS_CardinalityType

LEMMA GroupStep == Types /\ GroupInv /\ [Next]_vars => GroupInv'
<1> SUFFICES ASSUME Types, GroupInv, [Next]_vars PROVE GroupInv'
  OBVIOUS
<1> USE DEF Types, GroupInv, probeVars, resultVars, optVars, groupVars
<1>1. ASSUME ~Grouping, ~Grouping', UNCHANGED groups PROVE GroupInv'
  BY <1>1 DEF NoneYet, Disjoint, Widest, Served, Left, Exhausted, Grouping
<1>2. ASSUME UNCHANGED <<pc, results, best, groups, remaining>> PROVE GroupInv'
  BY <1>2 DEF NoneYet, Disjoint, Widest, Served, Left, Exhausted, Grouping, In, Covers
<1>3. CASE Start \/ Cached
  BY <1>1, <1>3 DEF Start, RunCanceled, RunBegins, SetRunning, RunDNS, Cached, CachedNext,
     CachedStored, CachedCanceled, LoopNext, LoopStore, Grouping
<1>4. CASE Phase1
  BY <1>1, <1>4 DEF Phase1, BaselineBegins, BaselineStored, PayloadNext, PayloadStored,
     StrategyBegins, StrategyNext, StrategyStored, StrategyOver, LoopNext, LoopStore, Grouping
<1>5. CASE Verdict \/ Extended
  BY <1>1, <1>5 DEF Verdict, ReportNoBypass, GiveUpBlocked, ExtendedBegins, OptimizeBegins,
     Extended, ExtendedNext, ExtendedStored, ExtendedOver, LoopNext, Grouping
<1>6. CASE Phase2
  BY <1>1, <1>6 DEF Phase2, FamilyNext, OptimizeNext, OptimizeStored, OptimizeFallsBack,
     OptimizeOver, ValidateStored, FamiliesOver, LoopNext, Grouping
<1>7. CASE Phase3
  BY <1>1, <1>7 DEF Phase3, CombineNext, CombineStored, CombineOver, LoopNext, LoopStore, Grouping
<1>8. CASE ProbesReturn \/ CancelCheckSuite \/ UNCHANGED vars
  BY <1>2, <1>8 DEF ProbesReturn, CancelCheckSuite, vars
<1>9. CASE Finalize
  BY <1>9 DEF Finalize, NoneYet, Disjoint, Widest, Served, Left, Exhausted, Grouping
<1>10. CASE GroupsOver
  BY <1>10 DEF GroupsOver, NoneYet, Disjoint, Widest, Served, Left, Exhausted, Grouping, In, Covers
<1>11. CASE BuildGroup
  <2>1. PICK p \in Winners : /\ groups' = Append(groups, Grouped(p))
                             /\ remaining' = remaining \ Covers(p)
    BY <1>11 DEF BuildGroup
  <2>n. PICK n \in Nat : n = Len(groups)
    BY DEF TypeOK
  <2>2. /\ Len(groups') = n + 1
        /\ \A i \in 1..n : groups'[i] = groups[i] /\ In(i)' = In(i)
        /\ groups'[n + 1] = Grouped(p) /\ In(n + 1)' = Covers(p)
    <3>1. Grouped(p) \in [winner : Names, domains : SUBSET Domains]
      BY DEF Grouped, Covers, Winners, TypeOK
    <3> QED
      BY <2>1, <2>n, <3>1 DEF TypeOK, In, Grouped
  <2>3. pc = "group" /\ UNCHANGED <<pc, results, best>> /\ Grouping /\ p \in Names
    BY <1>11, <2>1 DEF BuildGroup, Grouping, Winners
  <2>4. Disjoint'
    <3>1. \A i \in 1..n : In(i) \cap Covers(p) = {}
      BY <2>3, <2>n DEF Left, Covers
    <3> QED
      BY <2>2, <2>n, <3>1 DEF Disjoint
  <2>5. Widest'
    <3>1. \A i \in 1..n : Cardinality(Covers(p)) <= Cardinality(In(i))
      BY <2>3, <2>n DEF Left
    <3>2. \A i \in 1..n : Cardinality(In(i)) \in Nat
      BY <2>n, GroupsFinite
    <3>3. Cardinality(Covers(p)) \in Nat
      BY CoversFinite
    <3> SUFFICES ASSUME NEW i \in 1..(n + 1), NEW j \in 1..(n + 1), i < j
                 PROVE  Cardinality(In(i)') >= Cardinality(In(j)')
      BY <2>2 DEF Widest
    <3>4. i \in 1..n
      BY <2>2
    <3>5. CASE j \in 1..n
      BY <2>2, <2>n, <3>4, <3>5 DEF Widest
    <3>6. CASE j = n + 1
      BY <2>2, <3>1, <3>2, <3>3, <3>4, <3>6
    <3> QED
      BY <2>2, <3>5, <3>6
  <2>6. Served'
    <3>1. \A d \in Covers(p) : Complete(results[d][Grouped(p).winner])
      BY DEF Covers, Grouped
    <3> SUFFICES ASSUME NEW i \in 1..(n + 1), NEW d \in In(i)'
                 PROVE  Complete(results[d][groups'[i].winner])
      BY <2>2, <2>3 DEF Served
    <3>2. CASE i \in 1..n
      BY <2>2, <2>n, <3>2 DEF Served
    <3>3. CASE i = n + 1
      BY <2>2, <3>1, <3>3
    <3> QED
      BY <2>2, <3>2, <3>3
  <2>7. Left'
    <3>1. \A i \in 1..(n + 1) : In(i)' \cap remaining' = {}
      BY <2>1, <2>2, <2>3, <2>n DEF Left
    <3>2. \A q : (Covers(q))' \subseteq Covers(q)
      BY <2>1, <2>3 DEF Covers
    <3>3. \A q : /\ Cardinality((Covers(q))') <= Cardinality(Covers(q))
                 /\ Cardinality((Covers(q))') \in Nat
      BY <3>2, CoversFinite, FS_Subset, FS_CardinalityType
    <3>4. \A q \in Names : Cardinality(Covers(q)) <= Cardinality(Covers(p))
      BY <2>1, CoversFinite DEF Winners
    <3>5. \A i \in 1..(n + 1) : \A q \in Names : Cardinality((Covers(q))') <= Cardinality(In(i)')
      <4> SUFFICES ASSUME NEW i \in 1..(n + 1), NEW q \in Names
                   PROVE  Cardinality((Covers(q))') <= Cardinality(In(i)')
        OBVIOUS
      <4>1. Cardinality(Covers(q)) \in Nat /\ Cardinality(Covers(p)) \in Nat
        BY CoversFinite
      <4>2. CASE i \in 1..n
        <5>1. Cardinality(Covers(q)) <= Cardinality(In(i))
          BY <2>3, <2>n, <4>2 DEF Left
        <5>2. Cardinality(In(i)) \in Nat
          BY <2>n, <4>2, GroupsFinite
        <5> QED
          BY <2>2, <3>3, <4>1, <4>2, <5>1, <5>2
      <4>3. CASE i = n + 1
        BY <2>2, <3>3, <3>4, <4>1, <4>3
      <4> QED
        BY <2>2, <4>2, <4>3
    <3>6. \A d \in Domains : best[d].success =>
            d \in remaining' \/ \E i \in 1..(n + 1) : d \in In(i)'
      BY <2>1, <2>2, <2>3, <2>n DEF Left
    <3> QED
      BY <2>2, <2>3, <3>1, <3>5, <3>6 DEF Left
  <2> QED
    BY <2>3, <2>4, <2>5, <2>6, <2>7 DEF NoneYet, Grouping, Exhausted
<1> QED
  BY <1>3, <1>4, <1>5, <1>6, <1>7, <1>8, <1>9, <1>10, <1>11 DEF Next, Report, Finished

(* The strategy groups are disjoint, widest first, made of domains their   *)
(* winner completed for, and leave out no domain that has a working        *)
(* preset.                                                                 *)
THEOREM GroupsAlwaysCover == Spec => []GroupsCover
<1>1. Types /\ [Next]_vars => Types'
  BY TypeStep, ShapeStep DEF Types
<1>2. Types /\ GroupInv => GroupsCover
  <2> SUFFICES ASSUME Types, GroupInv PROVE GroupsCover
    OBVIOUS
  <2>1. ASSUME pc = "done", NEW d \in Domains, best[d].success,
               \A i \in 1..Len(groups) : d \notin groups[i].domains
        PROVE  \A p \in Names \ {NoBypass} : ~Complete(results[d][p])
    <3>1. d \in remaining
      BY <2>1 DEF GroupInv, Left, Grouping, In
    <3> QED
      BY <2>1, <3>1 DEF GroupInv, Exhausted, Covers
  <2> QED
    BY <2>1 DEF GroupInv, Disjoint, Widest, Served, In, GroupsCover
<1> QED
  BY InitTypes, GroupInit, GroupStep, <1>1, <1>2, PTL DEF Spec

----------------------------------------------------------------------------
(* The best preset *)

ExtendedNames == Elements(ExtendedPresets)
Early == {"begin", "running", "dns", "cached"}
BeforeExtended == Early \cup {"baseline", "payload", "strategy", "verdict"}

(* Nothing is in flight between two tests, and the extended search probes  *)
(* one domain.                                                             *)
Quiet == testing = NoPreset => inflight = {} /\ got = Nothing
OneDomain ==
  pc = "extended" => inflight \subseteq {cur} /\ \A d \in Domains : d # cur => got[d] = Untested

(* The cached presets that are still to be tested have no result yet, so   *)
(* that no success is replaced before a cancel can end the loop.           *)
CachedOnce ==
  pc \in Early =>
    /\ pc # "cached" => queue = <<>> /\ testing = NoPreset
    /\ \A i, j \in 1..Len(queue) : queue[i] = queue[j] => i = j
    /\ testing \notin Elements(queue)
    /\ \A d \in Domains : \A p \in Names :
         p = testing \/ p \in Elements(queue) \/ pc # "cached" => results[d][p] = Untested

(* What storeResult keeps in the meantime: the best is a result, and none  *)
(* is faster.                                                              *)
Leads(d) ==
  /\ \A p \in Names : Speed(d, p) <= best[d].speed
  /\ \/ best[d] = NoBest
     \/ /\ best[d].preset \in Names /\ best[d].preset # NoBypass
        /\ best[d].speed > 0 /\ best[d].success = TRUE
        /\ results[d][best[d].preset] = best[d].speed
Leading == pc \in Early => \A d \in Domains : Leads(d)

(* The names of the extended search are its own: it can only add failures  *)
(* while it has found no family.                                           *)
OwnNames ==
  /\ pc \in BeforeExtended =>
       /\ \A d \in Domains : \A p \in ExtendedNames : results[d][p] = Untested
       /\ testing \notin ExtendedNames /\ Elements(queue) \cap ExtendedNames = {}
  /\ pc = "extended" /\ families = <<>> =>
       \A d \in Domains : \A p \in ExtendedNames : ~Complete(results[d][p])

(* Where a report may follow without determineBest. *)
Judged == pc \in {"verdict", "finalize", "group", "done"} \/ (pc = "extended" /\ families = <<>>)
Chosen == Judged => \A d \in Domains : best[d].preset # NoBypass => best[d] \in Bests(d)

BestInv == Quiet /\ OneDomain /\ CachedOnce /\ Leading /\ OwnNames /\ Chosen

LEMMA ExtendedBypass == ExtendedNames \subseteq Names /\ NoBypass \notin ExtendedNames /\ NoPreset \notin ExtendedNames
BY PresetsAssumption, Elem DEF ExtendedNames, Bypasses

LEMMA LeadsIsBest ==
  ASSUME TypeOK, NEW d \in Domains, Leads(d)
  PROVE  best[d] \in Bests(d)
<1>1. \A p \in Names : Speed(d, p) \in Int
  BY BoundsAssumption DEF TypeOK, Outcomes, Speed
<1>2. CASE best[d] = NoBest
  <2>1. Fastest(d) = {}
    BY <1>1, <1>2 DEF Leads, Fastest, NoBest
  <2> QED
    BY <1>2, <2>1 DEF Bests
<1>3. CASE best[d] # NoBest
  <2>1. /\ best[d].preset \in Names /\ best[d].preset # NoBypass
        /\ best[d].speed > 0 /\ best[d].success = TRUE
        /\ results[d][best[d].preset] = best[d].speed
    BY <1>3 DEF Leads
  <2>2. best[d].preset \in Fastest(d)
    BY <2>1 DEF Fastest, Speed, Leads
  <2>3. best[d] = [preset |-> best[d].preset, speed |-> results[d][best[d].preset], success |-> TRUE]
    BY <2>1 DEF TypeOK, BestType
  <2> QED
    BY <2>2, <2>3 DEF Bests
<1> QED
  BY <1>2, <1>3

(* A name tested for the first time keeps the best preset in the lead. *)
LEMMA StoreLeads ==
  ASSUME TypeOK, StoreResults, testing # NoBypass, NEW d \in Domains, Leads(d),
         results[d][testing] = Untested
  PROVE  Leads(d)'
<1>1. testing \in Names
  BY DEF TypeOK, StoreResults, Probed
<1>2. /\ \A p \in Names : p # testing => results'[d][p] = results[d][p]
      /\ results'[d][testing] = got[d]
  BY <1>1 DEF StoreResults, TypeOK, Returned
<1>3. got[d] \in Int /\ best[d].speed \in Int /\ best[d].speed >= 0
  BY BoundsAssumption DEF TypeOK, Outcomes, BestType
<1>4. \A p \in Names : results[d][p] \in Int
  BY BoundsAssumption DEF TypeOK, Outcomes
<1>5. \A p \in Names : (Speed(d, p))' = IF p = testing THEN got[d] ELSE Speed(d, p)
  BY <1>2 DEF Speed
<1>6. CASE got[d] > best[d].speed
  <2>1. best'[d] = [preset |-> testing, speed |-> got[d], success |-> TRUE]
    BY <1>6 DEF StoreResults
  <2>2. \A p \in Names : (Speed(d, p))' <= got[d]
    BY <1>3, <1>4, <1>5, <1>6 DEF Leads, Speed
  <2> QED
    BY <1>1, <1>2, <1>3, <1>6, <2>1, <2>2 DEF Leads
<1>7. CASE ~(got[d] > best[d].speed)
  <2>1. best'[d] = best[d]
    BY <1>7 DEF StoreResults
  <2>2. \A p \in Names : (Speed(d, p))' <= best[d].speed
    BY <1>3, <1>5, <1>7 DEF Leads
  <2>3. best[d] # NoBest => best[d].preset # testing
    BY <1>1 DEF Leads
  <2> QED
    BY <1>2, <2>1, <2>2, <2>3 DEF Leads
<1> QED
  BY <1>6, <1>7

(* A failure under a name that never worked changes neither the best       *)
(* preset nor the choice determineBest would have.                         *)
LEMMA StoreFailure ==
  ASSUME TypeOK, StoreResults, testing # NoBypass,
         \A d \in Domains : ~Complete(got[d]) /\ ~Complete(results[d][testing])
  PROVE  /\ best' = best
         /\ \A d \in Domains : (Bests(d))' = Bests(d)
<1>1. testing \in Names
  BY DEF TypeOK, StoreResults, Probed
<1>2. \A d \in Domains : got[d] \in Int /\ best[d].speed \in Int /\ best[d].speed >= 0
  BY BoundsAssumption DEF TypeOK, Outcomes, BestType
<1>3. \A d \in Domains : \A p \in Names : results[d][p] \in Int
  BY BoundsAssumption DEF TypeOK, Outcomes
<1>4. best' = best
  BY <1>2 DEF StoreResults, TypeOK, Complete
<1>5. ASSUME NEW d \in Domains PROVE (Bests(d))' = Bests(d)
  <2>t. PICK t \in Names : t = testing
    BY <1>1
  <2>1. /\ \A p \in Names : p # t => results'[d][p] = results[d][p]
        /\ results'[d][t] \in Int /\ results'[d][t] < 0
    BY <2>t, <1>2, <1>3 DEF StoreResults, TypeOK, Complete
  <2>2. /\ \A p \in Names : p # t => (Speed(d, p))' = Speed(d, p)
        /\ (Speed(d, t))' < 0 /\ (Speed(d, t))' \in Int
        /\ Speed(d, t) < 0 /\ Speed(d, t) \in Int
    BY <2>t, <1>3, <2>1 DEF Speed, Complete
  <2>3. \A p \in Names : Speed(d, p) \in Int
    BY <1>3 DEF Speed
  <2>4. (Fastest(d))' = Fastest(d)
    <3>1. ASSUME NEW p \in Names PROVE p \in (Fastest(d))' <=> p \in Fastest(d)
      BY <2>2, <2>3 DEF Fastest
    <3> QED
      BY <3>1 DEF Fastest
  <2>5. \A p \in Fastest(d) : p # t /\ p \in Names
    BY <2>2 DEF Fastest
  <2>6. \A p \in Fastest(d) : results'[d][p] = results[d][p]
    BY <2>1, <2>5
  <2> QED
    BY <2>4, <2>6 DEF Bests
<1> QED
  BY <1>4, <1>5

(* Every test but that of the baseline begins with a bypass preset. *)
LEMMA BeginsBypass ==
  ASSUME TypeOK, NEW where, LoopNext(where)
  PROVE  /\ queue # <<>> /\ testing = NoPreset /\ testing' = Head(queue) /\ queue' = Tail(queue)
         /\ testing' \in Bypasses /\ testing' # NoPreset /\ testing' # NoBypass
         /\ inflight' = where /\ got' = Nothing
<1>1. Head(queue) \in Bypasses
  BY DEF TypeOK, LoopNext
<1> QED
  BY <1>1, PresetsAssumption DEF LoopNext, Begin, Bypasses

LEMMA QuietStep == Types /\ Quiet /\ [Next]_vars => Quiet'
<1> SUFFICES ASSUME Types, Quiet, [Next]_vars PROVE Quiet'
  OBVIOUS
<1> USE DEF Types, probeVars, resultVars, optVars, groupVars
<1>a. NoPreset # NoBypass /\ NoPreset \notin Bypasses
  BY PresetsAssumption DEF NoPreset, NoBypass, Bypasses
<1>b. ASSUME UNCHANGED <<testing, inflight, got>> PROVE Quiet'
  BY <1>b DEF Quiet
<1>n. ASSUME NEW where, LoopNext(where) PROVE Quiet'
  BY <1>n, BeginsBypass DEF Quiet
<1>s. ASSUME StoreResults PROVE Quiet'
  BY <1>s DEF StoreResults, Probed, Quiet
<1>1. CASE Start
  BY <1>1, <1>b DEF Start, RunCanceled, RunBegins, SetRunning, RunDNS
<1>2. CASE ProbesReturn
  BY <1>2 DEF ProbesReturn, Quiet
<1>3. CASE Cached
  BY <1>3, <1>b, <1>n, <1>s DEF Cached, CachedNext, CachedStored, CachedCanceled, LoopStore
<1>4. CASE Phase1
  <2>1. CASE BaselineBegins
    BY <2>1, <1>a DEF BaselineBegins, Begin, Quiet
  <2>2. CASE BaselineStored \/ PayloadNext \/ PayloadStored \/ StrategyNext \/ StrategyStored
    BY <2>2, <1>n, <1>s DEF BaselineStored, PayloadNext, PayloadStored, StrategyNext, StrategyStored, LoopStore
  <2>3. CASE StrategyBegins \/ StrategyOver
    BY <2>3, <1>b DEF StrategyBegins, StrategyOver
  <2> QED
    BY <1>4, <2>1, <2>2, <2>3 DEF Phase1
<1>5. CASE Verdict
  BY <1>5, <1>b DEF Verdict, ReportNoBypass, GiveUpBlocked, ExtendedBegins, OptimizeBegins
<1>6. CASE Extended
  BY <1>6, <1>b, <1>n, <1>s DEF Extended, ExtendedNext, ExtendedStored, ExtendedOver
<1>7. CASE Phase2
  <2>1. CASE OptimizeOver
    <3>1. ASSUME NEW p, p # NoPreset, Begin(p, Domains) PROVE Quiet'
      BY <3>1 DEF Begin, Quiet
    <3> QED
      BY <2>1, <3>1, <1>b DEF OptimizeOver
  <2>2. CASE FamilyNext \/ OptimizeFallsBack \/ FamiliesOver
    BY <2>2, <1>b DEF FamilyNext, OptimizeFallsBack, FamiliesOver
  <2>3. CASE OptimizeNext \/ OptimizeStored \/ ValidateStored
    BY <2>3, <1>n, <1>s DEF OptimizeNext, OptimizeStored, ValidateStored
  <2> QED
    BY <1>7, <2>1, <2>2, <2>3 DEF Phase2
<1>8. CASE Phase3
  BY <1>8, <1>b, <1>n, <1>s DEF Phase3, CombineNext, CombineStored, CombineOver, LoopStore
<1>9. CASE Report
  BY <1>9, <1>b DEF Report, Finalize, BuildGroup, GroupsOver
<1>10. CASE CancelCheckSuite \/ UNCHANGED vars
  BY <1>10, <1>b DEF CancelCheckSuite, vars
<1> QED
  BY <1>1, <1>2, <1>3, <1>4, <1>5, <1>6, <1>7, <1>8, <1>9, <1>10 DEF Next, Finished

(* The steps that lead away from the early phases do not come back. *)
LEMMA EarlySteps ==
  ASSUME Types, Next, pc' \in Early
  PROVE  \/ RunBegins \/ SetRunning \/ RunDNS \/ CachedNext \/ CachedStored
         \/ (ProbesReturn \/ CancelCheckSuite) /\ pc \in Early
<1> USE DEF Types, Early, probeVars, resultVars, optVars, groupVars
<1>1. CASE Start \/ Cached \/ ProbesReturn \/ CancelCheckSuite
  BY <1>1 DEF Start, RunCanceled, Cached, CachedCanceled, ProbesReturn, CancelCheckSuite
<1>2. CASE Phase1
  BY <1>2 DEF Phase1, BaselineBegins, BaselineStored, PayloadNext, PayloadStored, StrategyBegins,
     StrategyNext, StrategyStored, StrategyOver, LoopNext, LoopStore
<1>3. CASE Verdict \/ Extended
  BY <1>3 DEF Verdict, ReportNoBypass, GiveUpBlocked, ExtendedBegins, OptimizeBegins,
     Extended, ExtendedNext, ExtendedStored, ExtendedOver, LoopNext
<1>4. CASE Phase2
  BY <1>4 DEF Phase2, FamilyNext, OptimizeNext, OptimizeStored, OptimizeFallsBack,
     OptimizeOver, ValidateStored, FamiliesOver, LoopNext
<1>5. CASE Phase3 \/ Report \/ Finished
  BY <1>5 DEF Phase3, CombineNext, CombineStored, CombineOver, LoopNext, LoopStore, Report, Finalize,
     BuildGroup, GroupsOver, Finished, vars
<1> QED
  BY <1>1, <1>2, <1>3, <1>4, <1>5 DEF Next

LEMMA CachedStep == Types /\ CachedOnce /\ Leading /\ [Next]_vars => CachedOnce' /\ Leading'
<1> SUFFICES ASSUME Types, CachedOnce, Leading, [Next]_vars, pc' \in Early
             PROVE  CachedOnce' /\ \A d \in Domains : Leads(d)'
  BY DEF CachedOnce, Leading
<1> USE DEF Types, probeVars, resultVars, optVars, groupVars
<1>a. \A d \in Domains : UNCHANGED <<results, best>> /\ Leads(d) => Leads(d)'
  BY DEF Leads, Speed
<1>b. CASE RunBegins \/ SetRunning
  BY <1>a, <1>b DEF RunBegins, SetRunning, CachedOnce, Leading, Early, Elements
<1>c. CASE RunDNS
  <2>1. testing = NoPreset /\ NoPreset \notin Elements(CachedPresets)
    BY <1>c, PresetsAssumption, Elem DEF RunDNS, CachedOnce, Early, Bypasses
  <2> QED
    BY <1>a, <1>c, <2>1, NamesAssumption DEF RunDNS, CachedOnce, Leading, Early
<1>d. CASE CachedNext
  <2>1. /\ queue # <<>> /\ testing = NoPreset /\ testing' = Head(queue) /\ queue' = Tail(queue)
        /\ queue \in Seq(Bypasses) /\ pc = "cached" /\ UNCHANGED <<pc, results, best>>
    BY <1>d, BeginsBypass DEF CachedNext, LoopNext, TypeOK
  <2>2. /\ testing' = queue[1] /\ Len(queue') = Len(queue) - 1 /\ Len(queue) \in Nat /\ Len(queue) > 0
        /\ \A i \in 1..Len(queue') : queue'[i] = queue[i + 1] /\ i + 1 \in 1..Len(queue)
    BY <2>1
  <2>3. Elements(queue') \subseteq Elements(queue) /\ testing' \in Elements(queue)
    BY <2>2 DEF Elements
  <2>4. /\ \A i, j \in 1..Len(queue) : queue[i] = queue[j] => i = j
        /\ \A d \in Domains : \A p \in Names : p \in Elements(queue) => results[d][p] = Untested
    BY <2>1 DEF CachedOnce, Early
  <2>5. testing' \notin Elements(queue')
    BY <2>2, <2>4 DEF Elements
  <2>6. \A i, j \in 1..Len(queue') : queue'[i] = queue'[j] => i = j
    BY <2>2, <2>4
  <2>7. CachedOnce'
    BY <2>1, <2>3, <2>4, <2>5, <2>6 DEF CachedOnce
  <2> QED
    BY <1>a, <2>1, <2>7 DEF Leading, Early
<1>e. CASE CachedStored
  <2>1. pc = "cached" /\ StoreResults /\ UNCHANGED <<pc, queue>> /\ testing' = NoPreset
    BY <1>e DEF CachedStored, LoopStore, StoreResults
  <2>2. testing \in Names /\ testing # NoBypass
    BY <2>1 DEF StoreResults, Probed, TestsBypass, TypeOK
  <2>3. \A d \in Domains : results[d][testing] = Untested
    BY <2>1, <2>2 DEF CachedOnce, Early
  <2>4. \A d \in Domains : Leads(d)'
    BY <2>1, <2>2, <2>3, StoreLeads DEF Leading, Early
  <2>5. /\ testing \notin Elements(queue) /\ NoPreset \notin Elements(queue) /\ NoPreset \notin Names
        /\ \A d \in Domains : \A p \in Names : p \in Elements(queue) => results[d][p] = Untested
        /\ \A i, j \in 1..Len(queue) : queue[i] = queue[j] => i = j
    BY <2>1, PresetsAssumption, Elem DEF CachedOnce, Early, TypeOK, Bypasses
  <2>6. \A d \in Domains : \A p \in Names : p # testing => results'[d][p] = results[d][p]
    BY <2>1, <2>2 DEF StoreResults, TypeOK
  <2>7. \A d \in Domains : \A p \in Names : p \in Elements(queue) => results'[d][p] = Untested
    BY <2>5, <2>6
  <2>8. CachedOnce'
    BY <2>1, <2>5, <2>7 DEF CachedOnce
  <2> QED
    BY <2>4, <2>8
<1>f. CASE (ProbesReturn \/ CancelCheckSuite) /\ pc \in Early
  BY <1>a, <1>f DEF ProbesReturn, CancelCheckSuite, CachedOnce, Leading
<1>g. CASE UNCHANGED vars
  BY <1>a, <1>g DEF vars, CachedOnce, Leading
<1> QED
  BY <1>b, <1>c, <1>d, <1>e, <1>f, <1>g, EarlySteps

(* The steps that stay before the extended search. *)
LEMMA ExtendedSteps ==
  ASSUME Types, Next
  PROVE  /\ pc' = "extended" => \/ ExtendedBegins \/ ExtendedNext \/ ExtendedStored
                                \/ (ProbesReturn \/ CancelCheckSuite) /\ pc = "extended"
         /\ pc' \in BeforeExtended => \/ RunBegins \/ SetRunning \/ RunDNS
                                      \/ CachedNext \/ CachedStored \/ Phase1
                                      \/ (ProbesReturn \/ CancelCheckSuite) /\ pc \in BeforeExtended
<1> USE DEF Types, Early, BeforeExtended, probeVars, resultVars, optVars, groupVars
<1>1. CASE Start \/ Cached \/ ProbesReturn \/ CancelCheckSuite
  BY <1>1 DEF Start, RunCanceled, RunBegins, SetRunning, RunDNS, Cached, CachedNext, CachedStored,
     CachedCanceled, LoopNext, LoopStore, ProbesReturn, CancelCheckSuite
<1>2. CASE Phase1
  BY <1>2 DEF Phase1, BaselineBegins, BaselineStored, PayloadNext, PayloadStored, StrategyBegins,
     StrategyNext, StrategyStored, StrategyOver, LoopNext, LoopStore
<1>3. CASE Verdict \/ Extended
  BY <1>3 DEF Verdict, ReportNoBypass, GiveUpBlocked, ExtendedBegins, OptimizeBegins,
     Extended, ExtendedNext, ExtendedStored, ExtendedOver, LoopNext
<1>4. CASE Phase2
  BY <1>4 DEF Phase2, FamilyNext, OptimizeNext, OptimizeStored, OptimizeFallsBack,
     OptimizeOver, ValidateStored, FamiliesOver, LoopNext
<1>5. CASE Phase3 \/ Report \/ Finished
  BY <1>5 DEF Phase3, CombineNext, CombineStored, CombineOver, LoopNext, LoopStore, Report, Finalize,
     BuildGroup, GroupsOver, Finished, vars
<1> QED
  BY <1>1, <1>2, <1>3, <1>4, <1>5 DEF Next

LEMMA OneDomainStep == Types /\ Quiet /\ OneDomain /\ [Next]_vars => OneDomain'
<1> SUFFICES ASSUME Types, Quiet, OneDomain, [Next]_vars, pc' = "extended" PROVE OneDomain'
  BY DEF OneDomain
<1> USE DEF Types, probeVars, resultVars, optVars, groupVars
<1>1. CASE ExtendedBegins
  BY <1>1 DEF ExtendedBegins, Rests, Quiet, OneDomain, Nothing
<1>2. CASE ExtendedNext
  BY <1>2, BeginsBypass DEF ExtendedNext, LoopNext, OneDomain, Nothing
<1>3. CASE ExtendedStored
  BY <1>3 DEF ExtendedStored, StoreResults, Probed, OneDomain, Nothing
<1>4. CASE ProbesReturn /\ pc = "extended"
  BY <1>4 DEF ProbesReturn, OneDomain
<1>5. CASE (CancelCheckSuite /\ pc = "extended") \/ UNCHANGED vars
  BY <1>5 DEF CancelCheckSuite, vars, OneDomain
<1> QED
  BY <1>1, <1>2, <1>3, <1>4, <1>5, ExtendedSteps

(* A result other than one of the extended search leaves those alone. *)
LEMMA StoreOthers ==
  ASSUME TypeOK, StoreResults, testing \notin ExtendedNames
  PROVE  \A d \in Domains : \A p \in ExtendedNames : results'[d][p] = results[d][p]
BY ExtendedBypass DEF StoreResults, TypeOK

(* What the extended search leaves when it finds no family. *)
LEMMA ExtendedFails ==
  ASSUME Types, Quiet, OneDomain, OwnNames, ExtendedStored, families' = <<>>
  PROVE  /\ families = <<>> /\ testing \in ExtendedNames /\ testing # NoBypass
         /\ \A d \in Domains : ~Complete(got[d]) /\ ~Complete(results[d][testing])
<1> USE DEF Types
<1>1. families = <<>> /\ ~Complete(got[cur])
  <2>1. families \in Seq(Families)
    BY DEF TypeOK
  <2>2. \A f \in Families : Append(families, f) # <<>>
    <3>1. \A f \in Families : Len(Append(families, f)) = Len(families) + 1 /\ Len(families) \in Nat
      BY <2>1
    <3>2. Len(<<>>) = 0
      OBVIOUS
    <3> QED
      BY <3>1, <3>2
  <2>3. FamilyOf[testing] \in Families
    BY PresetsAssumption DEF ExtendedStored, StoreResults, Probed, ExtendedOnly
  <2>4. CASE Complete(got[cur])
    <3>1. families # <<>>
      BY <2>1, <2>2, <2>3, <2>4 DEF ExtendedStored, Listed, Elements
    <3> QED
      BY <2>2, <2>3, <2>4, <3>1 DEF ExtendedStored, Listed
  <2> QED
    BY <2>4 DEF ExtendedStored
<1>2. testing \in ExtendedNames /\ testing # NoBypass
  BY ExtendedBypass DEF ExtendedStored, StoreResults, Probed, ExtendedOnly, ExtendedNames
<1>3. \A d \in Domains : ~Complete(got[d])
  BY <1>1 DEF OneDomain, ExtendedStored, Complete
<1> QED
  BY <1>1, <1>2, <1>3 DEF OwnNames, ExtendedStored

LEMMA OwnNamesStep == Types /\ Quiet /\ OneDomain /\ OwnNames /\ [Next]_vars => OwnNames'
<1> SUFFICES ASSUME Types, Quiet, OneDomain, OwnNames, [Next]_vars PROVE OwnNames'
  OBVIOUS
<1> USE DEF Types, probeVars, resultVars, optVars, groupVars
<1> DEFINE Fresh == /\ \A d \in Domains : \A p \in ExtendedNames : results[d][p] = Untested
                    /\ testing \notin ExtendedNames /\ Elements(queue) \cap ExtendedNames = {}
<1>a. ASSUME pc' \in BeforeExtended, Next PROVE Fresh'
  <2>1. pc \in BeforeExtended
    BY <1>a, ExtendedSteps DEF RunBegins, SetRunning, RunDNS, CachedNext, CachedStored, Phase1,
       BaselineBegins, BaselineStored, PayloadNext, PayloadStored, StrategyBegins, StrategyNext,
       StrategyStored, StrategyOver, BeforeExtended, Early
  <2>2. Fresh
    BY <2>1 DEF OwnNames
  <2>3. NoPreset \notin ExtendedNames /\ NoBypass \notin ExtendedNames
    BY ExtendedBypass
  <2>n. ASSUME NEW where, LoopNext(where) PROVE Fresh'
    <3>1. Head(queue) \in Elements(queue) /\ Elements(Tail(queue)) \subseteq Elements(queue)
      <4>1. queue \in Seq(Elements(queue)) /\ queue # <<>>
        BY <2>n, BeginsBypass, Elem DEF TypeOK
      <4> QED
        BY <4>1, TailIn, Elem
    <3> QED
      BY <2>2, <2>n, <3>1, BeginsBypass DEF LoopNext
  <2>s. ASSUME StoreResults, UNCHANGED queue PROVE Fresh'
    BY <2>2, <2>3, <2>s, StoreOthers DEF StoreResults
  <2>k. ASSUME UNCHANGED <<results, testing, queue>> PROVE Fresh'
    BY <2>2, <2>k
  <2>e. \A s : s = <<>> => Elements(s) = {}
    BY DEF Elements
  <2>4. CASE RunBegins \/ SetRunning \/ ProbesReturn \/ CancelCheckSuite
    BY <2>4, <2>k DEF RunBegins, SetRunning, ProbesReturn, CancelCheckSuite
  <2>5. CASE RunDNS
    BY <2>2, <2>5, NamesAssumption DEF RunDNS, ExtendedNames
  <2>6. CASE CachedNext \/ CachedStored \/ PayloadNext \/ PayloadStored \/ StrategyNext \/ StrategyStored
    BY <2>6, <2>n, <2>s DEF CachedNext, CachedStored, PayloadNext, PayloadStored, StrategyNext,
       StrategyStored, LoopStore
  <2>7. CASE BaselineBegins
    BY <2>2, <2>3, <2>7 DEF BaselineBegins, Begin
  <2>8. CASE BaselineStored
    <3>1. Elements(<<PastSeq, Alternate>>) = {PastSeq, Alternate}
      BY DEF Elements
    <3>2. Elements(queue') \cap ExtendedNames = {}
      BY <2>8, <2>e, <3>1, NamesAssumption DEF BaselineStored, ExtendedNames
    <3>3. UNCHANGED results \/ \A d \in Domains : \A p \in ExtendedNames : results'[d][p] = results[d][p]
      BY <2>2, <2>8, StoreOthers DEF BaselineStored
    <3> QED
      BY <2>2, <2>3, <2>8, <3>2, <3>3 DEF BaselineStored, StoreResults
  <2>9. CASE StrategyBegins
    BY <2>2, <2>9, NamesAssumption DEF StrategyBegins, ExtendedNames
  <2>10. CASE StrategyOver
    BY <2>2, <2>10, <2>e DEF StrategyOver
  <2> QED
    BY <1>a, <2>4, <2>5, <2>6, <2>7, <2>8, <2>9, <2>10, ExtendedSteps DEF Phase1
<1>b. ASSUME pc' = "extended", families' = <<>>, Next
      PROVE  \A d \in Domains : \A p \in ExtendedNames : ~Complete(results'[d][p])
  <2>1. CASE ExtendedBegins
    BY <2>1 DEF ExtendedBegins, OwnNames, BeforeExtended, Complete
  <2>2. CASE ExtendedNext \/ ((ProbesReturn \/ CancelCheckSuite) /\ pc = "extended")
    BY <1>b, <2>2 DEF ExtendedNext, LoopNext, ProbesReturn, CancelCheckSuite, OwnNames
  <2>3. CASE ExtendedStored
    <3>1. /\ families = <<>>
          /\ \A d \in Domains : ~Complete(got[d]) /\ ~Complete(results[d][testing])
      BY <1>b, <2>3, ExtendedFails
    <3>2. \A d \in Domains : \A p \in ExtendedNames :
            results'[d][p] = results[d][p] \/ results'[d][p] = got[d]
      BY <2>3, ExtendedBypass DEF ExtendedStored, StoreResults, TypeOK
    <3> QED
      BY <2>3, <3>1, <3>2 DEF OwnNames, ExtendedStored
  <2>4. \/ ExtendedBegins \/ ExtendedNext \/ ExtendedStored
        \/ (ProbesReturn \/ CancelCheckSuite) /\ pc = "extended"
    BY <1>b, ExtendedSteps
  <2> QED
    BY <2>1, <2>2, <2>3, <2>4
<1>c. CASE UNCHANGED vars
  BY <1>c DEF vars, OwnNames
<1> QED
  BY <1>a, <1>b, <1>c DEF OwnNames

LEMMA SameBests == ASSUME UNCHANGED results PROVE \A d \in Domains : (Bests(d))' = Bests(d)
BY DEF Bests, Fastest, Speed

(* determineBest leaves a fastest preset of the results. *)
LEMMA DetermineChosen ==
  ASSUME DetermineBest, UNCHANGED results
  PROVE  \A d \in Domains : best'[d] \in (Bests(d))'
BY SameBests DEF DetermineBest

LEMMA ChosenStep == Types /\ BestInv /\ [Next]_vars => Chosen'
<1> SUFFICES ASSUME Types, BestInv, [Next]_vars, Judged'
             PROVE  \A d \in Domains : best'[d].preset # NoBypass => best'[d] \in (Bests(d))'
  BY DEF Chosen
<1> USE DEF Types, BestInv, probeVars, resultVars, optVars, groupVars
<1>k. ASSUME Judged, UNCHANGED <<results, best>>
      PROVE  \A d \in Domains : best'[d].preset # NoBypass => best'[d] \in (Bests(d))'
  BY <1>k, SameBests DEF Chosen
<1>l. ASSUME pc \in Early, UNCHANGED <<results, best>>
      PROVE  \A d \in Domains : best'[d].preset # NoBypass => best'[d] \in (Bests(d))'
  <2>1. \A d \in Domains : best[d] \in Bests(d)
    BY <1>l, LeadsIsBest DEF Leading
  <2> QED
    BY <1>l, <2>1, SameBests
<1>1. CASE Start
  BY <1>1, <1>l DEF Start, RunCanceled, RunBegins, SetRunning, RunDNS, Judged, Early
<1>2. CASE ProbesReturn \/ CancelCheckSuite \/ UNCHANGED vars
  BY <1>2, <1>k DEF ProbesReturn, CancelCheckSuite, vars, Judged
<1>3. CASE Cached
  BY <1>3, <1>l DEF Cached, CachedNext, CachedStored, CachedCanceled, LoopNext, LoopStore, Judged, Early
<1>4. CASE Phase1
  <2>1. CASE StrategyOver
    BY <2>1, DetermineChosen DEF StrategyOver
  <2> QED
    BY <1>4, <2>1 DEF Phase1, BaselineBegins, BaselineStored, PayloadNext, PayloadStored,
       StrategyBegins, StrategyNext, StrategyStored, LoopNext, LoopStore, Judged
<1>5. CASE Verdict
  <2>1. CASE ReportNoBypass
    BY <2>1 DEF ReportNoBypass
  <2>2. CASE GiveUpBlocked \/ ExtendedBegins \/ OptimizeBegins
    BY <2>2, <1>k DEF GiveUpBlocked, ExtendedBegins, OptimizeBegins, Judged
  <2> QED
    BY <1>5, <2>1, <2>2 DEF Verdict
<1>6. CASE Extended
  <2>1. CASE ExtendedNext \/ ExtendedOver
    BY <2>1, <1>k DEF ExtendedNext, ExtendedOver, LoopNext, Judged
  <2>2. CASE ExtendedStored
    <3>1. pc = "extended" /\ StoreResults /\ families' = <<>>
      BY <2>2 DEF ExtendedStored, Judged
    <3>2. /\ families = <<>> /\ testing # NoBypass
          /\ \A d \in Domains : ~Complete(got[d]) /\ ~Complete(results[d][testing])
      BY <2>2, <3>1, ExtendedFails
    <3>3. best' = best /\ \A d \in Domains : (Bests(d))' = Bests(d)
      BY <3>1, <3>2, StoreFailure
    <3> QED
      BY <3>1, <3>2, <3>3 DEF Chosen, Judged
  <2> QED
    BY <1>6, <2>1, <2>2 DEF Extended
<1>7. CASE Phase2
  BY <1>7 DEF Phase2, FamilyNext, OptimizeNext, OptimizeStored, OptimizeFallsBack,
     OptimizeOver, ValidateStored, FamiliesOver, LoopNext, Judged
<1>8. CASE Phase3
  <2>1. CASE CombineOver
    BY <2>1, DetermineChosen DEF CombineOver
  <2> QED
    BY <1>8, <2>1 DEF Phase3, CombineNext, CombineStored, LoopNext, LoopStore, Judged
<1>9. CASE Report
  BY <1>9, <1>k DEF Report, Finalize, BuildGroup, GroupsOver, Judged
<1> QED
  BY <1>1, <1>2, <1>3, <1>4, <1>5, <1>6, <1>7, <1>8, <1>9 DEF Next, Finished

LEMMA BestInit == Init => BestInv
<1> SUFFICES ASSUME Init PROVE BestInv
  OBVIOUS
<1>1. ExtendedNames \subseteq Names /\ NoPreset \notin ExtendedNames
  BY ExtendedBypass
<1>2. \A d \in Domains : \A p \in Names : results[d][p] = Untested
  BY DEF Init
<1>3. \A d \in Domains : best[d] = NoBest /\ best[d].speed = 0
  BY DEF Init, NoBest
<1>4. Elements(queue) = {}
  BY DEF Init, Elements
<1>5. Leading
  BY <1>2, <1>3 DEF Leading, Leads, Speed
<1>6. CachedOnce /\ OwnNames
  BY <1>1, <1>2, <1>4 DEF Init, CachedOnce, OwnNames
<1> QED
  BY <1>5, <1>6 DEF Init, BestInv, Quiet, OneDomain, Chosen, Judged

(* The best preset finalize reports for a domain is a fastest one among    *)
(* the results kept, and a domain is reported as failed only if no preset  *)
(* fetched anything for it: whatever phase the search ends in, canceled or *)
(* not, and although storeResult replaces results of the same name.        *)
THEOREM BestAlwaysFastest == Spec => []BestIsFastest
<1>1. Types /\ [Next]_vars => Types'
  BY TypeStep, ShapeStep DEF Types
<1>2. Types /\ BestInv /\ [Next]_vars => BestInv'
  BY QuietStep, OneDomainStep, CachedStep, OwnNamesStep, ChosenStep DEF BestInv
<1>3. BestInv => BestIsFastest
  BY DEF BestInv, Chosen, Judged, BestIsFastest
<1> QED
  BY InitTypes, BestInit, <1>1, <1>2, <1>3, PTL DEF Spec
=============================================================================
