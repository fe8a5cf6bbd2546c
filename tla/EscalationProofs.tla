-------------------------- MODULE EscalationProofs --------------------------
(* Theorems about Escalation, for every set of workers, connections, sets  *)
(* and every sequence of sanitised configurations.                         *)
EXTENDS Escalation, Integers, TLAPS

(* Every version in use has been installed. *)
Installed ==
  /\ \A w \in Workers : cfg[w] <= version /\ matcher[w] <= version
  /\ \A w \in Workers : job[w].ver <= version /\ job[w].set.ver <= version
  /\ \A k \in Conns : tracked[k].ver <= version

(* A worker holds what its program point says. *)
JobShape ==
  \A w \in Workers :
    /\ pc[w] # "idle" => job[w] \in Job
    /\ pc[w] \notin {"idle", "match"} => job[w].set \in SetPtr

(* set was the base set of its version, or is a backup. *)
OfHost(set, S) == set.id \in S \/ set.id = Configs[set.ver].base

(* Every set pointer held for this host is on its chain. *)
HeldOnChain ==
  \A S \in SUBSET Sets : HoldsBackups(S) =>
    /\ \A w \in Workers : job[w].set \in SetPtr => OfHost(job[w].set, S)
    /\ \A k \in Conns : tracked[k] \in SetPtr => OfHost(tracked[k], S)

ChosenEnabled ==
  \A w \in Workers : pc[w] \in {"lookup", "clear", "record", "escalate"} =>
    job[w].set.id \in Configs[job[w].set.ver].on

IndInv == /\ TypeOK /\ Installed /\ JobShape /\ OnChain /\ HeldOnChain
          /\ ChosenEnabled

USE NamesAssumption, ConfigAssumption, WorkerAssumption, BoundsAssumption

(* The initial state satisfies the invariant: nothing is held yet. *)
LEMMA InitInv == Init => IndInv
  <1> SUFFICES ASSUME Init PROVE IndInv
    OBVIOUS
  <1>1. TypeOK
    <2>1. /\ cfg \in [Workers -> 1..Versions] /\ matcher \in [Workers -> 1..Versions]
          /\ version \in 1..Versions /\ hellos \in [Conns -> 0..Threshold]
      BY DEF Init
    <2>2. /\ esc \in Entry \cup {NoEsc} /\ kills \in Kills \cup {NoKills}
          /\ rstSent \subseteq Conns /\ blocked \subseteq Conns /\ stores \subseteq Store
          /\ resetDue \in BOOLEAN
      BY Zenon DEF Init
    <2>3. /\ tracked \in [Conns -> SetPtr \cup {NoSet}]
          /\ job \in [Workers -> Job \cup {NoJob}]
      BY Zenon DEF Init
    <2>4. pc \in [Workers -> {"idle", "match", "lookup", "clear", "record", "escalate",
                             "load", "switch"}]
      BY DEF Init
    <2> QED
      BY <2>1, <2>2, <2>3, <2>4 DEF TypeOK
  <1>2. NoSet \notin SetPtr
    BY DEF NoSet, SetPtr
  <1>3. Installed
    BY DEF Init, Installed, NoJob, NoSet
  <1>4. JobShape /\ ChosenEnabled /\ OnChain
    BY DEF Init, JobShape, ChosenEnabled, OnChain
  <1>5. HeldOnChain
    BY <1>2 DEF Init, HeldOnChain, NoJob
  <1> QED
    BY <1>1, <1>3, <1>4, <1>5 DEF IndInv

(* What To and Target return for a pointer of an installed version. *)
LEMMA ToType ==
  ASSUME NEW set \in SetPtr
  PROVE  /\ To(set) \in Sets \cup {None}
         /\ \A v \in 1..Versions : Target(set, v) # None =>
              Target(set, v) = To(set) /\ To(set) \in Sets
  BY DEF To, Target, SetPtr, ConfigType

(* The target of a set of this host is one of its backups. *)
LEMMA ToBackup ==
  ASSUME NEW S \in SUBSET Sets, HoldsBackups(S), version \in 1..Versions,
         NEW set \in SetPtr, set.ver <= version, OfHost(set, S), To(set) # None
  PROVE  To(set) \in S
  <1>1. set.ver \in 1..version
    BY DEF SetPtr
  <1>2. set.id \in S \cup {Configs[set.ver].base}
    BY DEF OfHost
  <1> QED
    BY <1>1, <1>2 DEF HoldsBackups, To

(* Every step keeps the types. *)
LEMMA TypeStep == IndInv /\ [Next]_vars => TypeOK'
  <1> SUFFICES ASSUME IndInv, [Next]_vars PROVE TypeOK'
    OBVIOUS
  <1> USE DEF IndInv, TypeOK
  <1>1. ASSUME NEW w \in Workers, NEW k \in Conns, HelloBegin(w, k) PROVE TypeOK'
    BY <1>1 DEF HelloBegin, Hold, Goto, cfgVars, desVars, conVars, Job
  <1>2. ASSUME NEW w \in Workers, NEW k \in Conns, RecordRSTKill(w, k) PROVE TypeOK'
    <2>1. tracked[k] \in SetPtr /\ tracked[k].ver \in 1..Versions
      BY <1>2 DEF RecordRSTKill, SetPtr
    <2>2. CASE kills # NoKills /\ kills.count + 1 >= RstThreshold
      <3>1. [conn |-> k, ver |-> tracked[k].ver, set |-> tracked[k]] \in Job
        BY <2>1 DEF Job
      <3>2. job' \in [Workers -> Job \cup {NoJob}]
        BY <1>2, <2>2, <3>1 DEF RecordRSTKill, Hold
      <3>3. kills' = NoKills
        BY <1>2, <2>2 DEF RecordRSTKill
      <3> QED
        BY <1>2, <2>2, <3>2, <3>3 DEF RecordRSTKill, Goto, cfgVars, conVars
    <2>3. CASE ~(kills # NoKills /\ kills.count + 1 >= RstThreshold)
      <3>1. kills' = [count |-> kills.count + 1, age |-> kills.age]
        BY <1>2, <2>3 DEF RecordRSTKill
      <3>2. kills' \in Kills
        BY <2>3, <3>1 DEF Kills, NoKills
      <3> QED
        BY <1>2, <2>3, <3>2 DEF RecordRSTKill, cfgVars, conVars
    <2> QED
      BY <2>2, <2>3
  <1>3. ASSUME NEW w \in Workers, HelloMatch(w) PROVE TypeOK'
    <2>1. job[w] \in Job
      BY <1>3 DEF HelloMatch, JobShape
    <2>2. [ver |-> matcher[w], id |-> Configs[matcher[w]].base] \in SetPtr
      BY DEF SetPtr, ConfigType
    <2> QED
      BY <1>3, <2>1, <2>2 DEF HelloMatch, Hold, Goto, cfgVars, desVars, conVars, Job
  <1>4. ASSUME NEW w \in Workers, HelloLookup(w) PROVE TypeOK'
    <2>1. job[w] \in Job
      BY <1>4 DEF HelloLookup, JobShape
    <2>2. CASE esc.set \in Configs[job[w].ver].on
      <3>1. [ver |-> job[w].ver, id |-> esc.set] \in SetPtr
        BY <2>1, <2>2 DEF SetPtr, ConfigType, Job
      <3>2. [conn |-> job[w].conn, ver |-> job[w].ver,
             set |-> [ver |-> job[w].ver, id |-> esc.set]] \in Job
        BY <2>1, <3>1 DEF Job
      <3>3. job' \in [Workers -> Job \cup {NoJob}]
        BY <1>4, <3>2 DEF HelloLookup, Hold
      <3> QED
        BY <1>4, <3>3 DEF HelloLookup, Goto, cfgVars, desVars, conVars
    <2>3. CASE esc.set \notin Configs[job[w].ver].on
      BY <1>4, <2>3 DEF HelloLookup, Hold, Goto, cfgVars, desVars, conVars
    <2> QED
      BY <2>2, <2>3
  <1>5. ASSUME NEW w \in Workers, HelloClear(w) PROVE TypeOK'
    BY <1>5 DEF HelloClear, Hold, Goto, cfgVars, conVars
  <1>6. ASSUME NEW w \in Workers, HelloCached(w) PROVE TypeOK'
    BY <1>6 DEF HelloCached, Finish, Hold, Goto, cfgVars, desVars, conVars
  <1>7. ASSUME NEW w \in Workers, pc[w] \in {"record", "escalate"}, Send(w)
        PROVE  tracked' \in [Conns -> SetPtr \cup {NoSet}]
               /\ pc' \in [Workers -> {"idle", "match", "lookup", "clear", "record",
                                       "escalate", "load", "switch"}]
               /\ job' \in [Workers -> Job \cup {NoJob}]
    <2>1. job[w].set \in SetPtr /\ job[w].conn \in Conns
      BY <1>7 DEF JobShape, Job
    <2> QED
      BY <1>7, <2>1 DEF Send, Finish, Goto
  <1>8. ASSUME NEW w \in Workers, NEW late \in BOOLEAN, HelloRecord(w, late) PROVE TypeOK'
    <2>1. job[w].conn \in Conns
      BY <1>8 DEF HelloRecord, JobShape, Job
    <2>2. hellos' \in [Conns -> 0..Threshold]
      BY <1>8, <2>1 DEF HelloRecord
    <2>3. CASE Send(w)
      BY <1>7, <1>8, <2>2, <2>3 DEF HelloRecord, cfgVars, desVars
    <2>4. CASE ~Send(w)
      BY <1>8, <2>2, <2>4 DEF HelloRecord, Hold, Goto, cfgVars, desVars
    <2> QED
      BY <2>3, <2>4
  <1>9. ASSUME NEW id \in Sets, SetEscalation(id)
        PROVE  esc' \in Entry \cup {NoEsc}
    BY <1>9 DEF SetEscalation, CanEscalate, Entry, NoEsc
  <1>10. ASSUME NEW w \in Workers, HelloEscalate(w) PROVE TypeOK'
    <2>1. job[w].set \in SetPtr /\ job[w].ver \in 1..Versions
      BY <1>10 DEF HelloEscalate, JobShape, Job
    <2>2. Target(job[w].set, job[w].ver) \in Sets
      BY <1>10, <2>1, ToType DEF HelloEscalate
    <2> QED
      BY <1>9, <1>10, <2>2 DEF HelloEscalate, Finish, Hold, Goto, cfgVars, conVars
  <1>11. ASSUME NEW w \in Workers, HelloIpBlock(w) PROVE TypeOK'
    <2>1. job[w].conn \in Conns
      BY <1>11 DEF HelloIpBlock, JobShape, Job
    <2>2. CASE Ibd(job[w].set)
      <3>1. rstSent' \subseteq Conns /\ blocked' \subseteq Conns
        BY <1>11, <2>1, <2>2 DEF HelloIpBlock
      <3> QED
        BY <1>11, <2>2, <3>1 DEF HelloIpBlock, Finish, Goto, cfgVars, desVars
    <2>3. CASE ~Ibd(job[w].set)
      BY <1>7, <1>11, <2>3 DEF HelloIpBlock, cfgVars, desVars
    <2> QED
      BY <2>2, <2>3
  <1>12. ASSUME NEW w \in Workers, RstLoad(w) PROVE TypeOK'
    <2>1. job[w] \in Job
      BY <1>12 DEF RstLoad, JobShape
    <2> QED
      BY <1>12, <2>1 DEF RstLoad, Hold, Goto, cfgVars, desVars, conVars, Job
  <1>13. ASSUME NEW w \in Workers, RstSwitch(w) PROVE TypeOK'
    <2>1. job[w].set \in SetPtr /\ job[w].ver \in 1..Versions
      BY <1>13 DEF RstSwitch, JobShape, Job
    <2>2. CASE UNCHANGED esc
      BY <1>13, <2>2 DEF RstSwitch, Finish, Hold, Goto, cfgVars, conVars
    <2>3. CASE ~UNCHANGED esc
      <3>1. Target(job[w].set, job[w].ver) \in Sets
        BY <1>13, <2>1, <2>3, ToType DEF RstSwitch
      <3> QED
        BY <1>9, <1>13, <2>3, <3>1 DEF RstSwitch, Finish, Hold, Goto, cfgVars, conVars
    <2> QED
      BY <2>2, <2>3
  <1>14. CASE UpdateConfig
    <2>1. CASE UpdateBegin
      BY <2>1 DEF UpdateBegin, desVars, conVars
    <2>2. ASSUME NEW w \in Workers, UpdateStoreCfg(w) PROVE TypeOK'
      BY <2>2 DEF UpdateStoreCfg, desVars, conVars
    <2>3. ASSUME NEW w \in Workers, UpdateStoreMatcher(w) PROVE TypeOK'
      BY <2>3 DEF UpdateStoreMatcher, desVars, conVars
    <2>4. CASE ResetEscalations
      BY <2>4 DEF ResetEscalations, conVars
    <2> QED
      BY <1>14, <2>1, <2>2, <2>3, <2>4 DEF UpdateConfig
  <1>15. CASE Tick
    <2>1. esc' \in Entry \cup {NoEsc}
      BY <1>15 DEF Tick, Entry
    <2>2. kills' \in Kills \cup {NoKills}
      BY <1>15 DEF Tick, Kills
    <2> QED
      BY <1>15, <2>1, <2>2 DEF Tick, cfgVars, conVars
  <1>16. CASE Upkeep
    <2>1. CASE Evict
      BY <2>1 DEF Evict, cfgVars, conVars
    <2>2. ASSUME NEW k \in Conns, Forget(k) PROVE TypeOK'
      <3>1. /\ hellos' \in [Conns -> 0..Threshold]
            /\ rstSent' \subseteq Conns /\ blocked' \subseteq Conns
            /\ tracked' \in [Conns -> SetPtr \cup {NoSet}]
        <4>1. CASE hellos' = [hellos EXCEPT ![k] = 0] /\ rstSent' = rstSent \ {k}
                   /\ UNCHANGED <<blocked, tracked>>
          BY <4>1
        <4>2. CASE tracked' = [tracked EXCEPT ![k] = NoSet]
                   /\ UNCHANGED <<hellos, rstSent, blocked>>
          BY <4>2
        <4>3. CASE blocked' = blocked \ {k} /\ UNCHANGED <<hellos, rstSent, tracked>>
          BY <4>3
        <4> QED
          BY <2>2, <4>1, <4>2, <4>3 DEF Forget
      <3> QED
        BY <2>2, <3>1 DEF Forget, cfgVars, desVars
    <2> QED
      BY <1>16, <2>1, <2>2 DEF Upkeep
  <1>17. CASE UNCHANGED vars
    BY <1>17 DEF vars, cfgVars, desVars, conVars
  <1> QED
    BY <1>1, <1>2, <1>3, <1>4, <1>5, <1>6, <1>8, <1>10, <1>11, <1>12, <1>13,
       <1>14, <1>15, <1>16, <1>17
    DEF Next, Packet, Hello, Rst

(* Every step keeps the versions, the shape of the jobs and their sets. *)
LEMMA ShapeStep ==
  IndInv /\ [Next]_vars => Installed' /\ JobShape' /\ ChosenEnabled'
  <1> SUFFICES ASSUME IndInv, [Next]_vars PROVE (Installed /\ JobShape /\ ChosenEnabled)'
    OBVIOUS
  <1> DEFINE Good == (Installed /\ JobShape /\ ChosenEnabled)'
  <1> USE DEF IndInv, TypeOK
  <1>a. NoJob.ver = 0 /\ NoJob.set.ver = 0 /\ NoSet.ver = 0
    BY DEF NoJob, NoSet
  <1>1. ASSUME NEW w \in Workers, NEW k \in Conns, HelloBegin(w, k) PROVE Good
    <2>1. [conn |-> k, ver |-> cfg[w], set |-> NoSet] \in Job
      BY DEF Job
    <2> QED
      BY <1>1, <2>1, <1>a DEF HelloBegin, Hold, Goto, cfgVars, desVars, conVars, Installed,
                    JobShape, ChosenEnabled
  <1>2. ASSUME NEW w \in Workers, NEW k \in Conns, RecordRSTKill(w, k) PROVE Good
    <2>1. tracked[k] \in SetPtr /\ tracked[k].ver \in 1..Versions
      BY <1>2 DEF RecordRSTKill, SetPtr
    <2>2. [conn |-> k, ver |-> tracked[k].ver, set |-> tracked[k]] \in Job
      BY <2>1 DEF Job
    <2>3. CASE UNCHANGED <<pc, job>>
      BY <1>2, <2>3 DEF RecordRSTKill, cfgVars, conVars, Installed, JobShape, ChosenEnabled
    <2>4. CASE Goto(w, "load") /\ Hold(w, k, tracked[k].ver, tracked[k])
      <3>1. Installed'
        BY <1>2, <2>4, <2>1 DEF RecordRSTKill, Hold, cfgVars, conVars, Installed
      <3>2. JobShape' /\ ChosenEnabled'
        BY <2>4, <2>1, <2>2 DEF Hold, Goto, JobShape, ChosenEnabled
      <3> QED
        BY <3>1, <3>2
    <2> QED
      BY <1>2, <2>3, <2>4 DEF RecordRSTKill
  <1>3. ASSUME NEW w \in Workers, HelloMatch(w) PROVE Good
    <2>1. job[w] \in Job
      BY <1>3 DEF HelloMatch, JobShape
    <2>2. /\ [ver |-> matcher[w], id |-> Configs[matcher[w]].base] \in SetPtr
          /\ Configs[matcher[w]].base \in Configs[matcher[w]].on
      BY DEF SetPtr, ConfigType
    <2>3. [conn |-> job[w].conn, ver |-> job[w].ver,
           set |-> [ver |-> matcher[w], id |-> Configs[matcher[w]].base]] \in Job
      BY <2>1, <2>2 DEF Job
    <2> QED
      BY <1>3, <2>2, <2>3 DEF HelloMatch, Hold, Goto, cfgVars, conVars, Installed,
                              JobShape, ChosenEnabled
  <1>4. ASSUME NEW w \in Workers, HelloLookup(w) PROVE Good
    <2>1. job[w] \in Job /\ job[w].ver \in 1..Versions
      BY <1>4 DEF HelloLookup, JobShape, Job
    <2>2. CASE UNCHANGED job
      BY <1>4, <2>2 DEF HelloLookup, Goto, cfgVars, conVars, Installed,
                        JobShape, ChosenEnabled
    <2>3. CASE ~UNCHANGED job
      <3>1. esc.set \in Configs[job[w].ver].on
        BY <1>4, <2>3 DEF HelloLookup
      <3>2. [ver |-> job[w].ver, id |-> esc.set] \in SetPtr
        BY <2>1, <3>1 DEF SetPtr, ConfigType
      <3>3. [conn |-> job[w].conn, ver |-> job[w].ver,
             set |-> [ver |-> job[w].ver, id |-> esc.set]] \in Job
        BY <2>1, <3>2 DEF Job
      <3>4. Hold(w, job[w].conn, job[w].ver, [ver |-> job[w].ver, id |-> esc.set])
            /\ Goto(w, "record")
        BY <1>4, <2>3 DEF HelloLookup
      <3> QED
        BY <1>4, <3>1, <3>2, <3>3, <3>4
        DEF HelloLookup, Hold, Goto, cfgVars, conVars, Installed, JobShape, ChosenEnabled
    <2> QED
      BY <2>2, <2>3
  <1>5. ASSUME NEW w \in Workers, HelloClear(w) PROVE Good
    BY <1>5 DEF HelloClear, Goto, cfgVars, conVars, Installed, JobShape, ChosenEnabled
  <1>6. ASSUME NEW w \in Workers, HelloCached(w) PROVE Good
    BY <1>6, <1>a DEF HelloCached, Finish, Goto, cfgVars, conVars, Installed,
                      JobShape, ChosenEnabled
  <1>7. ASSUME NEW w \in Workers, pc[w] \in {"record", "escalate"}, Send(w),
               UNCHANGED cfgVars
        PROVE  Good
    BY <1>7, <1>a DEF Send, Finish, Goto, cfgVars, Installed, JobShape, ChosenEnabled
  <1>8. ASSUME NEW w \in Workers, NEW late \in BOOLEAN, HelloRecord(w, late) PROVE Good
    <2>1. CASE Send(w)
      BY <1>7, <1>8, <2>1 DEF HelloRecord
    <2>2. CASE ~Send(w)
      BY <1>8, <2>2 DEF HelloRecord, Goto, cfgVars, Installed, JobShape, ChosenEnabled
    <2> QED
      BY <2>1, <2>2
  <1>9. ASSUME NEW w \in Workers, HelloEscalate(w) PROVE Good
    BY <1>9, <1>a DEF HelloEscalate, Finish, Goto, cfgVars, conVars, Installed,
                      JobShape, ChosenEnabled
  <1>10. ASSUME NEW w \in Workers, HelloIpBlock(w) PROVE Good
    <2>1. CASE Ibd(job[w].set)
      <3>1. Finish(w) /\ UNCHANGED <<tracked, cfgVars>>
        BY <1>10, <2>1 DEF HelloIpBlock
      <3> QED
        BY <1>a, <3>1 DEF Finish, Goto, cfgVars, Installed, JobShape, ChosenEnabled
    <2>2. CASE ~Ibd(job[w].set)
      BY <1>7, <1>10, <2>2 DEF HelloIpBlock
    <2> QED
      BY <2>1, <2>2
  <1>11. ASSUME NEW w \in Workers, RstLoad(w) PROVE Good
    <2>1. job[w] \in Job /\ job[w].set \in SetPtr
      BY <1>11 DEF RstLoad, JobShape
    <2>2. [conn |-> job[w].conn, ver |-> cfg[w], set |-> job[w].set] \in Job
      BY <2>1 DEF Job
    <2>3. Installed'
      BY <1>11, <2>1 DEF RstLoad, Hold, cfgVars, conVars, Installed
    <2>4. JobShape' /\ ChosenEnabled'
      BY <1>11, <2>1, <2>2 DEF RstLoad, Hold, Goto, JobShape, ChosenEnabled
    <2> QED
      BY <2>3, <2>4
  <1>12. ASSUME NEW w \in Workers, RstSwitch(w) PROVE Good
    BY <1>12, <1>a DEF RstSwitch, Finish, Goto, cfgVars, conVars, Installed,
                       JobShape, ChosenEnabled
  <1>13. CASE UpdateConfig
    <2>1. CASE UpdateBegin
      <3>1. /\ \A w \in Workers : job[w].ver \in Nat /\ job[w].set.ver \in Nat
            /\ \A k \in Conns : tracked[k].ver \in Nat
        <4>1. ASSUME NEW w \in Workers
              PROVE  job[w].ver \in Nat /\ job[w].set.ver \in Nat
          <5>1. job[w] \in Job \cup {NoJob}
            BY <1>a
          <5>2. CASE job[w] \in Job
            BY <5>2 DEF Job, SetPtr, NoSet
          <5>3. CASE job[w] = NoJob
            BY <5>3 DEF NoJob, NoSet
          <5> QED
            BY <5>1, <5>2, <5>3
        <4>2. ASSUME NEW k \in Conns
              PROVE  tracked[k].ver \in Nat
          <5>1. tracked[k] \in SetPtr \cup {NoSet}
            BY <1>a
          <5> QED
            BY <5>1 DEF SetPtr, NoSet
        <4> QED
          BY <4>1, <4>2
      <3> QED
        BY <2>1, <3>1 DEF UpdateBegin, conVars, Installed, JobShape, ChosenEnabled
    <2>2. ASSUME NEW w \in Workers, UpdateStoreCfg(w) PROVE Good
      BY <2>2 DEF UpdateStoreCfg, conVars, Installed, JobShape, ChosenEnabled
    <2>3. ASSUME NEW w \in Workers, UpdateStoreMatcher(w) PROVE Good
      BY <2>3 DEF UpdateStoreMatcher, conVars, Installed, JobShape, ChosenEnabled
    <2>4. CASE ResetEscalations
      BY <2>4 DEF ResetEscalations, conVars, Installed, JobShape, ChosenEnabled
    <2> QED
      BY <1>13, <2>1, <2>2, <2>3, <2>4 DEF UpdateConfig
  <1>14. CASE Tick
    BY <1>14 DEF Tick, cfgVars, conVars, Installed, JobShape, ChosenEnabled
  <1>15. CASE Upkeep
    <2>1. CASE Evict
      BY <2>1 DEF Evict, cfgVars, conVars, Installed, JobShape, ChosenEnabled
    <2>2. ASSUME NEW k \in Conns, Forget(k) PROVE Good
      <3>1. \A j \in Conns : tracked'[j] = tracked[j] \/ tracked'[j] = NoSet
        BY <2>2 DEF Forget
      <3> QED
        BY <1>a, <2>2, <3>1 DEF Forget, cfgVars, Installed, JobShape, ChosenEnabled
    <2> QED
      BY <1>15, <2>1, <2>2 DEF Upkeep
  <1>16. CASE UNCHANGED vars
    BY <1>16 DEF vars, cfgVars, conVars, Installed, JobShape, ChosenEnabled
  <1> QED
    BY <1>1, <1>2, <1>3, <1>4, <1>5, <1>6, <1>8, <1>9, <1>10, <1>11, <1>12, <1>13,
       <1>14, <1>15, <1>16
    DEF Next, Packet, Hello, Rst

(* A set closed under Escalate.To in the versions of the next state was    *)
(* closed before: UpdateConfig only adds a version.                        *)
LEMMA BackupsKept ==
  ASSUME TypeOK, [Next]_vars, NEW S \in SUBSET Sets, HoldsBackups(S)'
  PROVE  HoldsBackups(S)
  <1>1. version' = version \/ version' = version + 1
    BY DEF Next, Packet, Hello, Rst, HelloBegin, RecordRSTKill, HelloMatch, HelloLookup,
           HelloClear, HelloCached, HelloRecord, HelloEscalate, HelloIpBlock, RstLoad,
           RstSwitch, UpdateConfig, UpdateBegin, UpdateStoreCfg, UpdateStoreMatcher,
           ResetEscalations, Tick, Upkeep, Evict, Forget, vars, cfgVars
  <1>2. 1..version \subseteq 1..version'
    BY <1>1 DEF TypeOK
  <1> QED
    BY <1>2 DEF HoldsBackups

(* What is held for the host stays on its chain. *)
Held(S) ==
  /\ esc # NoEsc => esc.set \in S
  /\ \A w \in Workers : job[w].set \in SetPtr => OfHost(job[w].set, S)
  /\ \A k \in Conns : tracked[k] \in SetPtr => OfHost(tracked[k], S)

LEMMA HeldStep ==
  ASSUME IndInv, [Next]_vars, NEW S \in SUBSET Sets, HoldsBackups(S), Held(S)
  PROVE  Held(S)'
  <1> USE DEF IndInv, TypeOK
  <1>a. NoSet \notin SetPtr /\ NoJob.set = NoSet
    BY DEF NoJob, NoSet, SetPtr
  <1>1. ASSUME NEW w \in Workers, NEW k \in Conns, HelloBegin(w, k) PROVE Held(S)'
    BY <1>1, <1>a DEF HelloBegin, Hold, desVars, conVars, Held
  <1>2. ASSUME NEW w \in Workers, NEW k \in Conns, RecordRSTKill(w, k) PROVE Held(S)'
    <2>1. CASE UNCHANGED job
      BY <1>2, <2>1 DEF RecordRSTKill, conVars, Held
    <2>2. CASE Hold(w, k, tracked[k].ver, tracked[k])
      BY <1>2, <2>2 DEF RecordRSTKill, Hold, conVars, Held
    <2> QED
      BY <1>2, <2>1, <2>2 DEF RecordRSTKill
  <1>3. ASSUME NEW w \in Workers, HelloMatch(w) PROVE Held(S)'
    BY <1>3 DEF HelloMatch, Hold, desVars, conVars, Held, OfHost
  <1>4. ASSUME NEW w \in Workers, HelloLookup(w) PROVE Held(S)'
    <2>1. CASE UNCHANGED job
      BY <1>4, <2>1 DEF HelloLookup, desVars, conVars, Held
    <2>2. CASE ~UNCHANGED job
      <3>1. esc.set \in Configs[job[w].ver].on /\ job[w].ver \in 1..Versions
        BY <1>4, <2>2 DEF HelloLookup, JobShape, Job
      <3>2. esc # NoEsc
        BY <3>1 DEF NoEsc, ConfigType
      <3>3. Hold(w, job[w].conn, job[w].ver, [ver |-> job[w].ver, id |-> esc.set])
        BY <1>4, <2>2 DEF HelloLookup
      <3>4. OfHost([ver |-> job[w].ver, id |-> esc.set], S)
        BY <3>2 DEF Held, OfHost
      <3> QED
        BY <1>4, <3>3, <3>4 DEF HelloLookup, Hold, desVars, conVars, Held
    <2> QED
      BY <2>1, <2>2
  <1>5. ASSUME NEW w \in Workers, HelloClear(w) PROVE Held(S)'
    BY <1>5 DEF HelloClear, conVars, Held
  <1>6. ASSUME NEW w \in Workers, HelloCached(w) PROVE Held(S)'
    BY <1>6, <1>a DEF HelloCached, Finish, desVars, conVars, Held
  <1>7. ASSUME NEW w \in Workers, pc[w] \in {"record", "escalate"}, Send(w),
               UNCHANGED esc
        PROVE  Held(S)'
    <2>1. job[w].set \in SetPtr /\ job[w].conn \in Conns
      BY <1>7 DEF JobShape, Job
    <2> QED
      BY <1>7, <1>a, <2>1 DEF Send, Finish, Held
  <1>8. ASSUME NEW w \in Workers, NEW late \in BOOLEAN, HelloRecord(w, late) PROVE Held(S)'
    <2>1. CASE Send(w)
      BY <1>7, <1>8, <2>1 DEF HelloRecord, desVars
    <2>2. CASE ~Send(w)
      BY <1>8, <2>2 DEF HelloRecord, desVars, Held
    <2> QED
      BY <2>1, <2>2
  <1>9. ASSUME NEW w \in Workers, pc[w] \in {"escalate", "switch"},
               Target(job[w].set, job[w].ver) # None
        PROVE  Target(job[w].set, job[w].ver) \in S
    <2>1. job[w].set \in SetPtr /\ job[w].ver \in 1..Versions
      BY <1>9 DEF JobShape, Job
    <2>2. job[w].set.ver <= version /\ OfHost(job[w].set, S)
      BY <2>1 DEF Installed, Held
    <2> QED
      BY <1>9, <2>1, <2>2, ToType, ToBackup
  <1>10. ASSUME NEW w \in Workers, HelloEscalate(w) PROVE Held(S)'
    BY <1>9, <1>10, <1>a DEF HelloEscalate, SetEscalation, Finish, conVars, Held
  <1>11. ASSUME NEW w \in Workers, HelloIpBlock(w) PROVE Held(S)'
    <2>1. CASE Ibd(job[w].set)
      BY <1>11, <1>a, <2>1 DEF HelloIpBlock, Finish, desVars, Held
    <2>2. CASE ~Ibd(job[w].set)
      BY <1>7, <1>11, <2>2 DEF HelloIpBlock, desVars
    <2> QED
      BY <2>1, <2>2
  <1>12. ASSUME NEW w \in Workers, RstLoad(w) PROVE Held(S)'
    BY <1>12 DEF RstLoad, Hold, desVars, conVars, Held
  <1>13. ASSUME NEW w \in Workers, RstSwitch(w) PROVE Held(S)'
    BY <1>9, <1>13, <1>a DEF RstSwitch, SetEscalation, Finish, conVars, Held
  <1>14. CASE UpdateConfig
    BY <1>14 DEF UpdateConfig, UpdateBegin, UpdateStoreCfg, UpdateStoreMatcher,
                 ResetEscalations, desVars, conVars, Held
  <1>15. CASE Tick
    BY <1>15 DEF Tick, conVars, Held
  <1>16. CASE Upkeep
    <2>1. CASE Evict
      BY <2>1 DEF Evict, conVars, Held
    <2>2. ASSUME NEW k \in Conns, Forget(k) PROVE Held(S)'
      <3>1. \A j \in Conns : tracked'[j] = tracked[j] \/ tracked'[j] = NoSet
        BY <2>2 DEF Forget
      <3> QED
        BY <1>a, <2>2, <3>1 DEF Forget, desVars, Held
    <2> QED
      BY <1>16, <2>1, <2>2 DEF Upkeep
  <1>17. CASE UNCHANGED vars
    BY <1>17 DEF vars, desVars, conVars, Held
  <1> QED
    BY <1>1, <1>2, <1>3, <1>4, <1>5, <1>6, <1>8, <1>10, <1>11, <1>12, <1>13, <1>14,
       <1>15, <1>16, <1>17
    DEF Next, Packet, Hello, Rst

(* The inductive invariant of every behaviour of the tracker. *)
THEOREM Invariance == Spec => []IndInv
  <1>1. IndInv /\ [Next]_vars => IndInv'
    <2> SUFFICES ASSUME IndInv, [Next]_vars PROVE IndInv'
      OBVIOUS
    <2>1. TypeOK' /\ Installed' /\ JobShape' /\ ChosenEnabled'
      BY TypeStep, ShapeStep
    <2>2. ASSUME NEW S \in SUBSET Sets, HoldsBackups(S)' PROVE Held(S)'
      <3>1. HoldsBackups(S)
        BY <2>2, BackupsKept DEF IndInv
      <3>2. Held(S)
        BY <3>1 DEF IndInv, OnChain, HeldOnChain, Held
      <3> QED
        BY <3>1, <3>2, HeldStep
    <2>3. OnChain' /\ HeldOnChain'
      BY <2>2 DEF OnChain, HeldOnChain, Held
    <2> QED
      BY <2>1, <2>3 DEF IndInv
  <1> QED
    BY <1>1, InitInv, PTL DEF Spec

(* Every variable of the tracker keeps its type, for every instance; no    *)
(* host makes more hops than MaxEscalationHops.                            *)
THEOREM TypeCorrect == Spec => []TypeOK
  <1>1. IndInv => TypeOK
    BY DEF IndInv
  <1> QED
    BY <1>1, Invariance, PTL

(* SetEscalation is only given sets on the host's own chain, whatever the  *)
(* workers, connections, RSTs and configuration changes.                   *)
THEOREM StaysOnChain == Spec => []OnChain
  <1>1. IndInv => OnChain
    BY DEF IndInv
  <1> QED
    BY <1>1, Invariance, PTL

(* No packet is handled by a set its configuration has disabled, even if   *)
(* the entry was written under another configuration.                      *)
THEOREM EnabledSetsOnly == Spec => []UsesEnabledSet
  <1>1. IndInv => UsesEnabledSet
    BY DEF IndInv, ChosenEnabled, UsesEnabledSet
  <1> QED
    BY <1>1, Invariance, PTL

(* With a threshold of two or more, RecordRSTKill never leaves a count at  *)
(* the threshold behind.                                                   *)
THEOREM KillsActedOn ==
  ASSUME RstThreshold >= 2 PROVE Spec => []KillsBelowThreshold
  <1>1. Init => KillsBelowThreshold
    BY DEF Init, KillsBelowThreshold, NoKills
  <1>2. IndInv /\ KillsBelowThreshold /\ [Next]_vars => KillsBelowThreshold'
    <2> SUFFICES ASSUME IndInv, KillsBelowThreshold, [Next]_vars
                 PROVE  KillsBelowThreshold'
      OBVIOUS
    <2>1. CASE UNCHANGED kills
      BY <2>1 DEF KillsBelowThreshold
    <2>2. CASE kills' = NoKills
      BY <2>2 DEF KillsBelowThreshold, NoKills
    <2>3. ASSUME NEW w \in Workers, NEW k \in Conns, RecordRSTKill(w, k)
          PROVE  KillsBelowThreshold'
      <3>1. kills \in Kills \cup {NoKills}
        BY DEF IndInv, TypeOK
      <3> QED
        BY <2>3, <3>1 DEF RecordRSTKill, KillsBelowThreshold, Kills, NoKills
    <2>4. CASE Tick
      BY <2>2, <2>4 DEF Tick, KillsBelowThreshold
    <2> QED
      BY <2>1, <2>2, <2>3, <2>4
      DEF Next, Packet, Hello, Rst, HelloBegin, HelloMatch, HelloLookup,
          HelloClear, HelloCached, HelloRecord, HelloEscalate, HelloIpBlock, RstLoad,
          RstSwitch, UpdateConfig, UpdateBegin, UpdateStoreCfg, UpdateStoreMatcher,
          ResetEscalations, Upkeep, Evict, Forget, vars, desVars
  <1> QED
    BY <1>1, <1>2, Invariance, PTL DEF Spec

(* Until the configuration changes, the chain leads away from the base     *)
(* set: no failure switches a host back to the set it started from.  This  *)
(* rests on sanitizeEscalation breaking every cycle.                       *)
THEOREM NeverBackToBase ==
  ASSUME Versions = 1
  PROVE  Spec => [](esc # NoEsc => esc.set # Configs[1].base)
  <1>1. IndInv => (esc # NoEsc => esc.set # Configs[1].base)
    <2> SUFFICES ASSUME IndInv, esc # NoEsc PROVE esc.set # Configs[1].base
      OBVIOUS
    <2>1. PICK rank \in [Sets -> 1..Cardinality(Sets)] :
            \A s \in Sets : Configs[1].to[s] # None => rank[s] < rank[Configs[1].to[s]]
      BY AcyclicAssumption DEF Acyclic
    <2> DEFINE c == Configs[1]
               S == {s \in Sets : rank[c.base] < rank[s]}
    <2>2. c \in ConfigType /\ version = 1
      BY DEF IndInv, TypeOK
    <2>3. ASSUME NEW s \in S \cup {c.base}, c.to[s] # None PROVE c.to[s] \in S
      <3>1. s \in Sets /\ c.to[s] \in Sets /\ c.base \in Sets
        BY <2>2, <2>3 DEF ConfigType
      <3>2. rank[s] \in Int /\ rank[c.to[s]] \in Int /\ rank[c.base] \in Int
        BY <2>1, <3>1
      <3>3. rank[s] < rank[c.to[s]]
        BY <2>1, <2>3, <3>1
      <3>4. s = c.base \/ rank[c.base] < rank[s]
        BY <2>3
      <3>5. rank[c.base] < rank[c.to[s]]
        BY <3>2, <3>3, <3>4
      <3> QED
        BY <3>1, <3>5
    <2>4. HoldsBackups(S)
      BY <2>2, <2>3 DEF HoldsBackups
    <2>5. esc.set \in S
      BY <2>4 DEF IndInv, OnChain
    <2>6. rank[c.base] \in Int
      BY <2>1, <2>2 DEF ConfigType
    <2> QED
      BY <2>5, <2>6
  <1> QED
    BY <1>1, Invariance, PTL
=============================================================================
