----------------------- MODULE DiscoveryRuntimeProofs -----------------------
(***************************************************************************)
(* The safety of DiscoveryRuntime for every set of callers: the pool, the  *)
(* rules and the runs always belong to the runtime the pointer names; and  *)
(* of Watchdog, one of the callers, for any finite set of domains and any  *)
(* number of retries and user events.                                      *)
(***************************************************************************)
EXTENDS DiscoveryRuntime, Watchdog, FiniteSetTheorems, TLAPS

----------------------------------------------------------------------------
(* The inductive invariant *)

(* A Stop call past the lock works on the current object, which is marked. *)
TeardownOnState ==
  \A p \in Procs : stopPc[p] \in InStop =>
    state # None /\ stopObj[p] = state /\ state \in stopping

(* A marked object is in the hands of some Stop call. *)
StoppingHasTeardown ==
  state # None /\ state \in stopping => \E p \in Procs : stopPc[p] \in InStop

(* What is left of the runtime at each step of the teardown. *)
TeardownStages ==
  \A p \in Procs :
    /\ stopPc[p] \in {"cancel", "wait", "pool"} => state \in pools /\ rules = "full"
    /\ stopPc[p] \in {"pool", "rules", "clear"} => wg[state] = {}
    /\ stopPc[p] \in {"rules", "clear"} => state \notin pools
    /\ stopPc[p] = "clear" => rules \in Cleared

(* Only the current object counts runs. *)
RunsOnState == \A o \in Calls : wg[o] # {} => o = state

(* A call that has not started owns no object yet. *)
Fresh == \A c \in Calls : startPc[c] = "idle" => c # state /\ c \notin stopping

IndInv ==
  /\ TypeOK
  /\ TeardownOnState
  /\ OneTeardown
  /\ StoppingHasTeardown
  /\ TeardownStages
  /\ RunsOnState
  /\ Fresh
  /\ OnePool
  /\ RulesFollowRuntime

----------------------------------------------------------------------------
(* The initial state satisfies the invariant. *)
LEMMA InitInv == Init => IndInv
  BY NamesAssumption
  DEF Init, IndInv, TypeOK, TeardownOnState, OneTeardown, StoppingHasTeardown,
      TeardownStages, RunsOnState, Fresh, OnePool, RulesFollowRuntime,
      Procs, Ids, Rules, Cleared, Status, StartPc, RunPc, StopPc, InStop

(* Every step keeps the types. *)
LEMMA TypeStep == TypeOK /\ [Next]_vars => TypeOK'
<1> SUFFICES ASSUME TypeOK, [Next]_vars PROVE TypeOK'
  OBVIOUS
<1> USE NamesAssumption DEF TypeOK, Procs, Ids, Rules, Cleared, Status, StartPc, RunPc,
      StopPc, objVars, resVars, suiteVars, stopVars
<1>1. ASSUME NEW c \in Calls, StartSuite(c) PROVE TypeOK'
  BY <1>1 DEF StartSuite, StartBusy, StartApplyFails, StartPoolFails, Start
<1>2. ASSUME NEW c \in Calls, StartRest(c) PROVE TypeOK'
  <2>1. CASE SetActiveSuiteID(c)
    BY <2>1 DEF SetActiveSuiteID
  <2>2. CASE RegisterSuite(c)
    BY <2>2 DEF RegisterSuite
  <2>3. CASE LaunchSuite(c)
    BY <2>3 DEF LaunchSuite
  <2>4. CASE LaunchSkipped(c)
    BY <2>4 DEF LaunchSkipped
  <2> QED BY <1>2, <2>1, <2>2, <2>3, <2>4 DEF StartRest
<1>3. ASSUME NEW c \in Calls, RunDiscovery(c) PROVE TypeOK'
  BY <1>3 DEF RunDiscovery, RunCheck, RunSetRunning, RunFinalize, RunDone
<1>4. ASSUME NEW c \in Calls, DeleteSuite(c) PROVE TypeOK'
  BY <1>4 DEF DeleteSuite
<1>5. ASSUME NEW c \in Calls, CancelCheckSuite(c) PROVE TypeOK'
  BY <1>5 DEF CancelCheckSuite, Cancels
<1>6. ASSUME NEW p \in Procs, StopCall(p) PROVE TypeOK'
  <2> PICK id \in Ids : StopReturnsEarly(p, id) \/ StopBegin(p, id)
    BY <1>6 DEF StopCall
  <2>1. CASE StopReturnsEarly(p, id)
    BY <2>1 DEF StopReturnsEarly
  <2>2. CASE StopBegin(p, id)
    BY <2>2 DEF StopBegin, StopIgnored
  <2> QED BY <2>1, <2>2
<1>7. ASSUME NEW p \in Procs, Teardown(p) PROVE TypeOK'
  BY <1>7 DEF Teardown, StopCancel, Cancels, StopWait, StopPool, StopClearRules, StopEnd
<1>8. CASE UNCHANGED vars \/ Terminated
  BY <1>8 DEF vars, Terminated
<1> QED BY <1>1, <1>2, <1>3, <1>4, <1>5, <1>6, <1>7, <1>8 DEF Next

(* Every step keeps the rest of the invariant, action by action. *)
LEMMA InvStep == IndInv /\ [Next]_vars => IndInv'
<1> SUFFICES ASSUME IndInv, [Next]_vars PROVE IndInv'
  OBVIOUS
<1>0. TypeOK /\ TypeOK'
  BY TypeStep DEF IndInv
<1> DEFINE Rest == /\ TeardownOnState /\ OneTeardown /\ StoppingHasTeardown
                   /\ TeardownStages /\ RunsOnState /\ Fresh
                   /\ OnePool /\ RulesFollowRuntime
<1>r. Rest
  BY DEF IndInv
<1> SUFFICES Rest'
  BY <1>0 DEF IndInv
<1>1. ASSUME NEW c \in Calls, StartSuite(c) PROVE Rest'
  <2>1. CASE StartBusy(c)
    BY <2>1, <1>0, <1>r DEF StartBusy, TypeOK, TeardownOnState, OneTeardown,
      StoppingHasTeardown, TeardownStages, RunsOnState, Fresh, OnePool,
      RulesFollowRuntime, objVars, resVars, suiteVars, stopVars
  <2>2. CASE StartApplyFails(c) \/ StartPoolFails(c)
    <3>1. \A p \in Procs : stopPc[p] \notin InStop
      BY <2>2, <1>r DEF StartApplyFails, StartPoolFails, TeardownOnState
    <3>2. Fresh'
      BY <2>2, <1>0, <1>r DEF StartApplyFails, StartPoolFails, Fresh, TypeOK,
        objVars, StartPc
    <3>3. TeardownOnState' /\ OneTeardown' /\ StoppingHasTeardown'
      BY <3>1, <2>2 DEF StartApplyFails, StartPoolFails, TeardownOnState,
        OneTeardown, StoppingHasTeardown, objVars, stopVars
    <3>4. TeardownStages'
      BY <3>1, <2>2 DEF StartApplyFails, StartPoolFails, TeardownStages,
        InStop, stopVars
    <3>5. RunsOnState' /\ OnePool' /\ RulesFollowRuntime'
      BY <2>2, <1>r DEF StartApplyFails, StartPoolFails, RunsOnState, OnePool,
        RulesFollowRuntime, Cleared, objVars, resVars
    <3> QED BY <3>2, <3>3, <3>4, <3>5
  <2>3. CASE Start(c)
    <3>1. \A p \in Procs : stopPc[p] \notin InStop
      BY <2>3, <1>r DEF Start, TeardownOnState
    <3>2. c \notin stopping /\ c # None
      BY <2>3, <1>r, NamesAssumption DEF Start, Fresh
    <3>3. Fresh'
      BY <2>3, <1>0, <1>r DEF Start, Fresh, TypeOK
    <3>4. TeardownOnState' /\ OneTeardown' /\ StoppingHasTeardown'
      BY <3>1, <3>2, <2>3 DEF Start, TeardownOnState, OneTeardown,
        StoppingHasTeardown, stopVars
    <3>5. TeardownStages'
      BY <3>1, <2>3 DEF Start, TeardownStages, InStop, stopVars
    <3>6. RunsOnState'
      BY <2>3, <1>r, NamesAssumption DEF Start, RunsOnState
    <3>7. OnePool' /\ RulesFollowRuntime'
      <4>1. pools = {}
        BY <2>3, <1>0, <1>r, NamesAssumption DEF Start, OnePool, TypeOK
      <4> QED BY <4>1, <3>2, <2>3 DEF Start, OnePool, RulesFollowRuntime
    <3> QED BY <3>3, <3>4, <3>5, <3>6, <3>7
  <2> QED BY <1>1, <2>1, <2>2, <2>3 DEF StartSuite
<1>2. ASSUME NEW c \in Calls, StartRest(c) PROVE Rest'
  <2> USE DEF objVars, resVars, suiteVars, stopVars
  <2>1. Fresh'
    BY <1>2, <1>0, <1>r DEF StartRest, SetActiveSuiteID, RegisterSuite,
      LaunchSuite, LaunchSkipped, Fresh, TypeOK
  <2>2. TeardownOnState' /\ OneTeardown' /\ StoppingHasTeardown'
    BY <1>2, <1>r DEF StartRest, SetActiveSuiteID, RegisterSuite, LaunchSuite,
      LaunchSkipped, TeardownOnState, OneTeardown, StoppingHasTeardown
  <2>3. TeardownStages'
    <3>1. CASE LaunchSuite(c)
      <4>1. \A p \in Procs : stopPc[p] \notin InStop
        BY <3>1, <1>r DEF LaunchSuite, TeardownOnState
      <4> QED BY <4>1, <3>1 DEF LaunchSuite, TeardownStages, InStop
    <3>2. CASE SetActiveSuiteID(c) \/ RegisterSuite(c) \/ LaunchSkipped(c)
      BY <3>2, <1>r DEF SetActiveSuiteID, RegisterSuite, LaunchSkipped,
        TeardownStages
    <3> QED BY <1>2, <3>1, <3>2 DEF StartRest
  <2>4. RunsOnState'
    BY <1>2, <1>0, <1>r DEF StartRest, SetActiveSuiteID, RegisterSuite,
      LaunchSuite, LaunchSkipped, RunsOnState, TypeOK
  <2>5. OnePool' /\ RulesFollowRuntime'
    BY <1>2, <1>r DEF StartRest, SetActiveSuiteID, RegisterSuite, LaunchSuite,
      LaunchSkipped, OnePool, RulesFollowRuntime
  <2> QED BY <2>1, <2>2, <2>3, <2>4, <2>5
<1>3. ASSUME NEW c \in Calls, RunDiscovery(c) PROVE Rest'
  <2> USE DEF objVars, resVars, suiteVars, stopVars
  <2>1. /\ UNCHANGED <<state, stopping, resVars, startPc, stopVars>>
        /\ \A o \in Calls : wg'[o] \subseteq wg[o]
    BY <1>3, <1>0 DEF RunDiscovery, RunCheck, RunSetRunning, RunFinalize,
      RunDone, TypeOK
  <2>2. TeardownStages'
    <3> SUFFICES ASSUME NEW p \in Procs, stopPc[p] \in {"pool", "rules", "clear"}
                 PROVE wg'[state] = {}
      BY <2>1, <1>r DEF TeardownStages
    <3>1. state \in Calls /\ wg[state] = {}
      BY <1>0, <1>r DEF TeardownStages, TeardownOnState, InStop, TypeOK, Ids
    <3> QED BY <3>1, <2>1
  <2>3. RunsOnState'
    BY <2>1, <1>r DEF RunsOnState
  <2>4. TeardownOnState' /\ OneTeardown' /\ StoppingHasTeardown' /\ Fresh'
    BY <2>1, <1>r DEF TeardownOnState, OneTeardown, StoppingHasTeardown, Fresh
  <2>5. OnePool' /\ RulesFollowRuntime'
    BY <2>1, <1>r DEF OnePool, RulesFollowRuntime
  <2> QED BY <2>2, <2>3, <2>4, <2>5
<1>4. ASSUME \/ \E c \in Calls : DeleteSuite(c) \/ CancelCheckSuite(c)
             \/ UNCHANGED vars
             \/ Terminated
      PROVE Rest'
  <2>1. UNCHANGED <<objVars, resVars, startPc, stopVars>>
    BY <1>4 DEF DeleteSuite, CancelCheckSuite, Terminated, vars
  <2> QED
    BY <2>1, <1>r DEF TeardownOnState, OneTeardown, StoppingHasTeardown,
      TeardownStages, RunsOnState, Fresh, OnePool, RulesFollowRuntime,
      objVars, resVars, stopVars
<1>5. ASSUME NEW p \in Procs, StopCall(p) PROVE Rest'
  <2> USE DEF objVars, resVars, suiteVars, stopVars
  <2> PICK id \in Ids : StopReturnsEarly(p, id) \/ StopBegin(p, id)
    BY <1>5 DEF StopCall
  <2>1. CASE StopReturnsEarly(p, id)
    <3>1. \A q \in Procs : \/ stopPc'[q] = stopPc[q]
                           \/ stopPc'[q] = "returned" /\ stopPc[q] = "idle"
      BY <2>1, <1>0 DEF StopReturnsEarly, TypeOK
    <3>2. UNCHANGED <<objVars, resVars, startPc, stopObj>>
      BY <2>1 DEF StopReturnsEarly
    <3>3. TeardownOnState' /\ OneTeardown' /\ TeardownStages'
      BY <3>1, <3>2, <1>r DEF TeardownOnState, OneTeardown, TeardownStages, InStop
    <3>4. StoppingHasTeardown'
      BY <3>1, <3>2, <1>r DEF StoppingHasTeardown, InStop
    <3>5. RunsOnState' /\ Fresh' /\ OnePool' /\ RulesFollowRuntime'
      BY <3>2, <1>r DEF RunsOnState, Fresh, OnePool, RulesFollowRuntime
    <3> QED BY <3>3, <3>4, <3>5
  <2>2. CASE StopBegin(p, id)
    <3>1. state # None /\ state \notin stopping
      BY <2>2 DEF StopBegin, StopIgnored
    <3>2. \A q \in Procs : stopPc[q] \notin InStop
      BY <3>1, <1>r DEF TeardownOnState
    <3>3. /\ stopPc'[p] = "cancel" /\ stopObj'[p] = state
          /\ \A q \in Procs \ {p} : stopPc'[q] = stopPc[q]
      BY <2>2, <1>0 DEF StopBegin, TypeOK
    <3>4. /\ UNCHANGED <<state, wg, resVars, startPc>>
          /\ stopping' = stopping \cup {state}
      BY <2>2 DEF StopBegin
    <3>5. TeardownOnState' /\ OneTeardown' /\ StoppingHasTeardown'
      BY <3>1, <3>2, <3>3, <3>4 DEF TeardownOnState, OneTeardown,
        StoppingHasTeardown, InStop
    <3>6. TeardownStages'
      BY <3>1, <3>2, <3>3, <3>4, <1>r DEF TeardownStages, RulesFollowRuntime, InStop
    <3>7. RunsOnState' /\ Fresh' /\ OnePool' /\ RulesFollowRuntime'
      BY <3>1, <3>4, <1>r DEF RunsOnState, Fresh, OnePool, RulesFollowRuntime
    <3> QED BY <3>5, <3>6, <3>7
  <2> QED BY <2>1, <2>2
<1>6. ASSUME NEW p \in Procs, Teardown(p) PROVE Rest'
  <2> USE DEF objVars, resVars, suiteVars, stopVars
  <2>1. /\ stopPc[p] \in InStop
        /\ \A q \in Procs \ {p} : stopPc'[q] = stopPc[q] /\ stopPc[q] \notin InStop
        /\ UNCHANGED <<stopping, wg, startPc, stopObj>>
    BY <1>6, <1>0, <1>r DEF Teardown, StopCancel, StopWait, StopPool,
      StopClearRules, StopEnd, OneTeardown, InStop, TypeOK
  <2>2. state # None /\ state \in stopping /\ stopObj[p] = state
    BY <2>1, <1>r DEF TeardownOnState
  <2>3. OneTeardown'
    BY <2>1 DEF OneTeardown
  <2>4. CASE StopEnd(p)
    <3>1. stopPc'[p] = "returned" /\ state' = None /\ UNCHANGED resVars
      BY <2>4, <1>0 DEF StopEnd, TypeOK
    <3>2. \A q \in Procs : stopPc'[q] \notin InStop
      BY <3>1, <2>1 DEF InStop
    <3>3. wg[state] = {} /\ state \notin pools /\ rules \in Cleared
      BY <2>4, <1>r DEF StopEnd, TeardownStages
    <3>4. TeardownOnState' /\ StoppingHasTeardown' /\ TeardownStages'
      BY <3>1, <3>2 DEF TeardownOnState, StoppingHasTeardown, TeardownStages, InStop
    <3>5. RunsOnState' /\ OnePool' /\ RulesFollowRuntime'
      BY <3>1, <3>3, <2>1, <1>r DEF RunsOnState, OnePool, RulesFollowRuntime, Cleared
    <3>6. Fresh'
      BY <3>1, <2>1, <1>r, NamesAssumption DEF Fresh
    <3> QED BY <2>3, <3>4, <3>5, <3>6
  <2>5. CASE StopCancel(p) \/ StopWait(p) \/ StopPool(p) \/ StopClearRules(p)
    <3>1. state' = state /\ stopPc'[p] \in InStop
      BY <2>5, <1>0 DEF StopCancel, StopWait, StopPool, StopClearRules, TypeOK, InStop
    <3>2. TeardownOnState' /\ StoppingHasTeardown' /\ RunsOnState' /\ Fresh'
      BY <3>1, <2>1, <2>2, <1>r DEF TeardownOnState, StoppingHasTeardown,
        RunsOnState, Fresh
    <3>3. OnePool' /\ RulesFollowRuntime'
      BY <3>1, <2>1, <2>2, <2>5, <1>r DEF StopCancel, StopWait, StopPool,
        StopClearRules, OnePool, RulesFollowRuntime
    <3>4. TeardownStages'
      <4>1. CASE StopCancel(p) \/ StopWait(p)
        BY <4>1, <3>1, <2>1, <2>2, <1>0, <1>r DEF StopCancel, StopWait,
          TeardownStages, InStop, TypeOK
      <4>2. CASE StopPool(p) \/ StopClearRules(p)
        BY <4>2, <3>1, <2>1, <2>2, <1>0, <1>r DEF StopPool, StopClearRules,
          TeardownStages, InStop, TypeOK
      <4> QED BY <2>5, <4>1, <4>2
    <3> QED BY <2>3, <3>2, <3>3, <3>4
  <2> QED BY <1>6, <2>4, <2>5 DEF Teardown
<1> QED BY <1>1, <1>2, <1>3, <1>4, <1>5, <1>6 DEF Next

(* The runtime's invariant: at every moment of every behaviour the pool,   *)
(* the rules and the teardown in progress are those of Runtime.state.      *)
THEOREM Invariance == Spec => []IndInv
  BY InitInv, InvStep, PTL DEF Spec

(* Types, as Go's declarations give them. *)
THEOREM TypeCorrect == Spec => []TypeOK
<1>1. IndInv => TypeOK
  BY DEF IndInv
<1> QED BY <1>1, Invariance, PTL

(* Start never binds a second pool to the discovery queue (runtime.go:65). *)
THEOREM OnePoolAlways == Spec => []OnePool
<1>1. IndInv => OnePool
  BY DEF IndInv
<1> QED BY <1>1, Invariance, PTL

(* No two Stop calls tear down at once (the stopping flag). *)
THEOREM OneTeardownAlways == Spec => []OneTeardown
<1>1. IndInv => OneTeardown
  BY DEF IndInv
<1> QED BY <1>1, Invariance, PTL

(* A live runtime has its rules and its pool; none leaves full rules.      *)
THEOREM RulesFollow == Spec => []RulesFollowRuntime
<1>1. IndInv => RulesFollowRuntime
  BY DEF IndInv
<1> QED BY <1>1, Invariance, PTL

(* Stop joins the runs before it takes the pool and the rules away, and    *)
(* launchSuite adds no run afterwards.                                     *)
THEOREM RunsKeepRuntime == Spec => []RunHasRuntime
<1>1. IndInv => RunHasRuntime
  <2> SUFFICES ASSUME IndInv, NEW o \in Calls, wg[o] # {}
               PROVE o = state /\ o \in pools /\ rules = "full"
    BY DEF RunHasRuntime
  <2>1. o = state /\ state # None
    BY NamesAssumption DEF IndInv, RunsOnState
  <2>2. CASE state \notin stopping
    BY <2>1, <2>2 DEF IndInv, RulesFollowRuntime
  <2>3. CASE state \in stopping
    <3>1. PICK p \in Procs : stopPc[p] \in InStop
      BY <2>1, <2>3 DEF IndInv, StoppingHasTeardown
    <3> QED BY <2>1, <3>1 DEF IndInv, TeardownStages, InStop
  <2> QED BY <2>2, <2>3
<1> QED BY <1>1, Invariance, PTL

(* DiscoveryRuntime implements DiscoveryLease: every step of the code is a *)
(* step of the lease or leaves it alone.                                   *)
THEOREM LeaseRefinement == Spec => ImplementsLease
<1> DEFINE closing == state # None /\ state \in stopping
           searches == IF state = None THEN {} ELSE wg[state]
<1>1. Init => Lease!Init
  BY DEF Init, Lease!Init
<1>2. IndInv /\ [Next]_vars => [Lease!Next]_Lease!leaseVars
  <2> SUFFICES ASSUME IndInv, [Next]_vars
               PROVE Lease!Next \/ UNCHANGED <<state, closing, searches>>
    BY DEF Lease!leaseVars
  <2> USE DEF objVars, resVars, suiteVars, stopVars
  <2>t. TypeOK
    BY DEF IndInv
  <2>1. ASSUME NEW c \in Calls, StartSuite(c)
        PROVE Lease!Acquire(c) \/ UNCHANGED <<state, closing, searches>>
    <3>1. CASE Start(c)
      <4>1. c \notin stopping /\ c # None /\ wg[c] = {}
        BY <3>1, NamesAssumption DEF Start, IndInv, Fresh, RunsOnState
      <4> QED BY <4>1, <3>1 DEF Start, Lease!Acquire
    <3>2. CASE StartBusy(c) \/ StartApplyFails(c) \/ StartPoolFails(c)
      BY <3>2 DEF StartBusy, StartApplyFails, StartPoolFails
    <3> QED BY <2>1, <3>1, <3>2 DEF StartSuite
  <2>2. ASSUME NEW c \in Calls, StartRest(c)
        PROVE Lease!Join(c) \/ UNCHANGED <<state, closing, searches>>
    <3>1. CASE LaunchSuite(c)
      BY <3>1, <2>t DEF LaunchSuite, Lease!Join, TypeOK, Ids
    <3>2. CASE SetActiveSuiteID(c) \/ RegisterSuite(c) \/ LaunchSkipped(c)
      BY <3>2 DEF SetActiveSuiteID, RegisterSuite, LaunchSkipped
    <3> QED BY <2>2, <3>1, <3>2 DEF StartRest
  <2>3. ASSUME NEW c \in Calls, RunDiscovery(c)
        PROVE Lease!Leave(c) \/ UNCHANGED <<state, closing, searches>>
    <3>1. CASE RunDone(c)
      BY <3>1, <2>t, NamesAssumption DEF RunDone, Lease!Leave, TypeOK, Ids
    <3>2. CASE RunCheck(c) \/ RunSetRunning(c) \/ RunFinalize(c)
      BY <3>2 DEF RunCheck, RunSetRunning, RunFinalize
    <3> QED BY <2>3, <3>1, <3>2 DEF RunDiscovery
  <2>4. ASSUME \/ \E c \in Calls : DeleteSuite(c) \/ CancelCheckSuite(c)
               \/ UNCHANGED vars
               \/ Terminated
        PROVE UNCHANGED <<state, closing, searches>>
    BY <2>4 DEF DeleteSuite, CancelCheckSuite, Terminated, vars
  <2>5. ASSUME NEW p \in Procs, StopCall(p)
        PROVE Lease!Close \/ UNCHANGED <<state, closing, searches>>
    <3> PICK id \in Ids : StopReturnsEarly(p, id) \/ StopBegin(p, id)
      BY <2>5 DEF StopCall
    <3>1. CASE StopReturnsEarly(p, id)
      BY <3>1 DEF StopReturnsEarly
    <3>2. CASE StopBegin(p, id)
      BY <3>2 DEF StopBegin, StopIgnored, Lease!Close
    <3> QED BY <3>1, <3>2
  <2>6. ASSUME NEW p \in Procs, Teardown(p)
        PROVE Lease!Release \/ UNCHANGED <<state, closing, searches>>
    <3>1. CASE StopEnd(p)
      <4>1. state # None /\ state \in stopping /\ wg[state] = {}
        BY <3>1 DEF StopEnd, IndInv, TeardownOnState, TeardownStages, InStop
      <4> QED BY <4>1, <3>1 DEF StopEnd, Lease!Release
    <3>2. CASE StopCancel(p) \/ StopWait(p) \/ StopPool(p) \/ StopClearRules(p)
      BY <3>2 DEF StopCancel, StopWait, StopPool, StopClearRules
    <3> QED BY <2>6, <3>1, <3>2 DEF Teardown
  <2> QED
    BY <2>1, <2>2, <2>3, <2>4, <2>5, <2>6 DEF Next, Lease!Next
<1> QED BY <1>1, <1>2, Invariance, PTL DEF Spec, ImplementsLease, Lease!Spec

-----------------------------------------------------------------------------
(* The watchdog, which starts searches of its own. *)

(* The heal goroutine lives exactly while the flag healing is up. *)
HealerShape == healing <=> healPc # "none"

(* Only a poll watches a running search. *)
RunningPolled == suite = "running" => healPc = "poll"

(* The poll leaves for "quit" only on shutdown. *)
QuitOnStop == healPc = "quit" => stop

(* What finish is about to report: the domains without an error are the    *)
(* ones whose strategy was saved.                                          *)
FinishKnowsSaved == healPc = "finish" => healBad = healSet \ repaired

(* A domain that began to cool while its check was under way has no        *)
(* failures left to count from.                                            *)
CoolingStartsOver == \A d \in batch : cooling[d] => failures[d] = 0

WatchInv == /\ WatchTypeOK /\ HealerShape /\ RunningPolled /\ QuitOnStop
            /\ FinishKnowsSaved /\ CoolingStartsOver /\ EscalatingHasHealer

USE RetriesAssumption, DomainsAssumption

LEMMA CardDomains == Cardinality(Domains) \in Nat
  BY FS_CardinalityType

LEMMA WatchInitInv == WatchInit => WatchInv
  <1> SUFFICES ASSUME WatchInit PROVE WatchInv
    OBVIOUS
  <1>1. WatchTypeOK
    <2>1. cooling \in [Domains -> BOOLEAN]
      <3>1. [d \in Domains |-> FALSE] \in [Domains -> BOOLEAN]
        OBVIOUS
      <3> QED
        BY <3>1, Zenon DEF WatchInit
    <2>2. enabled \in BOOLEAN /\ stop \in BOOLEAN /\ healing \in BOOLEAN
      BY Zenon DEF WatchInit
    <2>3. /\ listed \subseteq Domains /\ events \in 0..MaxEvents /\ repaired \subseteq Domains
          /\ tickList \subseteq Domains /\ batch \subseteq Domains
          /\ healSet \subseteq Domains /\ healBad \subseteq Domains
          /\ successes \in 0..Cardinality(Domains) /\ best \subseteq Domains
      BY CardDomains DEF WatchInit
    <2>4. /\ domainStatus \in [Domains -> {"absent", "healthy", "degraded", "escalating"}]
          /\ failures \in [Domains -> 0..MaxRetries]
      BY DEF WatchInit
    <2>5. /\ tickPc = "idle" /\ healPc = "none" /\ lease = "free" /\ suite = "none"
      BY DEF WatchInit
    <2> QED
      BY <2>1, <2>2, <2>3, <2>4, <2>5 DEF WatchTypeOK
  <1> QED
    BY <1>1 DEF WatchInit, WatchInv, HealerShape, RunningPolled, QuitOnStop,
         FinishKnowsSaved, CoolingStartsOver, EscalatingHasHealer

(* What Degrade and DegradeAndCool do to the types. *)
LEMMA DegradeType ==
  ASSUME WatchTypeOK, NEW S, Degrade(S)
  PROVE  /\ domainStatus' \in [Domains -> {"absent", "healthy", "degraded", "escalating"}]
         /\ failures' \in [Domains -> 0..MaxRetries]
  BY DEF WatchTypeOK, Degrade

LEMMA CoolType ==
  ASSUME WatchTypeOK, NEW S, DegradeAndCool(S)
  PROVE  /\ domainStatus' \in [Domains -> {"absent", "healthy", "degraded", "escalating"}]
         /\ failures' \in [Domains -> 0..MaxRetries]
         /\ cooling' \in [Domains -> BOOLEAN]
  <1>1. cooling' \in [Domains -> BOOLEAN]
    BY Zenon DEF WatchTypeOK, DegradeAndCool
  <1> QED
    BY <1>1, DegradeType DEF DegradeAndCool

(* Every step keeps the types. *)
LEMMA WatchTypeStep == WatchTypeOK /\ [WatchNext]_watchVars => WatchTypeOK'
  <1> SUFFICES ASSUME WatchTypeOK, [WatchNext]_watchVars PROVE WatchTypeOK'
    OBVIOUS
  <1> USE CardDomains DEF WatchTypeOK, cfgVars, domVars, tickVars, healVars, searchVars
  <1>1. CASE TickLoad
    BY <1>1 DEF TickLoad
  <1>2. CASE RunExit
    BY <1>2 DEF RunExit
  <1>3. ASSUME NEW due \in SUBSET Domains, TickSelect(due) PROVE WatchTypeOK'
    BY <1>3 DEF TickSelect, Synced
  <1>4. ASSUME NEW ok \in SUBSET batch, NEW mtls \in SUBSET batch, TickApply(ok, mtls)
        PROVE  WatchTypeOK'
    <2>1. failures' \in [Domains -> 0..MaxRetries]
      BY <1>4 DEF TickApply
    <2>2. healSet' \subseteq Domains /\ healing' \in BOOLEAN
          /\ healPc' \in {"none", "begin", "mark", "start", "poll", "quit", "disabled",
                          "sleep", "collect", "finish"}
      BY <1>4 DEF TickApply
    <2> QED
      BY <1>4, <2>1, <2>2 DEF TickApply
  <1>5. CASE HealBegin
    BY <1>5 DEF HealBegin, HealEnds
  <1>6. CASE HealMark
    BY <1>6 DEF HealMark
  <1>7. CASE HealStart
    BY <1>7 DEF HealStart
  <1>8. CASE HealStartFails
    BY <1>8, CoolType DEF HealStartFails, HealEnds
  <1>9. CASE HealPollQuit
    BY <1>9 DEF HealPollQuit, CancelledSuite
  <1>10. CASE HealPollOver \/ HealPollEnough \/ HealWake
    BY <1>10 DEF HealPollOver, HealPollEnough, HealWake
  <1>11. CASE HealStopped \/ HealStopsEarly
    <2>1. /\ domainStatus' \in [Domains -> {"absent", "healthy", "degraded", "escalating"}]
          /\ failures' \in [Domains -> 0..MaxRetries]
      <3>1. CASE healPc = "disabled"
        BY <1>11, <3>1, DegradeType DEF HealStopped, HealStopsEarly
      <3>2. CASE healPc # "disabled"
        BY <1>11, <3>2 DEF HealStopped, HealStopsEarly
      <3> QED
        BY <3>1, <3>2
    <2> QED
      BY <1>11, <2>1 DEF HealStopped, HealStopsEarly, HealEnds
  <1>12. CASE HealSuiteGone
    BY <1>12, CoolType DEF HealSuiteGone, HealEnds
  <1>13. ASSUME NEW saved \in BOOLEAN, HealCollect(saved) PROVE WatchTypeOK'
    BY <1>13 DEF HealCollect
  <1>14. CASE HealFinish
    <2>1. cooling' \in [Domains -> BOOLEAN]
      BY <1>14, Zenon DEF HealFinish
    <2>2. /\ domainStatus' \in [Domains -> {"absent", "healthy", "degraded", "escalating"}]
          /\ failures' \in [Domains -> 0..MaxRetries]
      BY <1>14 DEF HealFinish
    <2> QED
      BY <1>14, <2>1, <2>2 DEF HealFinish, HealEnds
  <1>15. ASSUME NEW d \in Domains, NEW b \in BOOLEAN, SuiteProgress(d, b) PROVE WatchTypeOK'
    BY <1>15 DEF SuiteProgress
  <1>16. ASSUME NEW b \in BOOLEAN, SuiteComplete(b) PROVE WatchTypeOK'
    BY <1>16 DEF SuiteComplete
  <1>17. CASE UserCancels \/ SuiteReleased \/ SuiteDeleted
    BY <1>17 DEF UserCancels, SuiteReleased, SuiteDeleted
  <1>18. ASSUME NEW d \in Domains, ForceCheck(d) \/ CooldownLapses(d) PROVE WatchTypeOK'
    <2>1. cooling' \in [Domains -> BOOLEAN]
      BY <1>18, Zenon DEF ForceCheck, CooldownLapses
    <2>2. domainStatus' \in [Domains -> {"absent", "healthy", "degraded", "escalating"}]
      BY <1>18 DEF ForceCheck, CooldownLapses
    <2> QED
      BY <1>18, <2>1, <2>2 DEF ForceCheck, CooldownLapses, Event
  <1>19. CASE EditConfig
    <2>1. enabled' \in BOOLEAN
      BY <1>19, Zenon DEF EditConfig
    <2>2. listed' \subseteq Domains
      BY <1>19 DEF EditConfig
    <2> QED
      BY <1>19, <2>1, <2>2 DEF EditConfig, Event
  <1>20. CASE UserSearch
    BY <1>20 DEF UserSearch, Event
  <1>21. CASE Stop
    BY <1>21 DEF Stop
  <1>22. CASE UNCHANGED watchVars
    BY <1>22 DEF watchVars
  <1> QED
    BY <1>1, <1>2, <1>3, <1>4, <1>5, <1>6, <1>7, <1>8, <1>9, <1>10, <1>11, <1>12, <1>13,
       <1>14, <1>15, <1>16, <1>17, <1>18, <1>19, <1>20, <1>21, <1>22
    DEF WatchNext, Tick, HealBatch, SuiteEnds, Search, Environment, Stopped

(* The program points of the heal goroutine hang together. *)
LEMMA ShapeStep ==
  WatchInv /\ [WatchNext]_watchVars => (HealerShape /\ RunningPolled /\ QuitOnStop /\ FinishKnowsSaved)'
  <1> SUFFICES ASSUME WatchInv, [WatchNext]_watchVars
               PROVE  (HealerShape /\ RunningPolled /\ QuitOnStop /\ FinishKnowsSaved)'
    OBVIOUS
  <1> USE DEF WatchInv, WatchTypeOK, HealerShape, RunningPolled, QuitOnStop, FinishKnowsSaved,
              cfgVars, domVars, tickVars, healVars, searchVars, HealEnds
  <1> DEFINE Goal == (HealerShape /\ RunningPolled /\ QuitOnStop /\ FinishKnowsSaved)'
  <1>1. CASE TickLoad \/ RunExit \/ \E due \in SUBSET Domains : TickSelect(due)
    BY <1>1 DEF TickLoad, RunExit, TickSelect
  <1>2. ASSUME NEW ok \in SUBSET batch, NEW mtls \in SUBSET batch, TickApply(ok, mtls)
        PROVE  Goal
    <2>1. \/ healing' = TRUE /\ healPc' = "begin" /\ ~healing
          \/ UNCHANGED <<healing, healPc, healSet>>
      BY <1>2 DEF TickApply
    <2>2. UNCHANGED <<healBad, repaired, stop, suite>>
      BY <1>2 DEF TickApply
    <2> QED
      BY <2>1, <2>2
  <1>3. CASE HealBegin \/ HealMark \/ HealStart \/ HealStartFails
    BY <1>3 DEF HealBegin, HealMark, HealStart, HealStartFails
  <1>4. CASE HealPollQuit
    BY <1>4 DEF HealPollQuit, CancelledSuite
  <1>5. CASE HealPollOver \/ HealPollEnough \/ HealWake
    BY <1>5 DEF HealPollOver, HealPollEnough, HealWake
  <1>6. CASE HealStopped \/ HealStopsEarly \/ HealSuiteGone \/ HealFinish
    BY <1>6 DEF HealStopped, HealStopsEarly, HealSuiteGone, HealFinish
  <1>7. ASSUME NEW saved \in BOOLEAN, HealCollect(saved) PROVE Goal
    BY <1>7 DEF HealCollect
  <1>8. ASSUME NEW d \in Domains, NEW b \in BOOLEAN, SuiteProgress(d, b) PROVE Goal
    BY <1>8 DEF SuiteProgress
  <1>9. ASSUME NEW b \in BOOLEAN, SuiteComplete(b) PROVE Goal
    BY <1>9 DEF SuiteComplete
  <1>10. CASE UserCancels \/ SuiteReleased \/ SuiteDeleted
    BY <1>10 DEF UserCancels, SuiteReleased, SuiteDeleted
  <1>11. ASSUME NEW d \in Domains, ForceCheck(d) \/ CooldownLapses(d) PROVE Goal
    BY <1>11 DEF ForceCheck, CooldownLapses
  <1>12. CASE EditConfig \/ UserSearch \/ Stop
    BY <1>12 DEF EditConfig, UserSearch, Stop
  <1>13. CASE UNCHANGED watchVars
    BY <1>13 DEF watchVars
  <1> QED
    BY <1>1, <1>2, <1>3, <1>4, <1>5, <1>6, <1>7, <1>8, <1>9, <1>10, <1>11, <1>12, <1>13
    DEF WatchNext, Tick, HealBatch, SuiteEnds, Search, Environment, Stopped

(* A cooldown that begins while checks are under way begins with failures  *)
(* at zero, and only the end of the checks counts them up again.           *)
LEMMA CoolingStep == WatchInv /\ [WatchNext]_watchVars => CoolingStartsOver'
  <1> SUFFICES ASSUME WatchInv, [WatchNext]_watchVars, NEW d \in batch', cooling'[d]
               PROVE  failures'[d] = 0
    BY DEF CoolingStartsOver
  <1>0. WatchTypeOK /\ WatchTypeOK' /\ d \in Domains /\ (d \in batch /\ cooling[d] => failures[d] = 0)
    BY WatchTypeStep DEF WatchInv, WatchTypeOK, CoolingStartsOver
  <1> USE <1>0 DEF WatchTypeOK
  <1> HIDE DEF WatchTypeOK
  <1>1. ASSUME NEW due \in SUBSET Domains, TickSelect(due) PROVE failures'[d] = 0
    BY <1>1 DEF TickSelect
  <1>2. ASSUME NEW ok \in SUBSET batch, NEW mtls \in SUBSET batch, TickApply(ok, mtls)
        PROVE  failures'[d] = 0
    BY <1>2 DEF TickApply
  <1>3. ASSUME DegradeAndCool(healSet), batch' = batch PROVE failures'[d] = 0
    BY <1>3 DEF DegradeAndCool, Degrade, WatchTypeOK
  <1>4. ASSUME Degrade(healSet), UNCHANGED <<batch, cooling>> PROVE failures'[d] = 0
    BY <1>4 DEF Degrade, WatchTypeOK
  <1>5. CASE HealFinish
    BY <1>5 DEF HealFinish, WatchTypeOK, tickVars
  <1>6. CASE HealStartFails \/ HealSuiteGone
    BY <1>3, <1>6 DEF HealStartFails, HealSuiteGone, tickVars
  <1>7. CASE HealStopped \/ HealStopsEarly
    BY <1>4, <1>7 DEF HealStopped, HealStopsEarly, tickVars
  <1>8. ASSUME NEW e \in Domains, ForceCheck(e) \/ CooldownLapses(e) PROVE failures'[d] = 0
    BY <1>8 DEF ForceCheck, CooldownLapses, tickVars, WatchTypeOK
  <1>9. ASSUME UNCHANGED <<batch, cooling, failures>> PROVE failures'[d] = 0
    BY <1>9
  <1>10. CASE TickLoad \/ RunExit
    BY <1>9, <1>10 DEF TickLoad, RunExit, domVars
  <1>11. CASE HealBegin \/ HealMark \/ HealStart \/ HealPollQuit
    BY <1>9, <1>11 DEF HealBegin, HealMark, HealStart, HealPollQuit, domVars, tickVars
  <1>12. CASE \/ HealPollOver \/ HealPollEnough \/ HealWake
              \/ \E saved \in BOOLEAN : HealCollect(saved)
    BY <1>9, <1>12 DEF HealPollOver, HealPollEnough, HealWake, HealCollect, domVars, tickVars
  <1>13. CASE Search
    BY <1>9, <1>13 DEF Search, SuiteEnds, SuiteReleased, SuiteComplete, UserCancels,
                       SuiteDeleted, SuiteProgress, domVars, tickVars
  <1>14. CASE EditConfig \/ UserSearch \/ Stop
    BY <1>9, <1>14 DEF EditConfig, UserSearch, Stop, domVars, tickVars
  <1>15. CASE UNCHANGED watchVars
    BY <1>9, <1>15 DEF watchVars, domVars, tickVars
  <1> QED
    BY <1>1, <1>2, <1>5, <1>6, <1>7, <1>8, <1>10, <1>11, <1>12, <1>13, <1>14, <1>15
    DEF WatchNext, Tick, HealBatch, Environment, Stopped

(* A domain is marked escalating only by the heal goroutine that repairs   *)
(* it, and every way out of that goroutine but the shutdown's unmarks it.  *)
LEMMA EscalatingStep == WatchInv /\ [WatchNext]_watchVars => EscalatingHasHealer'
  <1> SUFFICES ASSUME WatchInv, [WatchNext]_watchVars, NEW d \in Domains,
                      domainStatus'[d] = "escalating", ~stop'
               PROVE  (healing /\ d \in healSet /\ healPc \notin {"none", "begin", "mark"})'
    BY DEF EscalatingHasHealer
  <1> DEFINE Healed == healing /\ d \in healSet /\ healPc \notin {"none", "begin", "mark"}
  <1>0. /\ WatchTypeOK /\ HealerShape /\ QuitOnStop
        /\ domainStatus[d] = "escalating" /\ ~stop => Healed
    BY DEF WatchInv, EscalatingHasHealer
  <1> USE <1>0 DEF WatchTypeOK
  <1> HIDE DEF WatchTypeOK
  <1>1. ASSUME domainStatus'[d] = domainStatus[d], stop' = stop, UNCHANGED <<healing, healSet, healPc>>
        PROVE  Healed'
    BY <1>1
  <1>2. ASSUME NEW due \in SUBSET Domains, TickSelect(due) PROVE Healed'
    BY <1>2 DEF TickSelect, Synced, healVars
  <1>3. ASSUME NEW ok \in SUBSET batch, NEW mtls \in SUBSET batch, TickApply(ok, mtls)
        PROVE  Healed'
    <2>1. domainStatus[d] = "escalating" /\ stop' = stop
      BY <1>3 DEF TickApply
    <2>2. UNCHANGED <<healing, healSet, healPc>>
      BY <1>3, <2>1 DEF TickApply
    <2> QED
      BY <2>1, <2>2
  <1>4. ASSUME Degrade(healSet), stop' = stop PROVE FALSE
    BY <1>4 DEF Degrade, WatchTypeOK
  <1>5. CASE HealFinish
    BY <1>5 DEF HealFinish, WatchTypeOK
  <1>6. CASE HealStartFails \/ HealSuiteGone
    BY <1>4, <1>6 DEF HealStartFails, HealSuiteGone, DegradeAndCool
  <1>7. CASE HealStopped \/ HealStopsEarly
    BY <1>4, <1>7 DEF HealStopped, HealStopsEarly, QuitOnStop
  <1>8. ASSUME NEW e \in Domains, ForceCheck(e) \/ CooldownLapses(e) PROVE Healed'
    BY <1>1, <1>8 DEF ForceCheck, CooldownLapses, WatchTypeOK, healVars
  <1>9. CASE HealBegin
    BY <1>9 DEF HealBegin, domVars
  <1>10. CASE HealMark
    BY <1>10 DEF HealMark, HealerShape, WatchTypeOK
  <1>11. CASE TickLoad \/ RunExit
    BY <1>1, <1>11 DEF TickLoad, RunExit, domVars, healVars
  <1>12. CASE HealStart \/ HealPollQuit \/ HealPollOver \/ HealPollEnough \/ HealWake
    BY <1>12 DEF HealStart, HealPollQuit, HealPollOver, HealPollEnough, HealWake, domVars
  <1>13. ASSUME NEW saved \in BOOLEAN, HealCollect(saved) PROVE Healed'
    BY <1>13 DEF HealCollect, domVars
  <1>14. CASE Search
    BY <1>1, <1>14 DEF Search, SuiteEnds, SuiteReleased, SuiteComplete, UserCancels,
                       SuiteDeleted, SuiteProgress, domVars, healVars
  <1>15. CASE EditConfig \/ UserSearch
    BY <1>1, <1>15 DEF EditConfig, UserSearch, domVars, healVars
  <1>16. CASE Stop
    BY <1>16 DEF Stop
  <1>17. CASE UNCHANGED watchVars
    BY <1>1, <1>17 DEF watchVars, domVars, healVars
  <1> QED
    BY <1>2, <1>3, <1>5, <1>6, <1>7, <1>8, <1>9, <1>10, <1>11, <1>12, <1>13, <1>14, <1>15,
       <1>16, <1>17
    DEF WatchNext, Tick, HealBatch, Environment, Stopped

LEMMA WatchInvStep == WatchInv /\ [WatchNext]_watchVars => WatchInv'
  <1> SUFFICES ASSUME WatchInv, [WatchNext]_watchVars PROVE WatchInv'
    OBVIOUS
  <1>1. WatchTypeOK'
    BY WatchTypeStep DEF WatchInv
  <1>2. (HealerShape /\ RunningPolled /\ QuitOnStop /\ FinishKnowsSaved)'
    BY ShapeStep
  <1>3. CoolingStartsOver' /\ EscalatingHasHealer'
    BY CoolingStep, EscalatingStep
  <1> QED
    BY <1>1, <1>2, <1>3 DEF WatchInv

LEMMA WatchInvariance == WatchSpec => []WatchInv
  BY WatchInitInv, WatchInvStep, PTL DEF WatchSpec

(* The types of the watchdog's state, for any domains: in particular the   *)
(* failure counter stays within the retries of the configuration.          *)
THEOREM WatchTypeCorrect == WatchSpec => []WatchTypeOK
  <1>1. WatchInv => WatchTypeOK
    BY DEF WatchInv
  <1> QED
    BY <1>1, WatchInvariance, PTL

(* No domain stays escalating after its heal goroutine is gone, whatever   *)
(* checks, edits, forced checks and searches of users came in between.     *)
THEOREM EscalatingAlwaysHasHealer == WatchSpec => []EscalatingHasHealer
  <1>1. WatchInv => EscalatingHasHealer
    BY DEF WatchInv
  <1> QED
    BY <1>1, WatchInvariance, PTL

(* healBatch never returns while its search runs on. *)
THEOREM NeverOrphanSearch == WatchSpec => []NoOrphanSearch
  <1>1. WatchInv => NoOrphanSearch
    BY DEF WatchInv, HealerShape, RunningPolled, NoOrphanSearch
  <1> QED
    BY <1>1, WatchInvariance, PTL

(* A domain goes from escalating to healthy at the end of a repair only    *)
(* with a strategy that was saved.                                         *)
THEOREM HealthyOnlyRepaired == WatchSpec => HealthyIsRepaired
  <1> DEFINE Reports == \A d \in Domains :
               healPc = "finish" /\ healPc' = "none" /\ d \in healSet
                 /\ domainStatus'[d] = "healthy" /\ domainStatus[d] = "escalating" => d \in repaired
  <1>1. WatchInv /\ [WatchNext]_watchVars => [Reports]_watchVars
    <2> SUFFICES ASSUME WatchInv, WatchNext, NEW d \in Domains, healPc = "finish", healPc' = "none",
                        d \in healSet, domainStatus'[d] = "healthy", domainStatus[d] = "escalating"
                 PROVE  d \in repaired
      BY DEF Reports
    <2>1. HealFinish
      BY DEF WatchNext, Tick, TickLoad, RunExit, TickSelect, TickApply, HealBatch, HealBegin,
             HealMark, HealStart, HealStartFails, HealPollQuit, HealPollOver, HealPollEnough,
             HealWake, HealStopped, HealSuiteGone, HealCollect, HealStopsEarly, Search,
             SuiteEnds, SuiteReleased, SuiteComplete, UserCancels, SuiteDeleted, SuiteProgress,
             Environment, EditConfig, UserSearch, Stop, ForceCheck, CooldownLapses, Stopped,
             watchVars, healVars
    <2>2. d \notin healBad
      BY <2>1 DEF HealFinish, WatchInv, WatchTypeOK
    <2> QED
      BY <2>2 DEF WatchInv, FinishKnowsSaved
  <1> QED
    BY <1>1, WatchInvariance, PTL DEF WatchSpec, HealthyIsRepaired

(* With at least two retries no domain enters a repair during its          *)
(* cooldown, even when the cooldown began while its check was under way.   *)
THEOREM NeverHealInCooldown ==
  ASSUME MaxRetries >= 2
  PROVE  WatchSpec => NoHealInCooldown
  <1> DEFINE Warm == healing' /\ ~healing => \A d \in healSet' : ~cooling'[d]
  <1>1. WatchInv /\ [WatchNext]_watchVars => [Warm]_watchVars
    <2> SUFFICES ASSUME WatchInv, WatchNext, healing', ~healing, NEW d \in healSet'
                 PROVE  ~cooling'[d]
      BY DEF Warm
    <2>1. PICK ok \in SUBSET batch, mtls \in SUBSET batch : TickApply(ok, mtls)
      BY DEF WatchInv, HealerShape, WatchNext, Tick, TickLoad, RunExit, TickSelect, HealBatch,
             HealBegin, HealMark, HealStart, HealStartFails, HealPollQuit, HealPollOver,
             HealPollEnough, HealWake, HealStopped, HealSuiteGone, HealCollect, HealFinish,
             HealStopsEarly, HealEnds, Search, SuiteEnds, SuiteReleased, SuiteComplete,
             UserCancels, SuiteDeleted, SuiteProgress, Environment, EditConfig, UserSearch,
             Stop, ForceCheck, CooldownLapses, Stopped, watchVars, healVars
    <2>2. d \in batch \ mtls /\ failures[d] + 1 >= MaxRetries
      <3>1. /\ d \in batch \ mtls
            /\ (IF failures[d] < MaxRetries THEN failures[d] + 1 ELSE MaxRetries) >= MaxRetries
        BY <2>1, Zenon DEF TickApply
      <3> QED
        BY <3>1 DEF WatchInv, WatchTypeOK
    <2>3. ~cooling[d]
      BY <2>2 DEF WatchInv, WatchTypeOK, CoolingStartsOver
    <2> QED
      BY <2>1, <2>2, <2>3 DEF TickApply, WatchInv, WatchTypeOK
  <1> QED
    BY <1>1, WatchInvariance, PTL DEF WatchSpec, NoHealInCooldown

=============================================================================
