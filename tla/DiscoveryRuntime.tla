-------------------------- MODULE DiscoveryRuntime --------------------------
(***************************************************************************)
(* The discovery runtime (src/src/discovery/runtime.go), the registry of   *)
(* check suites (runner.go) and the life of a run (RunDiscovery and        *)
(* finalize in discovery.go).                                              *)
(*                                                                         *)
(* A call c of StartSuite creates one runtimeState object and one suite;   *)
(* the object, the suite id and the goroutine that runs the suite are all  *)
(* named c.  Every critical section of m.mu is one action.  None is the    *)
(* nil state pointer and the empty suite id.                               *)
(***************************************************************************)
EXTENDS Naturals

CONSTANTS Calls,      \* calls of Runtime.StartSuite (HTTP handler, watchdog)
          Stoppers,   \* other callers of Runtime.Stop (watchdog, shutdown)
          None

ASSUME NamesAssumption == None \notin Calls /\ Calls \cap Stoppers = {}

VARIABLES
  state,       \* Runtime.state
  stopping,    \* the objects whose stopping flag is set
  activeId,    \* activeSuiteID of each object
  wg,          \* the run goroutines each object's WaitGroup counts
  pools,       \* pools whose workers are bound to the discovery queue
  background,  \* pools whose cleanup goroutine and DHCP manager run
  rules,       \* the steering rules in the firewall
  status,      \* CheckSuite.Status
  cancelled,   \* suites whose cancel channel is closed
  registry,    \* keys of activeSuites
  startPc,     \* where each StartSuite call is
  runPc,       \* where each run goroutine is
  stopPc,      \* where each Stop call is
  stopArg,     \* the suite id given to Stop
  stopObj,     \* the object Stop tears down
  stopId       \* the activeSuiteID Stop read under the lock

objVars   == <<state, stopping, activeId, wg>>
resVars   == <<pools, background, rules>>
suiteVars == <<status, cancelled, registry>>
stopVars  == <<stopPc, stopArg, stopObj, stopId>>
vars      == <<objVars, resVars, suiteVars, startPc, runPc, stopVars>>

Procs   == Calls \cup Stoppers      \* a call stands for its run goroutine
Ids     == Calls \cup {None}
Rules   == {"none", "partial", "full", "left"}
Status  == {"pending", "running", "complete", "canceled"}
StartPc == {"idle", "started", "identified", "registered", "returned", "failed"}
RunPc   == {"none", "begin", "checked", "probing", "finalized", "done"}
StopPc  == {"idle", "cancel", "wait", "pool", "rules", "clear", "returned"}
InStop  == {"cancel", "wait", "pool", "rules", "clear"}

(* Every variable holds a value of the type the code gives it. *)
TypeOK ==
  /\ state \in Ids
  /\ stopping \subseteq Calls
  /\ activeId \in [Calls -> Ids]
  /\ wg \in [Calls -> SUBSET Calls]
  /\ pools \subseteq Calls
  /\ background \subseteq Calls
  /\ rules \in Rules
  /\ status \in [Calls -> Status]
  /\ cancelled \subseteq Calls
  /\ registry \subseteq Calls
  /\ startPc \in [Calls -> StartPc]
  /\ runPc \in [Calls -> RunPc]
  /\ stopPc \in [Procs -> StopPc]
  /\ stopArg \in [Procs -> Ids]
  /\ stopObj \in [Procs -> Ids]
  /\ stopId \in [Procs -> Ids]

Init ==
  /\ state = None
  /\ stopping = {}
  /\ activeId = [c \in Calls |-> None]
  /\ wg = [c \in Calls |-> {}]
  /\ pools = {}
  /\ background = {}
  /\ rules = "none"
  /\ status = [c \in Calls |-> "pending"]
  /\ cancelled = {}
  /\ registry = {}
  /\ startPc = [c \in Calls |-> "idle"]
  /\ runPc = [c \in Calls |-> "none"]
  /\ stopPc = [p \in Procs |-> "idle"]
  /\ stopArg = [p \in Procs |-> None]
  /\ stopObj = [p \in Procs |-> None]
  /\ stopId = [p \in Procs |-> None]

----------------------------------------------------------------------------
(* Runtime.StartSuite *)

(* Start returns ErrDiscoveryAlreadyRunning. *)
StartBusy(c) ==
  /\ startPc[c] = "idle"
  /\ state # None
  /\ startPc' = [startPc EXCEPT ![c] = "failed"]
  /\ UNCHANGED <<objVars, resVars, suiteVars, runPc, stopVars>>

(* Start returns before the pool exists: the queue range is out of bounds, *)
(* or applying the rules failed - at the first command, or half way, and   *)
(* then nothing removes the commands that went through.                    *)
StartApplyFails(c) ==
  /\ startPc[c] = "idle"
  /\ state = None
  /\ startPc' = [startPc EXCEPT ![c] = "failed"]
  /\ rules' \in {rules, "partial"}
  /\ UNCHANGED <<objVars, pools, background, suiteVars, runPc, stopVars>>

(* What ClearDiscoverySteeringRules may leave: the errors of its commands   *)
(* are ignored, and so is a backend that cannot be found any more.         *)
Cleared == {"none", "left"}

(* pool.Start fails and stops its workers; Start clears the rules, but the *)
(* goroutines NewPool started are not stopped.                             *)
StartPoolFails(c) ==
  /\ startPc[c] = "idle"
  /\ state = None
  /\ startPc' = [startPc EXCEPT ![c] = "failed"]
  /\ rules' \in Cleared
  /\ background' = background \cup {c}
  /\ UNCHANGED <<objVars, pools, suiteVars, runPc, stopVars>>

(* Mutant: Start does not look whether a runtime is up. *)
MutStartUnguarded(c) ==
  /\ startPc[c] = "idle"
  /\ startPc' = [startPc EXCEPT ![c] = "started"]
  /\ state' = c
  /\ rules' = "full"
  /\ pools' = pools \cup {c}
  /\ background' = background \cup {c}
  /\ UNCHANGED <<stopping, activeId, wg, suiteVars, runPc, stopVars>>

(* The object is created with an empty activeSuiteID. *)
Start(c) ==
  /\ startPc[c] = "idle"
  /\ state = None
  /\ startPc' = [startPc EXCEPT ![c] = "started"]
  /\ state' = c
  /\ rules' = "full"
  /\ pools' = pools \cup {c}
  /\ background' = background \cup {c}
  /\ UNCHANGED <<stopping, activeId, wg, suiteVars, runPc, stopVars>>

(* The id goes to whatever object the runtime holds by now. *)
SetActiveSuiteID(c) ==
  /\ startPc[c] = "started"
  /\ startPc' = [startPc EXCEPT ![c] = "identified"]
  /\ activeId' = IF state # None THEN [activeId EXCEPT ![state] = c] ELSE activeId
  /\ UNCHANGED <<state, stopping, wg, resVars, suiteVars, runPc, stopVars>>

RegisterSuite(c) ==
  /\ startPc[c] = "identified"
  /\ startPc' = [startPc EXCEPT ![c] = "registered"]
  /\ registry' = registry \cup {c}
  /\ UNCHANGED <<objVars, resVars, status, cancelled, runPc, stopVars>>

(* launchSuite adds the goroutine to the object's WaitGroup under the lock. *)
LaunchSuite(c) ==
  /\ startPc[c] = "registered"
  /\ state # None /\ state \notin stopping
  /\ startPc' = [startPc EXCEPT ![c] = "returned"]
  /\ wg' = [wg EXCEPT ![state] = @ \cup {c}]
  /\ runPc' = [runPc EXCEPT ![c] = "begin"]
  /\ UNCHANGED <<state, stopping, activeId, resVars, suiteVars, stopVars>>

(* launchSuite returns without a goroutine; StartSuite still succeeds. *)
LaunchSkipped(c) ==
  /\ startPc[c] = "registered"
  /\ state = None \/ state \in stopping
  /\ startPc' = [startPc EXCEPT ![c] = "returned"]
  /\ UNCHANGED <<objVars, resVars, suiteVars, runPc, stopVars>>

----------------------------------------------------------------------------
(* The run goroutine: RunDiscovery, finalize, the deferred wg.Done *)

(* The check of the cancel channel at the head of RunDiscovery. *)
RunCheck(c) ==
  /\ runPc[c] = "begin"
  /\ IF c \in cancelled
       THEN /\ runPc' = [runPc EXCEPT ![c] = "finalized"]
            /\ status' = [status EXCEPT ![c] = "canceled"]
       ELSE /\ runPc' = [runPc EXCEPT ![c] = "checked"]
            /\ status' = status
  /\ UNCHANGED <<objVars, resVars, cancelled, registry, startPc, stopVars>>

(* setStatus(CheckStatusRunning), whatever the status is by now. *)
RunSetRunning(c) ==
  /\ runPc[c] = "checked"
  /\ runPc' = [runPc EXCEPT ![c] = "probing"]
  /\ status' = [status EXCEPT ![c] = "running"]
  /\ UNCHANGED <<objVars, resVars, cancelled, registry, startPc, stopVars>>

(* The phases end, by themselves or because the channel is closed. *)
RunFinalize(c) ==
  /\ runPc[c] = "probing"
  /\ runPc' = [runPc EXCEPT ![c] = "finalized"]
  /\ status' = [status EXCEPT ![c] = IF @ # "canceled" THEN "complete" ELSE @]
  /\ UNCHANGED <<objVars, resVars, cancelled, registry, startPc, stopVars>>

(* Mutant: the goroutine ends without wg.Done. *)
MutNoWgDone(c) ==
  /\ runPc[c] = "finalized"
  /\ runPc' = [runPc EXCEPT ![c] = "done"]
  /\ UNCHANGED <<objVars, resVars, suiteVars, startPc, stopVars>>

(* wg.Done runs before the deferred Stop. *)
RunDone(c) ==
  /\ runPc[c] = "finalized"
  /\ runPc' = [runPc EXCEPT ![c] = "done"]
  /\ wg' = [o \in Calls |-> wg[o] \ {c}]
  /\ UNCHANGED <<state, stopping, activeId, resVars, suiteVars, startPc, stopVars>>

(* Mutant: only a suite that ran to its end is removed. *)
MutDeleteComplete(c) ==
  /\ runPc[c] \in {"finalized", "done"}
  /\ c \in registry /\ status[c] = "complete"
  /\ registry' = registry \ {c}
  /\ UNCHANGED <<objVars, resVars, status, cancelled, startPc, runPc, stopVars>>

(* The goroutine finalize starts removes the suite 30 s later. *)
DeleteSuite(c) ==
  /\ runPc[c] \in {"finalized", "done"}
  /\ c \in registry
  /\ registry' = registry \ {c}
  /\ UNCHANGED <<objVars, resVars, status, cancelled, startPc, runPc, stopVars>>

----------------------------------------------------------------------------
(* Runtime.Stop, and CancelCheckSuite *)

(* The effect of CancelCheckSuite(id), one critical section of suitesMu. *)
Cancels(id) ==
  IF id \in registry /\ status[id] \in {"pending", "running"}
    THEN /\ cancelled' = cancelled \cup {id}
         /\ status' = [status EXCEPT ![id] = "canceled"]
    ELSE UNCHANGED <<cancelled, status>>

(* handleCancelCheck, and the watchdog before it calls Stop. *)
CancelCheckSuite(c) ==
  /\ c \in registry /\ status[c] \in {"pending", "running"}
  /\ Cancels(c)
  /\ UNCHANGED <<objVars, resVars, registry, startPc, runPc, stopVars>>

(* Who may call Stop(id): the goroutine of suite id once its run is over,  *)
(* a caller that was handed suite id, or the shutdown with an empty id.    *)
MayCallStop(p, id) ==
  IF p \in Calls
    THEN id = p /\ runPc[p] = "done"
    ELSE id # None => startPc[id] = "returned"

(* The early returns of Stop under the lock. *)
StopIgnored(id) ==
  state # None /\ state \notin stopping =>
    id # None /\ activeId[state] \notin {None, id}

StopReturnsEarly(p, id) ==
  /\ stopPc[p] = "idle"
  /\ MayCallStop(p, id)
  /\ StopIgnored(id)
  /\ stopPc' = [stopPc EXCEPT ![p] = "returned"]
  /\ stopArg' = [stopArg EXCEPT ![p] = id]
  /\ UNCHANGED <<objVars, resVars, suiteVars, startPc, runPc, stopObj, stopId>>

StopBegin(p, id) ==
  /\ stopPc[p] = "idle"
  /\ MayCallStop(p, id)
  /\ ~StopIgnored(id)
  /\ stopping' = stopping \cup {state}
  /\ stopPc' = [stopPc EXCEPT ![p] = "cancel"]
  /\ stopArg' = [stopArg EXCEPT ![p] = id]
  /\ stopObj' = [stopObj EXCEPT ![p] = state]
  /\ stopId' = [stopId EXCEPT ![p] = activeId[state]]
  /\ UNCHANGED <<state, activeId, wg, resVars, suiteVars, startPc, runPc>>

StopCancel(p) ==
  /\ stopPc[p] = "cancel"
  /\ stopPc' = [stopPc EXCEPT ![p] = "wait"]
  /\ Cancels(stopId[p])
  /\ UNCHANGED <<objVars, resVars, registry, startPc, runPc, stopArg, stopObj, stopId>>

(* Mutant: Stop does not wait for the runs. *)
MutStopNoJoin(p) ==
  /\ stopPc[p] = "wait"
  /\ stopPc' = [stopPc EXCEPT ![p] = "pool"]
  /\ UNCHANGED <<objVars, resVars, suiteVars, startPc, runPc, stopArg, stopObj, stopId>>

StopWait(p) ==
  /\ stopPc[p] = "wait"
  /\ wg[stopObj[p]] = {}
  /\ stopPc' = [stopPc EXCEPT ![p] = "pool"]
  /\ UNCHANGED <<objVars, resVars, suiteVars, startPc, runPc, stopArg, stopObj, stopId>>

StopPool(p) ==
  /\ stopPc[p] = "pool"
  /\ stopPc' = [stopPc EXCEPT ![p] = "rules"]
  /\ pools' = pools \ {stopObj[p]}
  /\ background' = background \ {stopObj[p]}
  /\ UNCHANGED <<objVars, rules, suiteVars, startPc, runPc, stopArg, stopObj, stopId>>

(* Mutant: Stop forgets the rules. *)
MutKeepRules(p) ==
  /\ stopPc[p] = "rules"
  /\ stopPc' = [stopPc EXCEPT ![p] = "clear"]
  /\ UNCHANGED <<objVars, resVars, suiteVars, startPc, runPc, stopArg, stopObj, stopId>>

(* The marks are the same for every object, so this clears the rules of any. *)
StopClearRules(p) ==
  /\ stopPc[p] = "rules"
  /\ stopPc' = [stopPc EXCEPT ![p] = "clear"]
  /\ rules' \in Cleared
  /\ UNCHANGED <<objVars, pools, background, suiteVars, startPc, runPc, stopArg, stopObj, stopId>>

StopEnd(p) ==
  /\ stopPc[p] = "clear"
  /\ stopPc' = [stopPc EXCEPT ![p] = "returned"]
  /\ state' = None
  /\ UNCHANGED <<stopping, activeId, wg, resVars, suiteVars, startPc, runPc, stopArg, stopObj, stopId>>

----------------------------------------------------------------------------
StartSuite(c) ==
  StartBusy(c) \/ StartApplyFails(c) \/ StartPoolFails(c) \/ Start(c)
StartRest(c) ==
  SetActiveSuiteID(c) \/ RegisterSuite(c) \/ LaunchSuite(c) \/ LaunchSkipped(c)
RunDiscovery(c) ==
  RunCheck(c) \/ RunSetRunning(c) \/ RunFinalize(c) \/ RunDone(c)
StopCall(p) ==
  \E id \in Ids : StopReturnsEarly(p, id) \/ StopBegin(p, id)
Teardown(p) ==
  StopCancel(p) \/ StopWait(p) \/ StopPool(p) \/ StopClearRules(p) \/ StopEnd(p)

(* Every call has been made and every goroutine has ended. *)
Terminated ==
  /\ \A c \in Calls : /\ startPc[c] \in {"returned", "failed"}
                      /\ runPc[c] \in {"none", "done"}
                      /\ runPc[c] = "done" => stopPc[c] = "returned"
  /\ \A p \in Stoppers : stopPc[p] = "returned"
  /\ UNCHANGED vars

Next ==
  \/ \E c \in Calls : \/ StartSuite(c) \/ StartRest(c) \/ RunDiscovery(c)
                      \/ DeleteSuite(c) \/ CancelCheckSuite(c)
  \/ \E p \in Procs : StopCall(p) \/ Teardown(p)
  \/ Terminated

Spec == Init /\ [][Next]_vars

(* The Go scheduler runs every goroutine that can step; a probe has a      *)
(* timeout, so a run ends.  The callers of StartSuite, Stop and            *)
(* CancelCheckSuite owe nothing, except the Stop deferred in the run.      *)
Fairness ==
  /\ \A c \in Calls : /\ WF_vars(StartRest(c))
                      /\ WF_vars(RunDiscovery(c))
                      /\ WF_vars(DeleteSuite(c))
                      /\ WF_vars(StopCall(c))
  /\ \A p \in Procs : WF_vars(Teardown(p))

FairSpec == Spec /\ Fairness

----------------------------------------------------------------------------
(* Properties *)

(* At most one pool is bound to the discovery queue, and it is the one the *)
(* runtime holds (Start refuses while state is set; Stop drops the pool    *)
(* before it drops the pointer).                                           *)
OnePool == pools \subseteq {state}

(* A runtime that is up and not being stopped has its pool and all the     *)
(* rules Start applied; when there is none, they have been cleared, and    *)
(* what still diverts packets to a queue nobody reads is what a failed     *)
(* command of Apply or of Clear left.                                      *)
RulesFollowRuntime ==
  /\ state # None /\ state \notin stopping => rules = "full" /\ state \in pools
  /\ state = None => rules # "full"

(* A run the WaitGroup counts has a live pool and its rules: Stop joins    *)
(* the run first, and launchSuite adds none to an object being stopped.    *)
RunHasRuntime ==
  \A o \in Calls : wg[o] # {} => o = state /\ o \in pools /\ rules = "full"

(* Two Stop calls never tear down at the same time. *)
OneTeardown ==
  \A p, q \in Procs : stopPc[p] \in InStop /\ stopPc[q] \in InStop => p = q

(* The lease a caller of the runtime relies on. *)
Lease == INSTANCE DiscoveryLease WITH
           holder   <- state,
           closing  <- state # None /\ state \in stopping,
           searches <- IF state = None THEN {} ELSE wg[state]

(* The runtime implements the lease: Start takes it, launchSuite joins it, *)
(* Stop closes it and gives it back only after the join.                   *)
ImplementsLease == Lease!Spec

(* Every runtime is released at last: a Start after it can succeed, and no *)
(* Stop waits for the very goroutine it runs in.                           *)
RuntimeReleased == state # None ~> state = None

(* A run that was launched ends and its suite leaves the registry. *)
RunRetired == \A c \in Calls : runPc[c] = "begin" ~> c \notin registry

(* What the changelog says of a restart: no two searches run at once. *)
OneSearch ==
  \A c, d \in Calls :
    runPc[c] \in {"checked", "probing"} /\ runPc[d] \in {"checked", "probing"} => c = d
=============================================================================
