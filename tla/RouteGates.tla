------------------------------ MODULE RouteGates ------------------------------
(* routing_devices.go: which devices the rules of a routing set admit.  The    *)
(* global device filter and the set's own devices are folded into one gate,    *)
(* and the gate into jumps with a MAC match or returns in front of the chain.  *)
EXTENDS Naturals, FiniteSets

NoGate == [enabled |-> FALSE, black |-> FALSE, macs |-> {}]

\* A filter without a selected device is no filter.
routeDeviceGateFor(devices) ==
    IF ~devices.enabled \/ devices.macs = {} THEN NoGate
    ELSE [enabled |-> TRUE, black |-> devices.black, macs |-> devices.macs]

\* Mutant: an exclusion under a global whitelist adds to its list.
routeSetDeviceGateUnion(devices, set) ==
    LET global == routeDeviceGateFor(devices)
        white == global.enabled /\ ~global.black
    IN  CASE set.macs = {} -> global
          [] set.macs # {} /\ set.exclude ->
                [enabled |-> TRUE, black |-> ~white, macs |-> global.macs \cup set.macs]
          [] set.macs # {} /\ ~set.exclude ->
                [enabled |-> TRUE, black |-> FALSE,
                 macs |-> IF white THEN global.macs \cap set.macs ELSE set.macs \ global.macs]

routeSetDeviceGate(devices, set) ==
    LET global == routeDeviceGateFor(devices)
        white == global.enabled /\ ~global.black
    IN  CASE set.macs = {} -> global
          [] set.macs # {} /\ set.exclude ->
                [enabled |-> TRUE, black |-> ~white,
                 macs |-> IF white THEN global.macs \ set.macs ELSE global.macs \cup set.macs]
          [] set.macs # {} /\ ~set.exclude ->
                [enabled |-> TRUE, black |-> FALSE,
                 macs |-> IF white THEN global.macs \cap set.macs ELSE set.macs \ global.macs]

\* The jumps from PREROUTING: one per device of a whitelist, else one for all.
EmitGatedJump(gate) ==
    IF gate.enabled /\ ~gate.black THEN {[mac |-> m] : m \in gate.macs} ELSE {[mac |-> "any"]}

\* The returns a blacklist puts at the head of the set's chain.
routeAddBlacklistGate(gate) == IF gate.enabled /\ gate.black THEN gate.macs ELSE {}

\* What a packet of a device meets: a jump that matches it, and no return.
Admits(gate, mac) ==
    /\ \E j \in EmitGatedJump(gate) : j.mac \in {"any", mac}
    /\ mac \notin routeAddBlacklistGate(gate)

=============================================================================
