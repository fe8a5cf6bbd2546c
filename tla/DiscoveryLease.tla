--------------------------- MODULE DiscoveryLease ---------------------------
(***************************************************************************)
(* What discovery.Runtime promises its callers, as an exclusive lease of   *)
(* the discovery queue: one holder at a time; searches join only a lease   *)
(* that is not being closed; a lease ends only when its searches have.     *)
(* DiscoveryRuntime implements it.                                         *)
(***************************************************************************)
CONSTANTS Calls, None

VARIABLES holder,     \* the call whose lease is held, or None
          closing,    \* the lease is being closed
          searches    \* the searches that run under the lease

leaseVars == <<holder, closing, searches>>

Init == holder = None /\ closing = FALSE /\ searches = {}

Acquire(c) ==
  /\ holder = None
  /\ holder' = c
  /\ UNCHANGED <<closing, searches>>

Join(c) ==
  /\ holder # None /\ ~closing
  /\ searches' = searches \cup {c}
  /\ UNCHANGED <<holder, closing>>

Leave(c) ==
  /\ searches' = searches \ {c}
  /\ UNCHANGED <<holder, closing>>

Close ==
  /\ holder # None /\ ~closing
  /\ closing' = TRUE
  /\ UNCHANGED <<holder, searches>>

Release ==
  /\ closing /\ searches = {}
  /\ holder' = None
  /\ closing' = FALSE
  /\ UNCHANGED searches

Next ==
  \/ \E c \in Calls : Acquire(c) \/ Join(c) \/ Leave(c)
  \/ Close
  \/ Release

Spec == Init /\ [][Next]_leaseVars
=============================================================================
