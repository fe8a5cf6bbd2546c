---------------------------- MODULE ProxiesProofs ----------------------------
(* Theorems about Proxies, for any number of connections, secrets, pools,    *)
(* sessions, destinations and datagrams, and for every setting.              *)
EXTENDS Proxies, FiniteSetTheorems, TLAPS

-----------------------------------------------------------------------------
(* The UDP side *)

SesType == [key : Keys \cup {Nil}, relay : BOOLEAN, reply : BOOLEAN,
            loop : {"none", "read", "remove", "close", "done"},
            victim : Sessions \cup {Nil}, idle : BOOLEAN]

TaskType == [pc : {"idle", "dial", "store", "write", "remove", "delete"}, key : Keys \cup {Nil},
             ses : Sessions \cup {Nil}]

OwnerType == [kind : {"none", "tproxy", "socks5"}, pc : {"none", "open", "cancelled", "over"},
              ctx : BOOLEAN, left : Nat, stale : SUBSET Keys, victim : Sessions \cup {Nil},
              closing : SUBSET Sessions]

UdpTypeOK ==
    /\ owner \in OwnerType
    /\ table \in [Keys -> Sessions \cup {Nil}]
    /\ ses \in [Sessions -> SesType]
    /\ task \in [Tasks -> TaskType]

\* A reply loop has its victim in hand until it has closed it; in an association it
\* has closed its own session before it deletes the key.
VictimHands ==
    /\ \A s \in Sessions : ses[s].victim # Nil => ses[s].loop = "close"
    /\ ~Listener => \A s \in Sessions : ses[s].loop = "close" => ~ses[s].relay /\ ~ses[s].reply
    /\ \A s \in Sessions : ses[s].loop # "none" => ses[s].key \in Keys

\* A datagram knows its session, and alone has the one it dialled.
TaskKnows(t) ==
    /\ task[t].pc \notin {"idle", "dial"} => task[t].ses \in Sessions
    /\ task[t].pc # "idle" => task[t].key \in Keys
    /\ task[t].pc = "store" => ses[task[t].ses].loop = "none" /\ ses[task[t].ses].key \in Keys

TaskHands ==
    /\ \A t \in Tasks : TaskKnows(t)
    /\ \A t, u \in Tasks : task[t].pc = "store" /\ task[u].pc = "store" /\ task[t].ses = task[u].ses => t = u

\* The owner collects the sessions of its table once, at its end.
OwnerHands == owner.pc # "over" => owner.closing = {}

Hands == VictimHands /\ TaskHands /\ OwnerHands

\* The listener's context is cancelled as it begins to stop.
Context ==
    Listener => (owner.pc = "open" /\ owner.ctx) \/ (owner.pc \in {"cancelled", "over"} /\ ~owner.ctx)

\* After the swap of stopUDP nothing is put into the listener's table.
Emptied == Listener /\ owner.pc = "over" => \A k \in Keys : table[k] = Nil

InTransit(s) == \E t \in Tasks : task[t].ses = s /\ task[t].pc = "store"

ListenerHolds(s) ==
    \/ \E k \in Keys : table[k] = s
    \/ InTransit(s)
    \/ \E u \in Sessions : ses[u].victim = s
    \/ owner.victim = s \/ s \in owner.closing

AssociationHolds(s) == InTransit(s) \/ ses[s].loop \in {"read", "remove", "close"}

\* An association may take the entry of one session out of its table on behalf of
\* another: there the session's own reader is what closes it.
OpenHeld ==
    \A s \in Sessions : ses[s].relay \/ ses[s].reply =>
        IF Listener THEN ListenerHolds(s) ELSE AssociationHolds(s)

UdpInv == UdpTypeOK /\ Hands /\ Context /\ Emptied /\ OpenHeld

USE SessionsAssumption

\* Closing a session changes nothing but its two sockets.
LEMMA CloseEffect ==
    ASSUME UdpTypeOK, NEW s \in Sessions \cup {Nil}, Close(s)
    PROVE  /\ ses' \in [Sessions -> SesType]
           /\ \A u \in Sessions : /\ ses'[u].loop = ses[u].loop /\ ses'[u].victim = ses[u].victim
                                  /\ ses'[u].key = ses[u].key
                                  /\ u = s => ~ses'[u].relay /\ ~ses'[u].reply
                                  /\ u # s => ses'[u] = ses[u]
  <1>1. CASE s = Nil
    BY <1>1 DEF Close, UdpTypeOK
  <1>2. CASE s \in Sessions
    <2>1. Closed(ses[s]) \in SesType
      BY <1>2 DEF Closed, UdpTypeOK, SesType
    <2>2. ses' = [ses EXCEPT ![s] = Closed(ses[s])]
      BY <1>2 DEF Close
    <2>3. /\ Closed(ses[s]).loop = ses[s].loop /\ Closed(ses[s]).victim = ses[s].victim
          /\ Closed(ses[s]).key = ses[s].key
          /\ ~Closed(ses[s]).relay /\ ~Closed(ses[s]).reply
      BY <1>2 DEF Closed, UdpTypeOK, SesType
    <2>4. /\ ses' \in [Sessions -> SesType] /\ ses'[s] = Closed(ses[s])
          /\ \A u \in Sessions : u # s => ses'[u] = ses[u]
      BY <1>2, <2>1, <2>2 DEF UdpTypeOK
    <2> QED
      BY <2>3, <2>4
  <1> QED
    BY <1>1, <1>2

\* Nor does the age of a session touch anything else.
LEMMA IdleEffect ==
    ASSUME NEW r \in SesType, NEW b \in BOOLEAN
    PROVE  /\ [r EXCEPT !.idle = b] \in SesType
           /\ [r EXCEPT !.idle = b].loop = r.loop /\ [r EXCEPT !.idle = b].victim = r.victim
           /\ [r EXCEPT !.idle = b].key = r.key /\ [r EXCEPT !.idle = b].relay = r.relay
           /\ [r EXCEPT !.idle = b].reply = r.reply
  <1>1. [r EXCEPT !.idle = b] \in SesType
    BY DEF SesType
  <1>2. /\ [r EXCEPT !.idle = b].loop = r.loop /\ [r EXCEPT !.idle = b].victim = r.victim
        /\ [r EXCEPT !.idle = b].key = r.key
    BY DEF SesType
  <1>3. [r EXCEPT !.idle = b].relay = r.relay
    BY DEF SesType
  <1>4. [r EXCEPT !.idle = b].reply = r.reply
    BY DEF SesType
  <1> QED
    BY <1>1, <1>2, <1>3, <1>4

\* The other datagrams keep what they have in hand.
LEMMA TaskHandsKept ==
    ASSUME TaskHands, NEW t \in Tasks, TaskKnows(t)',
           \A u \in Tasks : u # t => task'[u] = task[u],
           \A u \in Tasks : u # t /\ task[u].pc = "store" =>
               /\ ses'[task[u].ses].loop = ses[task[u].ses].loop
               /\ ses'[task[u].ses].key = ses[task[u].ses].key,
           task'[t].pc = "store" => \A u \in Tasks : u # t /\ task[u].pc = "store" => task[u].ses # task'[t].ses
    PROVE  TaskHands'
  <1>1. ASSUME NEW u \in Tasks PROVE TaskKnows(u)'
    BY <1>1 DEF TaskHands, TaskKnows
  <1>2. ASSUME NEW u \in Tasks, NEW v \in Tasks,
               (task[u].pc = "store" /\ task[v].pc = "store" /\ task[u].ses = task[v].ses)'
        PROVE  u = v
    BY <1>2 DEF TaskHands
  <1> QED
    BY <1>1, <1>2 DEF TaskHands

\* A datagram's steps.
LEMMA ReceiveStep ==
    ASSUME UdpInv, NEW t \in Tasks, NEW k \in Keys, Receive(t, k)
    PROVE  UdpInv'
  <1> USE DEF UdpInv
  <1>1. UdpTypeOK'
    <2>1. owner' \in OwnerType
      BY DEF Receive, UdpTypeOK, OwnerType
    <2>2. task' \in [Tasks -> TaskType]
      BY DEF Receive, UdpTypeOK, TaskType
    <2> QED
      BY <2>1, <2>2 DEF Receive, UdpTypeOK
  <1>2. /\ owner'.kind = owner.kind /\ owner'.pc = owner.pc /\ owner'.ctx = owner.ctx
        /\ owner'.victim = owner.victim /\ owner'.closing = owner.closing
        /\ table' = table /\ ses' = ses
    BY DEF Receive, UdpTypeOK, OwnerType
  <1>3. /\ \A u \in Tasks : u # t => task'[u] = task[u]
        /\ task'[t].pc \in {"dial", "write"} /\ task[t].pc = "idle" /\ task'[t].key = k
        /\ task'[t].pc = "write" => task'[t].ses \in Sessions
    BY DEF Receive, UdpTypeOK, TaskType
  <1>4. Hands' /\ Context' /\ Emptied'
    <2>1. TaskHands'
      BY <1>2, <1>3, TaskHandsKept DEF Hands, TaskKnows
    <2> QED
      BY <1>2, <2>1 DEF Hands, VictimHands, OwnerHands, Context, Emptied, Listener
  <1>5. \A s \in Sessions : InTransit(s) => InTransit(s)'
    BY <1>3 DEF InTransit
  <1>6. OpenHeld'
    BY <1>2, <1>5 DEF OpenHeld, ListenerHolds, AssociationHolds, Listener
  <1> QED
    BY <1>1, <1>4, <1>6

LEMMA FreshSession ==
    ASSUME NEW k \in Keys, NEW b \in BOOLEAN
    PROVE  /\ [NoSes EXCEPT !.key = k, !.relay = TRUE, !.reply = b] \in SesType
           /\ [NoSes EXCEPT !.key = k, !.relay = TRUE, !.reply = b].loop = "none"
           /\ [NoSes EXCEPT !.key = k, !.relay = TRUE, !.reply = b].victim = Nil
           /\ [NoSes EXCEPT !.key = k, !.relay = TRUE, !.reply = b].key = k
  <1>1. [NoSes EXCEPT !.key = k, !.relay = TRUE, !.reply = b] \in SesType
    BY DEF NoSes, SesType
  <1>2. [NoSes EXCEPT !.key = k, !.relay = TRUE, !.reply = b].loop = "none"
    BY DEF NoSes
  <1>3. [NoSes EXCEPT !.key = k, !.relay = TRUE, !.reply = b].victim = Nil
    BY DEF NoSes
  <1>4. [NoSes EXCEPT !.key = k, !.relay = TRUE, !.reply = b].key = k
    BY DEF NoSes
  <1> QED
    BY <1>1, <1>2, <1>3, <1>4

LEMMA NewSessionStep ==
    ASSUME UdpInv, NEW t \in Tasks, newUDPSession(t)
    PROVE  UdpInv'
  <1> USE DEF UdpInv
  <1>1. PICK s \in Sessions :
          /\ ses[s] = NoSes
          /\ ses' = [ses EXCEPT ![s] = [NoSes EXCEPT !.key = task[t].key, !.relay = TRUE, !.reply = Listener]]
          /\ task' = [task EXCEPT ![t].pc = "store", ![t].ses = s]
    BY DEF newUDPSession, Free
  <1> DEFINE new == [NoSes EXCEPT !.key = task[t].key, !.relay = TRUE, !.reply = Listener]
  <1>2. new \in SesType /\ new.loop = "none" /\ new.victim = Nil /\ new.key \in Keys
    <2>1. Listener \in BOOLEAN
      BY DEF Listener
    <2>2. task[t].key \in Keys
      BY DEF Hands, TaskHands, TaskKnows, newUDPSession
    <2> QED
      BY <2>1, <2>2, FreshSession
  <1>3. /\ ses' \in [Sessions -> SesType] /\ ses'[s] = new
        /\ \A u \in Sessions : u # s => ses'[u] = ses[u]
    <2> HIDE DEF new
    <2>1. ses' = [ses EXCEPT ![s] = new]
      BY <1>1 DEF new
    <2> QED
      BY <1>2, <2>1 DEF UdpTypeOK
  <1>4. /\ task' \in [Tasks -> TaskType] /\ task'[t].pc = "store" /\ task'[t].ses = s
        /\ task'[t].key = task[t].key /\ task[t].pc = "dial"
        /\ \A u \in Tasks : u # t => task'[u] = task[u]
    BY <1>1 DEF UdpTypeOK, TaskType, newUDPSession
  <1>5. UNCHANGED <<owner, table>>
    BY DEF newUDPSession
  <1>6. ses[s].victim = Nil /\ ses[s].loop = "none" /\ ses[s].key \notin Keys
    BY <1>1 DEF NoSes
  <1> HIDE DEF new
  <1>7. UdpTypeOK'
    BY <1>3, <1>4, <1>5 DEF UdpTypeOK
  <1>8. Hands' /\ Context' /\ Emptied'
    <2>1. \A u \in Sessions : /\ ses'[u].loop = ses[u].loop /\ ses'[u].victim = ses[u].victim
                              /\ u # s => ses'[u] = ses[u]
      BY <1>2, <1>3, <1>6
    <2>2. \A u \in Tasks : task[u].pc = "store" => u # t /\ task[u].ses # s /\ task[u].ses \in Sessions
      BY <1>4, <1>6 DEF Hands, TaskHands, TaskKnows
    <2>3. TaskHands'
      <3>1. TaskKnows(t)'
        BY <1>2, <1>3, <1>4 DEF Hands, TaskHands, TaskKnows
      <3> QED
        BY <1>3, <1>4, <2>2, <3>1, TaskHandsKept DEF Hands
    <2>4. VictimHands'
      BY <1>5, <1>6, <2>1 DEF Hands, VictimHands, Listener
    <2> QED
      BY <1>5, <2>3, <2>4 DEF Hands, OwnerHands, Context, Emptied, Listener
  <1>9. OpenHeld'
    <2> SUFFICES ASSUME NEW u \in Sessions, (ses[u].relay \/ ses[u].reply)'
                 PROVE  IF Listener' THEN ListenerHolds(u)' ELSE AssociationHolds(u)'
      BY DEF OpenHeld
    <2>1. CASE u = s
      BY <1>4, <2>1 DEF ListenerHolds, AssociationHolds, InTransit
    <2>2. CASE u # s
      <3>1. IF Listener THEN ListenerHolds(u) ELSE AssociationHolds(u)
        BY <1>3, <2>2 DEF OpenHeld
      <3>2. InTransit(u) => InTransit(u)'
        BY <1>4 DEF InTransit
      <3>3. (\E v \in Sessions : ses[v].victim = u) => (\E v \in Sessions : ses'[v].victim = u)
        BY <1>3, <1>6
      <3> QED
        BY <1>3, <1>5, <2>2, <3>1, <3>2, <3>3 DEF ListenerHolds, AssociationHolds, Listener
    <2> QED
      BY <2>1, <2>2
  <1> QED
    BY <1>7, <1>8, <1>9

\* Where only the datagram moves on, and holds no session it dialled.
LEMMA TaskMoves ==
    ASSUME UdpInv, NEW t \in Tasks, task[t].pc # "store", NEW new \in TaskType, new.pc # "store",
           task' = [task EXCEPT ![t] = new],
           new.pc \notin {"idle", "dial"} => new.ses \in Sessions,
           new.pc # "idle" => new.key \in Keys,
           owner' = owner,
           table' = table \/ (~Listener /\ table' \in [Keys -> Sessions \cup {Nil}]),
           ses' \in [Sessions -> SesType],
           \A u \in Sessions : /\ ses'[u].loop = ses[u].loop /\ ses'[u].victim = ses[u].victim
                               /\ ses'[u].key = ses[u].key
                               /\ (ses[u].relay \/ ses[u].reply)' => ses[u].relay \/ ses[u].reply
    PROVE  UdpInv'
  <1> USE DEF UdpInv
  <1>1. task' \in [Tasks -> TaskType] /\ task'[t] = new /\ \A u \in Tasks : u # t => task'[u] = task[u]
    BY DEF UdpTypeOK
  <1>2. UdpTypeOK'
    BY <1>1 DEF UdpTypeOK
  <1>3. Hands' /\ Context' /\ Emptied'
    <2>1. TaskHands'
      <3>1. TaskKnows(t)' /\ task'[t].pc = new.pc
        BY <1>1 DEF TaskKnows
      <3>2. \A u \in Tasks : task[u].pc = "store" => task[u].ses \in Sessions
        BY DEF Hands, TaskHands, TaskKnows
      <3> QED
        BY <1>1, <3>1, <3>2, TaskHandsKept DEF Hands
    <2>2. VictimHands'
      BY DEF Hands, VictimHands, Listener
    <2> QED
      BY <2>1, <2>2 DEF Hands, OwnerHands, Context, Emptied, Listener
  <1>4. \A u \in Sessions : InTransit(u) => InTransit(u)'
    BY <1>1 DEF InTransit
  <1>5. OpenHeld'
    BY <1>4 DEF OpenHeld, ListenerHolds, AssociationHolds, Listener
  <1> QED
    BY <1>2, <1>3, <1>5

LEMMA SessionFailsStep ==
    ASSUME UdpInv, NEW t \in Tasks, SessionFails(t)
    PROVE  UdpInv'
  <1>1. NoTask \in TaskType /\ NoTask.pc = "idle"
    BY DEF NoTask, TaskType
  <1>2. /\ task[t].pc = "dial" /\ task' = [task EXCEPT ![t] = NoTask]
        /\ UNCHANGED <<owner, table, ses>>
    BY DEF SessionFails
  <1>3. ses \in [Sessions -> SesType]
    BY DEF UdpInv, UdpTypeOK
  <1> QED
    BY <1>1, <1>2, <1>3, TaskMoves

LEMMA WriteStep ==
    ASSUME UdpInv, NEW t \in Tasks, Write(t)
    PROVE  UdpInv'
  <1>1. /\ task[t].pc = "write" /\ task[t] \in TaskType /\ ses \in [Sessions -> SesType]
        /\ task[t].ses \in Sessions /\ task[t].key \in Keys /\ UNCHANGED <<owner, table>>
    BY DEF Write, UdpInv, UdpTypeOK, Hands, TaskHands, TaskKnows
  <1>2. CASE /\ ses' = [ses EXCEPT ![task[t].ses].idle = FALSE]
             /\ task' = [task EXCEPT ![t] = NoTask]
    <2>1. NoTask \in TaskType /\ NoTask.pc = "idle"
      BY DEF NoTask, TaskType
    <2> DEFINE v == task[t].ses
               r == [ses[v] EXCEPT !.idle = FALSE]
    <2>2. /\ r \in SesType /\ r.loop = ses[v].loop /\ r.victim = ses[v].victim
          /\ r.key = ses[v].key /\ r.relay = ses[v].relay /\ r.reply = ses[v].reply
      BY <1>1, IdleEffect
    <2> HIDE DEF r
    <2>3. ses' = [ses EXCEPT ![v] = r]
      BY <1>2 DEF r
    <2> HIDE DEF v
    <2>4. /\ ses' \in [Sessions -> SesType]
          /\ \A u \in Sessions : /\ ses'[u].loop = ses[u].loop /\ ses'[u].victim = ses[u].victim
                                 /\ ses'[u].key = ses[u].key
                                 /\ (ses[u].relay \/ ses[u].reply)' => ses[u].relay \/ ses[u].reply
      BY <1>1, <2>2, <2>3
    <2> QED
      BY <1>1, <1>2, <2>1, <2>4, TaskMoves
  <1>3. CASE task' = [task EXCEPT ![t].pc = "remove"] /\ UNCHANGED ses
    <2> DEFINE new == [task[t] EXCEPT !.pc = "remove"]
    <2>1. new \in TaskType /\ new.ses \in Sessions /\ new.key \in Keys /\ new.pc = "remove"
      BY <1>1 DEF TaskType
    <2>2. task' = [task EXCEPT ![t] = new]
      BY <1>3
    <2> HIDE DEF new
    <2> QED
      BY <1>1, <1>3, <2>1, <2>2, TaskMoves
  <1> QED
    BY <1>2, <1>3 DEF Write

LEMMA DispatchStep ==
    ASSUME UdpInv, NEW t \in Tasks, dispatchUDP(t)
    PROVE  UdpInv'
  <1> USE DEF UdpInv
  <1> DEFINE k == task[t].key
             s == task[t].ses
  <1>1. k \in Keys /\ s \in Sessions /\ task[t] \in TaskType /\ task[t].pc = "store" /\ owner' = owner
    BY DEF dispatchUDP, Hands, TaskHands, TaskKnows, UdpTypeOK
  <1>2. CASE table[k] # Nil \/ (Listener /\ ~owner.ctx)
    <2>1. Close(s) /\ UNCHANGED table
      BY <1>2 DEF dispatchUDP
    <2>2. PICK new \in TaskType : /\ task' = [task EXCEPT ![t] = new] /\ new.pc \in {"write", "idle"}
                                  /\ new.pc = "write" => new.ses \in Sessions /\ new.key \in Keys
      <3>1. CASE table[k] # Nil
        <4> DEFINE new == [task[t] EXCEPT !.pc = "write", !.ses = table[k]]
        <4>1. table[k] \in Sessions
          BY <1>1, <3>1 DEF UdpTypeOK
        <4>2. new \in TaskType /\ new.pc = "write" /\ new.ses \in Sessions /\ new.key \in Keys
          BY <1>1, <4>1 DEF TaskType
        <4>3. task' = [task EXCEPT ![t] = new]
          BY <3>1 DEF dispatchUDP, UdpTypeOK
        <4> HIDE DEF new
        <4> QED
          BY <4>2, <4>3
      <3>2. CASE table[k] = Nil
        <4>1. task' = [task EXCEPT ![t] = NoTask]
          BY <1>2, <3>2 DEF dispatchUDP
        <4>2. NoTask \in TaskType /\ NoTask.pc = "idle"
          BY DEF NoTask, TaskType
        <4> QED
          BY <4>1, <4>2
      <3> QED
        BY <3>1, <3>2
    <2>3. task' \in [Tasks -> TaskType] /\ task'[t] = new /\ \A u \in Tasks : u # t => task'[u] = task[u]
      BY <2>2 DEF UdpTypeOK
    <2> HIDE DEF s, k
    <2>4. /\ ses' \in [Sessions -> SesType]
          /\ \A u \in Sessions : /\ ses'[u].loop = ses[u].loop /\ ses'[u].victim = ses[u].victim
                                 /\ ses'[u].key = ses[u].key
                                 /\ u = s => ~ses'[u].relay /\ ~ses'[u].reply
                                 /\ u # s => ses'[u] = ses[u]
      BY <1>1, <2>1, CloseEffect
    <2>5. UdpTypeOK'
      BY <1>1, <2>1, <2>3, <2>4 DEF UdpTypeOK
    <2>6. Hands' /\ Context' /\ Emptied'
      <3>1. TaskHands'
        <4>1. TaskKnows(t)' /\ task'[t].pc # "store"
          BY <2>2, <2>3 DEF TaskKnows
        <4>2. \A u \in Tasks : task[u].pc = "store" => task[u].ses \in Sessions
          BY DEF Hands, TaskHands, TaskKnows
        <4> QED
          BY <2>3, <2>4, <4>1, <4>2, TaskHandsKept DEF Hands
      <3>2. VictimHands'
        BY <1>1, <2>4 DEF Hands, VictimHands, Listener
      <3> QED
        BY <1>1, <2>1, <3>1, <3>2 DEF Hands, OwnerHands, Context, Emptied, Listener
    <2>7. \A u \in Sessions : u # s /\ InTransit(u) => InTransit(u)'
      BY <2>3 DEF InTransit, s
    <2>8. OpenHeld'
      <3> SUFFICES ASSUME NEW u \in Sessions, (ses[u].relay \/ ses[u].reply)'
                   PROVE  IF Listener' THEN ListenerHolds(u)' ELSE AssociationHolds(u)'
        BY DEF OpenHeld
      <3>1. u # s /\ ses'[u] = ses[u]
        BY <2>4
      <3>2. IF Listener THEN ListenerHolds(u) ELSE AssociationHolds(u)
        BY <3>1 DEF OpenHeld
      <3> QED
        BY <1>1, <2>1, <2>4, <2>7, <3>1, <3>2 DEF ListenerHolds, AssociationHolds, Listener
    <2> QED
      BY <2>5, <2>6, <2>8
  <1>3. CASE table[k] = Nil /\ ~(Listener /\ ~owner.ctx)
    <2> DEFINE r == [ses[s] EXCEPT !.loop = "read"]
               new == [task[t] EXCEPT !.pc = "write"]
    <2>1. /\ table' = [table EXCEPT ![k] = s]
          /\ ses' = [ses EXCEPT ![s] = r]
          /\ task' = [task EXCEPT ![t] = new]
      BY <1>3 DEF dispatchUDP
    <2>2. ses[s] \in SesType
      BY <1>1 DEF UdpTypeOK
    <2>3. /\ r \in SesType /\ r.loop = "read" /\ r.victim = ses[s].victim /\ r.key = ses[s].key
      BY <2>2 DEF SesType
    <2>4. /\ new \in TaskType /\ new.pc = "write" /\ new.ses = s /\ new.key = k
      BY <1>1 DEF TaskType
    <2> HIDE DEF r, new
    <2>5. /\ table' \in [Keys -> Sessions \cup {Nil}] /\ table'[k] = s
          /\ \A j \in Keys : j # k => table'[j] = table[j]
      BY <1>1, <2>1 DEF UdpTypeOK
    <2>6. /\ ses' \in [Sessions -> SesType] /\ ses'[s] = r /\ \A u \in Sessions : u # s => ses'[u] = ses[u]
      BY <1>1, <2>1, <2>3 DEF UdpTypeOK
    <2>7. /\ task' \in [Tasks -> TaskType] /\ task'[t] = new /\ \A u \in Tasks : u # t => task'[u] = task[u]
      BY <2>1, <2>4 DEF UdpTypeOK
    <2>8. UdpTypeOK'
      BY <1>1, <2>5, <2>6, <2>7 DEF UdpTypeOK
    <2>9. ses[s].victim = Nil /\ ses[s].key \in Keys
      BY <1>1 DEF Hands, TaskHands, TaskKnows, VictimHands
    <2>10. Hands'
      <3>1. TaskHands'
        <4>1. \A u \in Tasks : u # t /\ task[u].pc = "store" => task[u].ses # s /\ task[u].ses \in Sessions
          BY <1>1 DEF Hands, TaskHands, TaskKnows
        <4>2. TaskKnows(t)' /\ task'[t].pc = "write"
          BY <1>1, <2>4, <2>7 DEF TaskKnows
        <4> QED
          BY <2>6, <2>7, <4>1, <4>2, TaskHandsKept DEF Hands
      <3>2. VictimHands'
        BY <1>1, <2>3, <2>6, <2>9 DEF Hands, VictimHands, Listener
      <3> QED
        BY <1>1, <3>1, <3>2 DEF Hands, OwnerHands
    <2>11. Context' /\ Emptied'
      BY <1>1, <1>3 DEF Context, Emptied, Listener
    <2>12. OpenHeld'
      <3> SUFFICES ASSUME NEW u \in Sessions, (ses[u].relay \/ ses[u].reply)'
                   PROVE  IF Listener' THEN ListenerHolds(u)' ELSE AssociationHolds(u)'
        BY DEF OpenHeld
      <3>1. CASE u = s
        BY <1>1, <2>3, <2>5, <2>6, <3>1 DEF ListenerHolds, AssociationHolds
      <3>2. CASE u # s
        <4>1. IF Listener THEN ListenerHolds(u) ELSE AssociationHolds(u)
          BY <2>6, <3>2 DEF OpenHeld
        <4>2. InTransit(u) => InTransit(u)'
          BY <2>7, <3>2 DEF InTransit
        <4>3. (\E v \in Sessions : ses[v].victim = u) => (\E v \in Sessions : ses'[v].victim = u)
          BY <1>1, <2>3, <2>6
        <4>4. (\E j \in Keys : table[j] = u) => (\E j \in Keys : table'[j] = u)
          BY <1>3, <2>5
        <4> QED
          BY <1>1, <2>6, <3>2, <4>1, <4>2, <4>3, <4>4 DEF ListenerHolds, AssociationHolds, Listener
      <3> QED
        BY <3>1, <3>2
    <2> QED
      BY <2>8, <2>10, <2>11, <2>12
  <1> QED
    BY <1>2, <1>3

LEMMA TargetCloses ==
    ASSUME UdpInv, NEW t \in Tasks, ~Listener, WriteFailed(t)
    PROVE  UdpInv'
  <1> DEFINE new == [task[t] EXCEPT !.pc = "delete"]
  <1>1. /\ task[t].pc = "remove" /\ task[t] \in TaskType
        /\ task[t].ses \in Sessions /\ task[t].key \in Keys /\ UNCHANGED <<owner, table>>
    BY DEF WriteFailed, UdpInv, UdpTypeOK, Hands, TaskHands, TaskKnows
  <1>2. new \in TaskType /\ new.ses \in Sessions /\ new.key \in Keys /\ new.pc = "delete"
    BY <1>1 DEF TaskType
  <1>3. task' = [task EXCEPT ![t] = new] /\ Close(task[t].ses)
    BY DEF WriteFailed
  <1> HIDE DEF new
  <1>4. /\ ses' \in [Sessions -> SesType]
        /\ \A u \in Sessions : /\ ses'[u].loop = ses[u].loop /\ ses'[u].victim = ses[u].victim
                               /\ ses'[u].key = ses[u].key
                               /\ (ses[u].relay \/ ses[u].reply)' => ses[u].relay \/ ses[u].reply
    BY <1>1, <1>3, CloseEffect DEF UdpInv
  <1> QED
    BY <1>1, <1>2, <1>3, <1>4, TaskMoves

LEMMA DeleteKeyStep ==
    ASSUME UdpInv, NEW t \in Tasks, DeleteKey(t)
    PROVE  UdpInv'
  <1>1. NoTask \in TaskType /\ NoTask.pc = "idle"
    BY DEF NoTask, TaskType
  <1>2. /\ ~Listener /\ task[t].pc = "delete" /\ task' = [task EXCEPT ![t] = NoTask]
        /\ table' = [table EXCEPT ![task[t].key] = Nil] /\ UNCHANGED <<owner, ses>>
    BY DEF DeleteKey
  <1>3. ses \in [Sessions -> SesType] /\ table' \in [Keys -> Sessions \cup {Nil}]
    BY <1>2 DEF UdpInv, UdpTypeOK
  <1> QED
    BY <1>1, <1>2, <1>3, TaskMoves

LEMMA WriteFailedStep ==
    ASSUME UdpInv, NEW t \in Tasks, Listener, WriteFailed(t)
    PROVE  UdpInv'
  <1> USE DEF UdpInv
  <1> DEFINE k == task[t].key
             v == table[k]
  <1>1. k \in Keys /\ task[t].ses \in Sessions /\ task[t].pc = "remove" /\ owner' = owner
    BY DEF WriteFailed, Hands, TaskHands, TaskKnows
  <1>2. v \in Sessions \cup {Nil}
    BY <1>1 DEF UdpTypeOK
  <1>3. Close(v) /\ task' = [task EXCEPT ![t] = NoTask] /\ table' = [table EXCEPT ![k] = Nil]
    BY DEF WriteFailed
  <1>4. Listener => v = table[k]
    OBVIOUS
  <1> HIDE DEF v, k
  <1>5. /\ ses' \in [Sessions -> SesType]
        /\ \A u \in Sessions : /\ ses'[u].loop = ses[u].loop /\ ses'[u].victim = ses[u].victim
                               /\ ses'[u].key = ses[u].key
                               /\ u = v => ~ses'[u].relay /\ ~ses'[u].reply
                               /\ u # v => ses'[u] = ses[u]
    BY <1>2, <1>3, CloseEffect
  <1>6. /\ task' \in [Tasks -> TaskType] /\ task'[t].pc = "idle"
        /\ \A u \in Tasks : u # t => task'[u] = task[u]
    BY <1>3 DEF UdpTypeOK, NoTask, TaskType
  <1>7. /\ table' \in [Keys -> Sessions \cup {Nil}] /\ table'[k] = Nil
        /\ \A j \in Keys : j # k => table'[j] = table[j]
    BY <1>1, <1>3 DEF UdpTypeOK
  <1>8. UdpTypeOK'
    BY <1>1, <1>5, <1>6, <1>7 DEF UdpTypeOK
  <1>9. Hands' /\ Context' /\ Emptied'
    <2>1. TaskHands'
      <3>1. TaskKnows(t)'
        BY <1>6 DEF TaskKnows
      <3>2. \A u \in Tasks : task[u].pc = "store" => task[u].ses \in Sessions
        BY DEF Hands, TaskHands, TaskKnows
      <3> QED
        BY <1>5, <1>6, <3>1, <3>2, TaskHandsKept DEF Hands
    <2>2. VictimHands'
      BY <1>1, <1>5 DEF Hands, VictimHands, Listener
    <2>3. Emptied'
      BY <1>1, <1>7 DEF Emptied, Listener
    <2> QED
      BY <1>1, <2>1, <2>2, <2>3 DEF Hands, OwnerHands, Context, Listener
  <1>10. OpenHeld'
    <2> SUFFICES ASSUME NEW u \in Sessions, (ses[u].relay \/ ses[u].reply)'
                 PROVE  IF Listener' THEN ListenerHolds(u)' ELSE AssociationHolds(u)'
      BY DEF OpenHeld
    <2>1. u # v /\ ses'[u] = ses[u]
      BY <1>5
    <2>2. IF Listener THEN ListenerHolds(u) ELSE AssociationHolds(u)
      BY <2>1 DEF OpenHeld
    <2>3. InTransit(u) => InTransit(u)'
      BY <1>1, <1>6 DEF InTransit
    <2>4. Listener => ((\E j \in Keys : table[j] = u) => (\E j \in Keys : table'[j] = u))
      BY <1>4, <1>7, <2>1
    <2> QED
      BY <1>1, <1>5, <2>1, <2>2, <2>3, <2>4 DEF ListenerHolds, AssociationHolds, Listener
  <1> QED
    BY <1>8, <1>9, <1>10

\* A session's own steps that leave the table alone: it ages or is refreshed, its relay
\* is closed from the other side, its reader gives up, or closes it.
LEMMA SessionMoves ==
    ASSUME UdpInv, NEW s \in Sessions, NEW new \in SesType, ses' = [ses EXCEPT ![s] = new],
           new.key = ses[s].key, new.victim = ses[s].victim,
           \/ new.loop = ses[s].loop
           \/ ses[s].loop = "read" /\ new.loop = "remove"
           \/ ses[s].loop = "remove" /\ new.loop = "close" /\ ~new.relay /\ ~new.reply,
           new.relay \/ new.reply => ses[s].relay \/ ses[s].reply,
           UNCHANGED <<owner, table, task>>
    PROVE  UdpInv'
  <1> USE DEF UdpInv
  <1>1. ses' \in [Sessions -> SesType] /\ ses'[s] = new /\ \A u \in Sessions : u # s => ses'[u] = ses[u]
    BY DEF UdpTypeOK
  <1>2. UdpTypeOK'
    BY <1>1 DEF UdpTypeOK
  <1>3. TaskHands'
    <2>1. ASSUME NEW u \in Tasks PROVE TaskKnows(u)'
      <3>1. TaskKnows(u)
        BY DEF Hands, TaskHands
      <3> QED
        BY <1>1, <3>1 DEF TaskKnows
    <2> QED
      BY <2>1 DEF Hands, TaskHands
  <1>4. VictimHands'
    BY <1>1 DEF Hands, VictimHands, Listener
  <1>5. Hands' /\ Context' /\ Emptied'
    BY <1>3, <1>4 DEF Hands, OwnerHands, Context, Emptied, Listener
  <1>6. OpenHeld'
    <2> SUFFICES ASSUME NEW u \in Sessions, (ses[u].relay \/ ses[u].reply)'
                 PROVE  IF Listener' THEN ListenerHolds(u)' ELSE AssociationHolds(u)'
      BY DEF OpenHeld
    <2>1. IF Listener THEN ListenerHolds(u) ELSE AssociationHolds(u)
      BY <1>1 DEF OpenHeld
    <2>2. InTransit(u) => InTransit(u)'
      BY DEF InTransit
    <2>3. \A w \in Sessions : ses'[w].victim = ses[w].victim
      BY <1>1
    <2>4. ses[u].loop \in {"read", "remove", "close"} => ses'[u].loop \in {"read", "remove", "close"}
      BY <1>1
    <2> QED
      BY <2>1, <2>2, <2>3, <2>4 DEF ListenerHolds, AssociationHolds, Listener
  <1> QED
    BY <1>2, <1>5, <1>6

LEMMA SessionSteps ==
    ASSUME UdpInv, NEW s \in Sessions,
           Reply(s) \/ FallsIdle(s) \/ watchCtrl(s) \/ ReadEnds(s) \/ ReadFails(s)
    PROVE  UdpInv'
  <1>1. ses[s] \in SesType
    BY DEF UdpInv, UdpTypeOK
  <1>2. UNCHANGED <<owner, table, task>>
    BY DEF Reply, FallsIdle, watchCtrl, ReadEnds, ReadFails
  <1>3. ASSUME NEW b \in BOOLEAN, ses' = [ses EXCEPT ![s].idle = b] PROVE UdpInv'
    <2> DEFINE new == [ses[s] EXCEPT !.idle = b]
    <2>1. /\ new \in SesType /\ new.loop = ses[s].loop /\ new.victim = ses[s].victim
          /\ new.key = ses[s].key /\ new.relay = ses[s].relay /\ new.reply = ses[s].reply
      BY <1>1, IdleEffect
    <2>2. ses' = [ses EXCEPT ![s] = new]
      BY <1>3
    <2> HIDE DEF new
    <2> QED
      BY <1>2, <2>1, <2>2, SessionMoves
  <1>4. CASE Reply(s) \/ FallsIdle(s)
    <2>1. TRUE \in BOOLEAN /\ FALSE \in BOOLEAN
      OBVIOUS
    <2> QED
      BY <1>3, <1>4, <2>1 DEF Reply, FallsIdle
  <1>5. CASE watchCtrl(s)
    <2> DEFINE new == [ses[s] EXCEPT !.relay = FALSE]
    <2>1. new \in SesType
      BY <1>1 DEF SesType
    <2>2. new.loop = ses[s].loop /\ new.victim = ses[s].victim /\ new.key = ses[s].key
      BY <1>1 DEF SesType
    <2>3. new.reply = ses[s].reply
      BY <1>1 DEF SesType
    <2>4. ~new.relay
      BY <1>1 DEF SesType
    <2>5. ses' = [ses EXCEPT ![s] = new]
      BY <1>5 DEF watchCtrl
    <2> HIDE DEF new
    <2> QED
      BY <1>2, <2>1, <2>2, <2>3, <2>4, <2>5, SessionMoves
  <1>6. CASE ReadEnds(s) \/ ReadFails(s)
    <2> DEFINE new == [ses[s] EXCEPT !.loop = "remove"]
    <2>1. new \in SesType
      BY <1>1 DEF SesType
    <2>2. new.loop = "remove" /\ new.victim = ses[s].victim /\ new.key = ses[s].key
      BY <1>1 DEF SesType
    <2>3. new.reply = ses[s].reply
      BY <1>1 DEF SesType
    <2>4. new.relay = ses[s].relay
      BY <1>1 DEF SesType
    <2>5. ses' = [ses EXCEPT ![s] = new] /\ ses[s].loop = "read"
      BY <1>6 DEF ReadEnds, ReadFails
    <2> HIDE DEF new
    <2> QED
      BY <1>2, <2>1, <2>2, <2>3, <2>4, <2>5, SessionMoves
  <1> QED
    BY <1>4, <1>5, <1>6

LEMMA ReaderCloses ==
    ASSUME UdpInv, NEW s \in Sessions, ~Listener, udpReplyLoop(s)
    PROVE  UdpInv'
  <1> DEFINE new == [Closed(ses[s]) EXCEPT !.loop = "close"]
  <1>1. ses[s] \in SesType /\ ses[s].loop = "remove" /\ UNCHANGED <<owner, table, task>>
    BY DEF udpReplyLoop, UdpInv, UdpTypeOK
  <1>2. Closed(ses[s]) \in SesType
    BY <1>1 DEF Closed, SesType
  <1>3. /\ Closed(ses[s]).victim = ses[s].victim /\ Closed(ses[s]).key = ses[s].key
        /\ ~Closed(ses[s]).relay /\ ~Closed(ses[s]).reply
    BY <1>1 DEF Closed, SesType
  <1>4. ses' = [ses EXCEPT ![s] = new]
    BY DEF udpReplyLoop
  <1>5. new \in SesType /\ new.loop = "close" /\ new.key = ses[s].key /\ new.victim = ses[s].victim
    BY <1>2, <1>3 DEF SesType
  <1>6. new.relay = Closed(ses[s]).relay
    BY <1>2 DEF SesType
  <1>7. new.reply = Closed(ses[s]).reply
    BY <1>2 DEF SesType
  <1> HIDE DEF new
  <1> QED
    BY <1>1, <1>3, <1>4, <1>5, <1>6, <1>7, SessionMoves

LEMMA ReplyLoopStep ==
    ASSUME UdpInv, NEW s \in Sessions, Listener, udpReplyLoop(s)
    PROVE  UdpInv'
  <1> USE DEF UdpInv
  <1> DEFINE k == ses[s].key
             v == table[k]
             new == [ses[s] EXCEPT !.loop = "close", !.victim = v]
  <1>1. k \in Keys /\ ses[s] \in SesType /\ ses[s].loop = "remove" /\ UNCHANGED <<owner, task>>
    BY DEF udpReplyLoop, Hands, VictimHands, UdpTypeOK
  <1>2. v \in Sessions \cup {Nil}
    BY <1>1 DEF UdpTypeOK
  <1>3. table' = [table EXCEPT ![k] = Nil] /\ ses' = [ses EXCEPT ![s] = new]
    BY DEF udpReplyLoop
  <1>4. v = table[k]
    OBVIOUS
  <1> HIDE DEF v
  <1>5. new \in SesType
    BY <1>1, <1>2 DEF SesType
  <1>6. new.loop = "close" /\ new.victim = v /\ new.key = k
    BY <1>1 DEF SesType
  <1>7. new.relay = ses[s].relay
    BY <1>1 DEF SesType
  <1>8. new.reply = ses[s].reply
    BY <1>1 DEF SesType
  <1> HIDE DEF new
  <1>9. ses' \in [Sessions -> SesType] /\ ses'[s] = new /\ \A u \in Sessions : u # s => ses'[u] = ses[u]
    BY <1>3, <1>5 DEF UdpTypeOK
  <1>10. /\ table' \in [Keys -> Sessions \cup {Nil}] /\ table'[k] = Nil
         /\ \A j \in Keys : j # k => table'[j] = table[j]
    <2> HIDE DEF k
    <2> QED
      BY <1>1, <1>3 DEF UdpTypeOK
  <1>11. UdpTypeOK'
    BY <1>1, <1>9, <1>10 DEF UdpTypeOK
  <1>12. TaskHands'
    <2>1. ASSUME NEW u \in Tasks PROVE TaskKnows(u)'
      <3>1. TaskKnows(u)
        BY DEF Hands, TaskHands
      <3> QED
        BY <1>1, <1>9, <3>1 DEF TaskKnows
    <2> QED
      BY <1>1, <2>1 DEF Hands, TaskHands
  <1>13. VictimHands'
    BY <1>1, <1>4, <1>6, <1>9 DEF Hands, VictimHands, Listener
  <1>14. Emptied'
    BY <1>1, <1>10 DEF Emptied, Listener
  <1>15. Hands' /\ Context'
    BY <1>1, <1>12, <1>13 DEF Hands, OwnerHands, Context, Listener
  <1>16. OpenHeld'
    <2> SUFFICES ASSUME NEW u \in Sessions, (ses[u].relay \/ ses[u].reply)'
                 PROVE  IF Listener' THEN ListenerHolds(u)' ELSE AssociationHolds(u)'
      BY DEF OpenHeld
    <2>1. IF Listener THEN ListenerHolds(u) ELSE AssociationHolds(u)
      BY <1>7, <1>8, <1>9 DEF OpenHeld
    <2>2. InTransit(u) => InTransit(u)'
      BY <1>1 DEF InTransit
    <2>3. \A w \in Sessions : ses[w].victim = u => ses'[w].victim = u
      <3>1. ses[s].victim = Nil
        BY <1>1 DEF Hands, VictimHands
      <3> QED
        BY <1>9, <3>1
    <2>4. ses[u].loop \in {"read", "remove", "close"} => ses'[u].loop \in {"read", "remove", "close"}
      BY <1>6, <1>9
    <2>5. Listener /\ table[k] = u => ses'[s].victim = u
      BY <1>4, <1>6, <1>9
    <2>6. (\E j \in Keys : table[j] = u) => table[k] = u \/ (\E j \in Keys : table'[j] = u)
      BY <1>10
    <2> QED
      BY <1>1, <2>1, <2>2, <2>3, <2>4, <2>5, <2>6 DEF ListenerHolds, AssociationHolds, Listener
  <1> QED
    BY <1>11, <1>14, <1>15, <1>16

LEMMA ReplyLoopClosesStep ==
    ASSUME UdpInv, NEW s \in Sessions, ReplyLoopCloses(s)
    PROVE  UdpInv'
  <1> USE DEF UdpInv
  <1> DEFINE v == ses[s].victim
             new == [ses[s] EXCEPT !.loop = "done", !.victim = Nil]
             done == [ses EXCEPT ![s] = new]
  <1>1. ses[s] \in SesType /\ ses[s].loop = "close" /\ v \in Sessions \cup {Nil} /\ UNCHANGED <<owner, task>>
    BY DEF ReplyLoopCloses, UdpTypeOK, SesType
  <1>0. (Listener => table' = table) /\ table' \in [Keys -> Sessions \cup {Nil}]
    BY DEF ReplyLoopCloses, UdpTypeOK
  <1>2. ses' = IF v = Nil THEN done ELSE [done EXCEPT ![v] = Closed(done[v])]
    BY DEF ReplyLoopCloses
  <1>3. new \in SesType
    BY <1>1 DEF SesType
  <1>4. new.loop = "done" /\ new.victim = Nil /\ new.key = ses[s].key
    BY <1>1 DEF SesType
  <1>5. new.relay = ses[s].relay
    BY <1>1 DEF SesType
  <1>6. new.reply = ses[s].reply
    BY <1>1 DEF SesType
  <1> HIDE DEF new
  <1>7. done \in [Sessions -> SesType] /\ done[s] = new /\ \A u \in Sessions : u # s => done[u] = ses[u]
    BY <1>3 DEF UdpTypeOK
  <1> HIDE DEF done, v
  <1>8. /\ ses' \in [Sessions -> SesType]
        /\ \A u \in Sessions : /\ ses'[u].loop = done[u].loop /\ ses'[u].victim = done[u].victim
                               /\ ses'[u].key = done[u].key
                               /\ u = v => ~ses'[u].relay /\ ~ses'[u].reply
                               /\ u # v => ses'[u] = done[u]
    <2>1. CASE v = Nil
      BY <1>2, <1>7, <2>1
    <2>2. CASE v # Nil
      <3>1. v \in Sessions /\ done[v] \in SesType
        BY <1>1, <1>7, <2>2
      <3>2. Closed(done[v]) \in SesType
        BY <3>1 DEF Closed, SesType
      <3>3. /\ Closed(done[v]).loop = done[v].loop /\ Closed(done[v]).victim = done[v].victim
            /\ Closed(done[v]).key = done[v].key
            /\ ~Closed(done[v]).relay /\ ~Closed(done[v]).reply
        BY <3>1 DEF Closed, SesType
      <3> QED
        BY <1>2, <1>7, <2>2, <3>1, <3>2, <3>3
    <2> QED
      BY <2>1, <2>2
  <1>9. \A u \in Sessions : /\ ses'[u].key = ses[u].key
                            /\ u # s => ses'[u].loop = ses[u].loop /\ ses'[u].victim = ses[u].victim
                            /\ u = s => ses'[u].loop = "done" /\ ses'[u].victim = Nil
                            /\ (ses[u].relay \/ ses[u].reply)' => u # v /\ (ses[u].relay \/ ses[u].reply)
    BY <1>4, <1>5, <1>6, <1>7, <1>8
  <1>10. UdpTypeOK'
    BY <1>0, <1>1, <1>8 DEF UdpTypeOK
  <1>11. TaskHands'
    <2>1. ASSUME NEW u \in Tasks PROVE TaskKnows(u)'
      <3>1. TaskKnows(u)
        BY DEF Hands, TaskHands
      <3> QED
        BY <1>1, <1>9, <3>1 DEF TaskKnows
    <2> QED
      BY <1>1, <2>1 DEF Hands, TaskHands
  <1>12. VictimHands'
    BY <1>1, <1>9 DEF Hands, VictimHands, Listener
  <1>13. Hands' /\ Context' /\ Emptied'
    BY <1>0, <1>1, <1>11, <1>12 DEF Hands, OwnerHands, Context, Emptied, Listener
  <1>14. OpenHeld'
    <2> SUFFICES ASSUME NEW u \in Sessions, (ses[u].relay \/ ses[u].reply)'
                 PROVE  IF Listener' THEN ListenerHolds(u)' ELSE AssociationHolds(u)'
      BY DEF OpenHeld
    <2>1. u # v
      BY <1>9
    <2>2. IF Listener THEN ListenerHolds(u) ELSE AssociationHolds(u)
      BY <1>9 DEF OpenHeld
    <2>3. InTransit(u) => InTransit(u)'
      BY <1>1 DEF InTransit
    <2>4. \A w \in Sessions : ses[w].victim = u => ses'[w].victim = u
      BY <1>9, <2>1 DEF v
    <2>5. ~Listener => u # s
      BY <1>1, <1>9 DEF Hands, VictimHands
    <2> QED
      BY <1>0, <1>1, <1>9, <2>2, <2>3, <2>4, <2>5 DEF ListenerHolds, AssociationHolds, Listener
  <1> QED
    BY <1>10, <1>13, <1>14

LEMMA ForgetStep ==
    ASSUME UdpInv, NEW s \in Sessions, Forget(s)
    PROVE  UdpInv'
  <1> USE DEF UdpInv
  <1>1. /\ ses[s].loop \in {"none", "done"} /\ ses' = [ses EXCEPT ![s] = NoSes]
        /\ \A t \in Tasks : task[t].ses # s
        /\ \A u \in Sessions : ses[u].victim # s
        /\ UNCHANGED <<owner, table, task>>
    BY DEF Forget
  <1>2. NoSes \in SesType
    BY DEF NoSes, SesType
  <1>3. /\ NoSes.loop = "none" /\ NoSes.victim = Nil /\ ~NoSes.relay /\ ~NoSes.reply
    BY DEF NoSes
  <1>4. ses' \in [Sessions -> SesType] /\ ses'[s] = NoSes /\ \A u \in Sessions : u # s => ses'[u] = ses[u]
    BY <1>1, <1>2 DEF UdpTypeOK
  <1>5. UdpTypeOK'
    BY <1>1, <1>4 DEF UdpTypeOK
  <1>6. TaskHands'
    <2>1. ASSUME NEW u \in Tasks PROVE TaskKnows(u)'
      <3>1. TaskKnows(u) /\ task[u].ses # s
        BY <1>1 DEF Hands, TaskHands
      <3> QED
        BY <1>1, <1>4, <3>1 DEF TaskKnows
    <2> QED
      BY <1>1, <2>1 DEF Hands, TaskHands
  <1>7. VictimHands'
    BY <1>1, <1>3, <1>4 DEF Hands, VictimHands, Listener
  <1>8. Hands' /\ Context' /\ Emptied'
    BY <1>1, <1>6, <1>7 DEF Hands, OwnerHands, Context, Emptied, Listener
  <1>9. OpenHeld'
    <2> SUFFICES ASSUME NEW u \in Sessions, (ses[u].relay \/ ses[u].reply)'
                 PROVE  IF Listener' THEN ListenerHolds(u)' ELSE AssociationHolds(u)'
      BY DEF OpenHeld
    <2>1. u # s /\ ses'[u] = ses[u]
      BY <1>3, <1>4
    <2>2. IF Listener THEN ListenerHolds(u) ELSE AssociationHolds(u)
      BY <2>1 DEF OpenHeld
    <2>3. InTransit(u) => InTransit(u)'
      BY <1>1 DEF InTransit
    <2>4. \A w \in Sessions : ses[w].victim = u => ses'[w].victim = u
      <3>1. ses[s].victim = Nil
        BY <1>1 DEF Hands, VictimHands
      <3> QED
        BY <1>4, <3>1
    <2> QED
      BY <1>1, <2>1, <2>2, <2>3, <2>4 DEF ListenerHolds, AssociationHolds, Listener
  <1> QED
    BY <1>5, <1>8, <1>9

\* Steps of the owner that leave table, sessions and datagrams alone.
LEMMA OwnerMoves ==
    ASSUME UdpInv, owner' \in OwnerType, UNCHANGED <<table, ses, task>>,
           owner'.kind = owner.kind, owner'.victim = owner.victim,
           owner.closing \subseteq owner'.closing, OwnerHands', Context', Emptied'
    PROVE  UdpInv'
  <1> USE DEF UdpInv
  <1>1. UdpTypeOK'
    BY DEF UdpTypeOK
  <1>2. TaskHands' /\ VictimHands'
    BY DEF Hands, TaskHands, TaskKnows, VictimHands, Listener
  <1>3. OpenHeld'
    BY DEF OpenHeld, ListenerHolds, AssociationHolds, InTransit, Listener
  <1> QED
    BY <1>1, <1>2, <1>3 DEF Hands

LEMMA OwnerSteps ==
    ASSUME UdpInv,
           \/ udpReaper \/ Stop \/ udpRelay
           \/ handleUDPAssociate /\ owner.kind = "socks5" /\ owner.pc = "none"
           \/ bindClosed /\ owner.kind = "socks5" /\ owner.pc = "open"
    PROVE  UdpInv'
  <1>1. owner \in OwnerType /\ table \in [Keys -> Sessions \cup {Nil}] /\ OwnerHands /\ Context /\ Emptied
    BY DEF UdpInv, UdpTypeOK, Hands
  <1> USE <1>1 DEF OwnerType
  <1>2. UNCHANGED <<table, ses, task>>
    BY DEF udpReaper, Stop, udpRelay, handleUDPAssociate, bindClosed
  <1>3. owner' \in OwnerType
    <2>1. CASE Stop \/ handleUDPAssociate \/ bindClosed
      BY <2>1 DEF Stop, handleUDPAssociate, bindClosed
    <2>2. CASE udpReaper
      BY <2>2 DEF udpReaper
    <2>3. CASE udpRelay
      <3> DEFINE all == {table[k] : k \in Keys} \ {Nil}
      <3>1. all \in SUBSET Sessions
        OBVIOUS
      <3>2. owner' = [owner EXCEPT !.pc = "over", !.closing = all]
        BY <2>3 DEF udpRelay
      <3> HIDE DEF all
      <3> QED
        BY <3>1, <3>2
    <2> QED
      BY <2>1, <2>2, <2>3
  <1>4. owner'.kind = owner.kind /\ owner'.victim = owner.victim
    BY DEF udpReaper, Stop, udpRelay, handleUDPAssociate, bindClosed
  <1>5. owner.closing \subseteq owner'.closing /\ OwnerHands'
    BY DEF udpReaper, Stop, udpRelay, handleUDPAssociate, bindClosed, OwnerHands
  <1>6. Context'
    BY DEF udpReaper, Stop, udpRelay, handleUDPAssociate, bindClosed, Context, Listener
  <1>7. Emptied'
    BY <1>2 DEF udpReaper, Stop, udpRelay, handleUDPAssociate, bindClosed, Emptied, Listener
  <1> QED
    BY <1>2, <1>3, <1>4, <1>5, <1>6, <1>7, OwnerMoves

\* Swapping or clearing entries of the table hands their sessions to the owner.
LEMMA TakeFromTable ==
    ASSUME UdpInv, owner' \in OwnerType, UNCHANGED <<ses, task>>,
           table' \in [Keys -> Sessions \cup {Nil}],
           \A k \in Keys : table'[k] = table[k] \/ table'[k] = Nil,
           \A k \in Keys : table[k] = table'[k] \/ table[k] \in {Nil, owner'.victim} \cup owner'.closing,
           owner'.kind = owner.kind, owner.victim \in {Nil, owner'.victim},
           owner.closing \subseteq owner'.closing, OwnerHands', Context', Emptied'
    PROVE  UdpInv'
  <1> USE DEF UdpInv
  <1>1. UdpTypeOK'
    BY DEF UdpTypeOK
  <1>2. TaskHands' /\ VictimHands'
    BY DEF Hands, TaskHands, TaskKnows, VictimHands, Listener
  <1>3. OpenHeld'
    <2> SUFFICES ASSUME NEW u \in Sessions, (ses[u].relay \/ ses[u].reply)'
                 PROVE  IF Listener' THEN ListenerHolds(u)' ELSE AssociationHolds(u)'
      BY DEF OpenHeld
    <2>1. IF Listener THEN ListenerHolds(u) ELSE AssociationHolds(u)
      BY DEF OpenHeld
    <2>2. InTransit(u) => InTransit(u)'
      BY DEF InTransit
    <2> QED
      BY <2>1, <2>2 DEF ListenerHolds, AssociationHolds, Listener
  <1> QED
    BY <1>1, <1>2, <1>3 DEF Hands

LEMMA TableSteps ==
    ASSUME UdpInv, stopUDP \/ \E k \in Keys : ReapStale(k)
    PROVE  UdpInv'
  <1>1. owner \in OwnerType /\ table \in [Keys -> Sessions \cup {Nil}] /\ OwnerHands /\ Context /\ Emptied
    BY DEF UdpInv, UdpTypeOK, Hands
  <1>2. CASE stopUDP
    <2>1. /\ UNCHANGED <<ses, task>> /\ table' \in [Keys -> Sessions \cup {Nil}]
          /\ \A k \in Keys : table'[k] = Nil
      BY <1>2 DEF stopUDP
    <2>2. /\ owner' \in OwnerType /\ owner'.kind = owner.kind /\ owner'.victim = owner.victim
          /\ owner'.closing = {table[k] : k \in Keys} \ {Nil}
          /\ owner'.pc = "over" /\ owner.closing = {} /\ owner'.ctx = owner.ctx
      <3> DEFINE all == {table[k] : k \in Keys} \ {Nil}
      <3>1. all \in SUBSET Sessions
        BY <1>1
      <3>2. owner' = [owner EXCEPT !.pc = "over", !.closing = all] /\ owner.closing = {}
        BY <1>1, <1>2 DEF stopUDP, OwnerHands
      <3> HIDE DEF all
      <3>3. /\ owner' \in OwnerType /\ owner'.kind = owner.kind /\ owner'.victim = owner.victim
            /\ owner'.closing = all /\ owner'.pc = "over"
        BY <1>1, <3>1, <3>2 DEF OwnerType
      <3>4. owner'.ctx = owner.ctx
        BY <1>1, <3>2 DEF OwnerType
      <3> QED
        BY <3>2, <3>3, <3>4 DEF all
    <2>3. ~owner.ctx
      BY <1>1, <1>2 DEF stopUDP, Context
    <2>4. OwnerHands' /\ Context' /\ Emptied'
      BY <2>1, <2>2, <2>3 DEF OwnerHands, Context, Emptied
    <2> QED
      BY <2>1, <2>2, <2>4, TakeFromTable
  <1>3. ASSUME NEW k \in Keys, ReapStale(k) PROVE UdpInv'
    <2>1. /\ UNCHANGED <<ses, task>> /\ table' \in [Keys -> Sessions \cup {Nil}]
          /\ \A j \in Keys : j # k => table'[j] = table[j]
          /\ table'[k] = Nil
      BY <1>1, <1>3 DEF ReapStale
    <2>2. /\ owner' \in OwnerType /\ owner'.kind = owner.kind /\ owner'.victim = table[k]
          /\ owner'.closing = owner.closing /\ owner.victim = Nil
          /\ owner'.pc = owner.pc
      BY <1>1, <1>3 DEF ReapStale, OwnerType
    <2>3. owner'.ctx = owner.ctx
      BY <1>1, <1>3 DEF ReapStale, OwnerType
    <2>4. OwnerHands' /\ Context'
      BY <1>1, <2>2, <2>3 DEF OwnerHands, Context, Listener
    <2>5. Emptied'
      BY <1>1, <2>1, <2>2 DEF Emptied, Listener
    <2> QED
      BY <2>1, <2>2, <2>4, <2>5, TakeFromTable
  <1> QED
    BY <1>2, <1>3

\* The owner closes a session it took out of the table.
LEMMA OwnerCloses ==
    ASSUME UdpInv, NEW s \in Sessions, Close(s), UNCHANGED <<table, task>>, owner' \in OwnerType,
           owner'.kind = owner.kind, owner'.pc = owner.pc, owner'.ctx = owner.ctx,
           owner.victim \in {s, owner'.victim}, owner'.closing \subseteq owner.closing,
           owner.closing \ {s} \subseteq owner'.closing
    PROVE  UdpInv'
  <1> USE DEF UdpInv
  <1>1. /\ ses' \in [Sessions -> SesType]
        /\ \A u \in Sessions : /\ ses'[u].loop = ses[u].loop /\ ses'[u].victim = ses[u].victim
                               /\ ses'[u].key = ses[u].key
                               /\ u = s => ~ses'[u].relay /\ ~ses'[u].reply
                               /\ u # s => ses'[u] = ses[u]
    BY CloseEffect
  <1>2. UdpTypeOK'
    BY <1>1 DEF UdpTypeOK
  <1>3. TaskHands'
    <2>1. ASSUME NEW u \in Tasks PROVE TaskKnows(u)'
      <3>1. TaskKnows(u)
        BY DEF Hands, TaskHands
      <3> QED
        BY <1>1, <3>1 DEF TaskKnows
    <2> QED
      BY <2>1 DEF Hands, TaskHands
  <1>4. VictimHands'
    BY <1>1 DEF Hands, VictimHands, Listener
  <1>5. OwnerHands' /\ Context' /\ Emptied'
    BY DEF Hands, OwnerHands, Context, Emptied, Listener
  <1>6. OpenHeld'
    <2> SUFFICES ASSUME NEW u \in Sessions, (ses[u].relay \/ ses[u].reply)'
                 PROVE  IF Listener' THEN ListenerHolds(u)' ELSE AssociationHolds(u)'
      BY DEF OpenHeld
    <2>1. u # s /\ ses'[u] = ses[u]
      BY <1>1
    <2>2. IF Listener THEN ListenerHolds(u) ELSE AssociationHolds(u)
      BY <2>1 DEF OpenHeld
    <2>3. InTransit(u) => InTransit(u)'
      BY DEF InTransit
    <2> QED
      BY <1>1, <2>1, <2>2, <2>3 DEF ListenerHolds, AssociationHolds, Listener
  <1> QED
    BY <1>2, <1>3, <1>4, <1>5, <1>6 DEF Hands

LEMMA OwnerCloseSteps ==
    ASSUME UdpInv, ReaperCloses \/ \E s \in Sessions : CloseOne(s)
    PROVE  UdpInv'
  <1>1. owner \in OwnerType
    BY DEF UdpInv, UdpTypeOK
  <1>2. CASE ReaperCloses
    <2>1. owner.victim \in Sessions
      BY <1>1, <1>2 DEF ReaperCloses, OwnerType
    <2>2. /\ Close(owner.victim) /\ UNCHANGED <<table, task>>
          /\ owner' \in OwnerType /\ owner'.kind = owner.kind /\ owner'.pc = owner.pc
          /\ owner'.closing = owner.closing
      BY <1>1, <1>2 DEF ReaperCloses, OwnerType
    <2>3. owner'.ctx = owner.ctx
      BY <1>1, <1>2 DEF ReaperCloses, OwnerType
    <2> QED
      BY <2>1, <2>2, <2>3, OwnerCloses
  <1>3. ASSUME NEW s \in Sessions, CloseOne(s) PROVE UdpInv'
    <2>1. /\ Close(s) /\ UNCHANGED <<table, task>>
          /\ owner' \in OwnerType /\ owner'.kind = owner.kind /\ owner'.pc = owner.pc
          /\ owner'.closing = owner.closing \ {s} /\ owner'.victim = owner.victim
      BY <1>1, <1>3 DEF CloseOne, OwnerType
    <2>2. owner'.ctx = owner.ctx
      BY <1>1, <1>3 DEF CloseOne, OwnerType
    <2> QED
      BY <2>1, <2>2, OwnerCloses
  <1> QED
    BY <1>2, <1>3

LEMMA UdpStep == UdpInv /\ UdpNext => UdpInv'
  BY ReceiveStep, NewSessionStep, SessionFailsStep, DispatchStep, WriteStep, WriteFailedStep, TargetCloses, DeleteKeyStep,
     SessionSteps, ReplyLoopStep, ReaderCloses, ReplyLoopClosesStep, ForgetStep, OwnerSteps, TableSteps,
     OwnerCloseSteps
  DEF UdpNext, UdpProgress, TaskStep, LoopStep

LEMMA UdpInitial == ProxiesInit => UdpInv
  <1> SUFFICES ASSUME ProxiesInit PROVE UdpInv
    OBVIOUS
  <1>1. set \in Settings
    BY DEF ProxiesInit, Init
  <1>2. UdpInit(set.udp, set.datagrams)
    BY DEF ProxiesInit
  <1>3. NoSes \in SesType /\ NoTask \in TaskType
    BY DEF NoSes, SesType, NoTask, TaskType
  <1>4. /\ NoSes.loop = "none" /\ NoSes.victim = Nil /\ ~NoSes.relay /\ ~NoSes.reply
        /\ NoTask.pc = "idle"
    BY DEF NoSes, NoTask
  <1>5. /\ owner \in OwnerType /\ owner.closing = {}
    BY <1>1, <1>2, SettingsAssumption DEF UdpInit, OwnerType
  <1>6. Context /\ Emptied
    BY <1>1, <1>2, SettingsAssumption DEF UdpInit, Context, Emptied, Listener
  <1>7. /\ table \in [Keys -> Sessions \cup {Nil}]
        /\ ses \in [Sessions -> SesType] /\ \A s \in Sessions : ses[s] = NoSes
        /\ task \in [Tasks -> TaskType] /\ \A t \in Tasks : task[t] = NoTask
    BY <1>2, <1>3 DEF UdpInit
  <1>8. Hands /\ OpenHeld
    BY <1>4, <1>5, <1>7 DEF Hands, VictimHands, TaskHands, TaskKnows, OwnerHands, OpenHeld
  <1> QED
    BY <1>5, <1>6, <1>7, <1>8 DEF UdpInv, UdpTypeOK

LEMMA UdpInvariance == ProxiesSpec => []UdpInv
  <1>1. UdpInv /\ [ProxiesNext]_<<vars, uvars>> => UdpInv'
    <2> SUFFICES ASSUME UdpInv, [ProxiesNext]_<<vars, uvars>> PROVE UdpInv'
      OBVIOUS
    <2>1. CASE UdpNext
      BY <2>1, UdpStep
    <2>2. CASE ConnStep
      <3>1. CASE UNCHANGED uvars
        BY <3>1, OwnerMoves DEF uvars, UdpInv, UdpTypeOK, Hands, OwnerHands, Context, Emptied, Listener
      <3> QED
        BY <2>2, <3>1, OwnerSteps DEF ConnStep
    <2>3. CASE UNCHANGED <<vars, uvars>>
      BY <2>3, OwnerMoves DEF uvars, UdpInv, UdpTypeOK, Hands, OwnerHands, Context, Emptied, Listener
    <2> QED
      BY <2>1, <2>2, <2>3 DEF ProxiesNext
  <1> QED
    BY <1>1, UdpInitial, PTL DEF ProxiesSpec

\* No socket of the UDP relays is lost: whatever datagrams, reply loops, the reaper and
\* the end of the listener or of the association do to each other, every open one is in
\* the hands of somebody who closes it, and a stopped listener's table stays empty.
THEOREM NeverOrphanSession == ProxiesSpec => []NoOrphanSession
  <1>1. UdpInv => NoOrphanSession
    BY DEF UdpInv, OpenHeld, Emptied, NoOrphanSession, Held, ListenerHolds, AssociationHolds, InTransit
  <1> QED
    BY <1>1, UdpInvariance, PTL

-----------------------------------------------------------------------------
(* The TCP side: a connection *)

ConnFields == {"kind", "pc", "sec", "seen", "tracked", "open", "gone", "pool", "mode", "plans", "ws", "red",
               "up", "relay", "dirs", "silent", "read", "sent", "refused", "untried", "viaWS", "stream"}

IsConn(r) == DOMAIN r = ConnFields /\ r = [f \in DOMAIN r |-> r[f]]

Transports == Domains \cup {"kws", "kws-1", "worker", "custom", "tcp", "tcp6"} \cup {CHOOSE d \in Domains : TRUE}

\* Only a connection past its handshake is in the map of connections.
TrackedPast(r) ==
    r.tracked => r.pc \in {"active", "frame", "get", "pooled", "plan", "dial", "stat", "relay", "untrack"}

\* While an auto plan is worked through, a TCP address was tried or is still ahead.
TcpAhead(r) ==
    r.pc = "dial" /\ r.mode = "auto" =>
        /\ r.plans \in Seq(Transports)
        /\ \A a \in r.untried : \E i \in DOMAIN r.plans : r.plans[i] = a

RefusedTried(r) ==
    r.refused => r.pc \in {"untrack", "close"} /\ (r.mode = "auto" => r.untried = {})

ConnOK(r) == IsConn(r) /\ TrackedPast(r) /\ TcpAhead(r) /\ RefusedTried(r)

\* Past the check of its secret and connected.
Live(r) == r.tracked /\ r.open /\ r.pc # "active" /\ r.pc # "untrack"

\* No step lets a client past the check whose secret is not one of those stored.
Admitted(old, new) == Live(new) => new.sec \in srv.secrets \/ (Live(old) /\ new.sec = old.sec)

ConnsOK == DOMAIN conn = Conns /\ conn = [c \in DOMAIN conn |-> conn[c]] /\ \A c \in Conns : ConnOK(conn[c])

CoolOK ==
    /\ set \in Settings
    /\ DOMAIN cool = {"black", "ws", "tcp", "cf", "pin"} /\ cool = [f \in DOMAIN cool |-> cool[f]]
    /\ cool.pin \in Transports

\* What every step of a connection's handler keeps.
Moves(c) ==
    \E new : /\ conn' = [conn EXCEPT ![c] = new]
             /\ ConnOK(new) /\ Admitted(conn[c], new)

LEMMA NoConnOK == ConnOK(NoConn) /\ ~Live(NoConn)
  BY DEF NoConn, ConnOK, IsConn, ConnFields, TrackedPast, TcpAhead, RefusedTried, Live

\* A step that sets neither "dial" nor "refused" and leaves the map alone.
LEMMA PlainStep ==
  ASSUME NEW c \in Conns, ConnsOK, NEW new, IsConn(new),
         conn' = [conn EXCEPT ![c] = new],
         new.tracked = conn[c].tracked, new.refused = conn[c].refused, new.mode = conn[c].mode,
         new.open => conn[c].open, new.untried = conn[c].untried,
         conn[c].tracked => new.sec = conn[c].sec,
         conn[c].pc \in {"untrack", "close"} => new.pc = conn[c].pc,
         new.pc = "dial" => conn[c].pc = "dial" /\ new.plans = conn[c].plans,
         conn[c].tracked /\ new.pc # conn[c].pc =>
            new.pc \in {"get", "pooled", "plan", "stat", "relay", "untrack"} /\ conn[c].pc # "active"
  PROVE  Moves(c)
  <1>1. ConnOK(conn[c])
    BY DEF ConnsOK
  <1>2. TrackedPast(new)
    BY <1>1 DEF ConnOK, TrackedPast
  <1>3. TcpAhead(new)
    BY <1>1 DEF ConnOK, TcpAhead
  <1>4. RefusedTried(new)
    BY <1>1 DEF ConnOK, RefusedTried
  <1>5. Admitted(conn[c], new)
    BY <1>1 DEF ConnOK, TrackedPast, Admitted, Live
  <1> QED
    BY <1>2, <1>3, <1>4, <1>5 DEF Moves, ConnOK

LEMMA PoolGetMoves == ASSUME NEW c \in Conns, ConnsOK, PoolGet(c) PROVE Moves(c)
  <1> DEFINE plan == [conn[c] EXCEPT !.pc = "plan"]
             pooled == [conn[c] EXCEPT !.pc = "pooled", !.up = "live"]
  <1>0. ConnOK(conn[c]) /\ conn[c].pc = "get"
    BY DEF ConnsOK, PoolGet, At
  <1>1. CASE conn' = [conn EXCEPT ![c] = plan]
    BY <1>0, <1>1, PlainStep DEF ConnOK, IsConn, ConnFields
  <1>2. CASE conn' = [conn EXCEPT ![c] = pooled]
    BY <1>0, <1>2, PlainStep DEF ConnOK, IsConn, ConnFields
  <1> QED
    BY <1>1, <1>2 DEF PoolGet, Set

LEMMA PooledMoves == ASSUME NEW c \in Conns, ConnsOK, Pooled(c) PROVE Moves(c)
  <1> DEFINE stat == [conn[c] EXCEPT !.pc = "stat", !.viaWS = TRUE]
             plan == [conn[c] EXCEPT !.pc = "plan", !.up = None]
  <1>0. ConnOK(conn[c]) /\ conn[c].pc = "pooled"
    BY DEF ConnsOK, Pooled, At
  <1>1. CASE conn' = [conn EXCEPT ![c] = stat]
    BY <1>0, <1>1, PlainStep DEF ConnOK, IsConn, ConnFields
  <1>2. CASE conn' = [conn EXCEPT ![c] = plan]
    BY <1>0, <1>2, PlainStep DEF ConnOK, IsConn, ConnFields
  <1> QED
    BY <1>1, <1>2 DEF Pooled, Set

LEMMA loadSecretsMoves == ASSUME NEW c \in Conns, ConnsOK, loadSecrets(c) PROVE Moves(c)
  <1> DEFINE one == [conn[c] EXCEPT !.pc = "untrack"]
             other == [conn[c] EXCEPT !.pc = "hello", !.seen = srv.secrets]
  <1>0. ConnOK(conn[c]) /\ conn[c].pc = "secrets"
    BY DEF ConnsOK, loadSecrets, Handler, At
  <1>1. CASE conn' = [conn EXCEPT ![c] = one]
    BY <1>0, <1>1, PlainStep DEF ConnOK, IsConn, ConnFields, TrackedPast
  <1>2. CASE conn' = [conn EXCEPT ![c] = other]
    BY <1>0, <1>2, PlainStep DEF ConnOK, IsConn, ConnFields, TrackedPast
  <1> QED
    BY <1>1, <1>2 DEF loadSecrets, Handler

LEMMA AcceptObfuscatedMoves == ASSUME NEW c \in Conns, ConnsOK, AcceptObfuscated(c) PROVE Moves(c)
  <1> DEFINE one == [conn[c] EXCEPT !.pc = "get", !.pool = srv.pool]
             other == [conn[c] EXCEPT !.pc = "untrack"]
  <1>0. ConnOK(conn[c]) /\ conn[c].pc = "frame"
    BY DEF ConnsOK, AcceptObfuscated, Handler, At
  <1>1. CASE conn' = [conn EXCEPT ![c] = one]
    BY <1>0, <1>1, PlainStep DEF ConnOK, IsConn, ConnFields, TrackedPast
  <1>2. CASE conn' = [conn EXCEPT ![c] = other]
    BY <1>0, <1>2, PlainStep DEF ConnOK, IsConn, ConnFields, TrackedPast
  <1> QED
    BY <1>1, <1>2 DEF AcceptObfuscated, Handler

LEMMA proxyToMaskingDomainMoves == ASSUME NEW c \in Conns, ConnsOK, proxyToMaskingDomain(c) PROVE Moves(c)
  <1> DEFINE one == [conn[c] EXCEPT !.pc = "relay", !.relay = "mask", !.up = "live", !.dirs = {"up", "down"}]
             other == [conn[c] EXCEPT !.pc = "untrack"]
  <1>0. ConnOK(conn[c]) /\ conn[c].pc = "mask"
    BY DEF ConnsOK, proxyToMaskingDomain, Handler, At
  <1>1. CASE conn' = [conn EXCEPT ![c] = one]
    <2>1. IsConn(one)
      BY <1>0 DEF ConnOK, IsConn, ConnFields
    <2>2. /\ one.pc = "relay" /\ one.tracked = conn[c].tracked /\ one.refused = conn[c].refused
          /\ one.mode = conn[c].mode /\ one.open = conn[c].open /\ one.untried = conn[c].untried
          /\ one.sec = conn[c].sec
      BY <1>0 DEF ConnOK, IsConn, ConnFields
    <2> HIDE DEF one
    <2> QED
      BY <1>0, <1>1, <2>1, <2>2, PlainStep DEF ConnOK, TrackedPast
  <1>2. CASE conn' = [conn EXCEPT ![c] = other]
    BY <1>0, <1>2, PlainStep DEF ConnOK, IsConn, ConnFields, TrackedPast
  <1> QED
    BY <1>1, <1>2 DEF proxyToMaskingDomain, Handler

LEMMA FailOpenViaWorkerMoves == ASSUME NEW c \in Conns, ConnsOK, FailOpenViaWorker(c) PROVE Moves(c)
  <1> DEFINE one == [conn[c] EXCEPT !.pc = "relay", !.relay = "conns", !.up = "live", !.dirs = {"up", "down"}]
             other == [conn[c] EXCEPT !.pc = "direct"]
  <1>0. ConnOK(conn[c]) /\ conn[c].pc = "worker"
    BY DEF ConnsOK, FailOpenViaWorker, Handler, At
  <1>1. CASE conn' = [conn EXCEPT ![c] = one]
    <2>1. IsConn(one)
      BY <1>0 DEF ConnOK, IsConn, ConnFields
    <2>2. /\ one.pc = "relay" /\ one.tracked = conn[c].tracked /\ one.refused = conn[c].refused
          /\ one.mode = conn[c].mode /\ one.open = conn[c].open /\ one.untried = conn[c].untried
          /\ one.sec = conn[c].sec
      BY <1>0 DEF ConnOK, IsConn, ConnFields
    <2> HIDE DEF one
    <2> QED
      BY <1>0, <1>1, <2>1, <2>2, PlainStep DEF ConnOK, TrackedPast
  <1>2. CASE conn' = [conn EXCEPT ![c] = other]
    BY <1>0, <1>2, PlainStep DEF ConnOK, IsConn, ConnFields, TrackedPast
  <1> QED
    BY <1>1, <1>2 DEF FailOpenViaWorker, Handler

LEMMA DialUpstreamMoves == ASSUME NEW c \in Conns, ConnsOK, DialUpstream(c) PROVE Moves(c)
  <1> DEFINE one == [conn[c] EXCEPT !.pc = "relay", !.relay = "pipe", !.up = "live", !.dirs = {"up", "down"}]
             other == [conn[c] EXCEPT !.pc = IF set.failOpen THEN "direct" ELSE "untrack"]
  <1>0. ConnOK(conn[c]) /\ conn[c].pc = "upstream"
    BY DEF ConnsOK, DialUpstream, Handler, At
  <1>1. CASE conn' = [conn EXCEPT ![c] = one]
    <2>1. IsConn(one)
      BY <1>0 DEF ConnOK, IsConn, ConnFields
    <2>2. /\ one.pc = "relay" /\ one.tracked = conn[c].tracked /\ one.refused = conn[c].refused
          /\ one.mode = conn[c].mode /\ one.open = conn[c].open /\ one.untried = conn[c].untried
          /\ one.sec = conn[c].sec
      BY <1>0 DEF ConnOK, IsConn, ConnFields
    <2> HIDE DEF one
    <2> QED
      BY <1>0, <1>1, <2>1, <2>2, PlainStep DEF ConnOK, TrackedPast
  <1>2. CASE conn' = [conn EXCEPT ![c] = other]
    BY <1>0, <1>2, PlainStep DEF ConnOK, IsConn, ConnFields, TrackedPast
  <1> QED
    BY <1>1, <1>2 DEF DialUpstream, Handler, clientConnect

LEMMA failOpenDirectMoves == ASSUME NEW c \in Conns, ConnsOK, failOpenDirect(c) PROVE Moves(c)
  <1> DEFINE one == [conn[c] EXCEPT !.pc = "relay", !.relay = "pipe", !.up = "live", !.dirs = {"up", "down"}]
             other == [conn[c] EXCEPT !.pc = "untrack"]
  <1>0. ConnOK(conn[c]) /\ conn[c].pc = "direct"
    BY DEF ConnsOK, failOpenDirect, Handler, At
  <1>1. CASE conn' = [conn EXCEPT ![c] = one]
    <2>1. IsConn(one)
      BY <1>0 DEF ConnOK, IsConn, ConnFields
    <2>2. /\ one.pc = "relay" /\ one.tracked = conn[c].tracked /\ one.refused = conn[c].refused
          /\ one.mode = conn[c].mode /\ one.open = conn[c].open /\ one.untried = conn[c].untried
          /\ one.sec = conn[c].sec
      BY <1>0 DEF ConnOK, IsConn, ConnFields
    <2> HIDE DEF one
    <2> QED
      BY <1>0, <1>1, <2>1, <2>2, PlainStep DEF ConnOK, TrackedPast
  <1>2. CASE conn' = [conn EXCEPT ![c] = other]
    BY <1>0, <1>2, PlainStep DEF ConnOK, IsConn, ConnFields, TrackedPast
  <1> QED
    BY <1>1, <1>2 DEF failOpenDirect, Handler

LEMMA handleConnectMoves == ASSUME NEW c \in Conns, ConnsOK, handleConnect(c) PROVE Moves(c)
  <1> DEFINE one == [conn[c] EXCEPT !.pc = "relay", !.relay = "pipe", !.up = "live", !.dirs = {"up", "down"}]
             other == [conn[c] EXCEPT !.pc = "untrack"]
  <1>0. ConnOK(conn[c]) /\ conn[c].pc = "connect"
    BY DEF ConnsOK, handleConnect, Handler, At
  <1>1. CASE conn' = [conn EXCEPT ![c] = one]
    <2>1. IsConn(one)
      BY <1>0 DEF ConnOK, IsConn, ConnFields
    <2>2. /\ one.pc = "relay" /\ one.tracked = conn[c].tracked /\ one.refused = conn[c].refused
          /\ one.mode = conn[c].mode /\ one.open = conn[c].open /\ one.untried = conn[c].untried
          /\ one.sec = conn[c].sec
      BY <1>0 DEF ConnOK, IsConn, ConnFields
    <2> HIDE DEF one
    <2> QED
      BY <1>0, <1>1, <2>1, <2>2, PlainStep DEF ConnOK, TrackedPast
  <1>2. CASE conn' = [conn EXCEPT ![c] = other]
    BY <1>0, <1>2, PlainStep DEF ConnOK, IsConn, ConnFields, TrackedPast
  <1> QED
    BY <1>1, <1>2 DEF handleConnect, Handler

LEMMA AssociateEndsMoves == ASSUME NEW c \in Conns, ConnsOK, AssociateEnds(c) PROVE Moves(c)
  <1> DEFINE one == [conn[c] EXCEPT !.pc = "untrack"]
  <1>0. ConnOK(conn[c]) /\ conn[c].pc = "associate"
    BY DEF ConnsOK, AssociateEnds, Handler, At
  <1>1. CASE conn' = [conn EXCEPT ![c] = one]
    BY <1>0, <1>1, PlainStep DEF ConnOK, IsConn, ConnFields, TrackedPast
  <1> QED
    BY <1>1 DEF AssociateEnds, Handler

LEMMA StartRelayMoves == ASSUME NEW c \in Conns, ConnsOK, StartRelay(c) PROVE Moves(c)
  <1> DEFINE one == [conn[c] EXCEPT !.pc = "relay", !.relay = "conns", !.dirs = {"up", "down"},
                                !.stream = IF conn[c].viaWS THEN newMsgSplitter(set.proto, set.stream) ELSE NoStream]
  <1>0. ConnOK(conn[c]) /\ conn[c].pc = "stat"
    BY DEF ConnsOK, StartRelay, Handler, At
  <1>1. CASE conn' = [conn EXCEPT ![c] = one]
    <2>1. IsConn(one)
      BY <1>0 DEF ConnOK, IsConn, ConnFields
    <2>2. /\ one.pc = "relay" /\ one.tracked = conn[c].tracked /\ one.refused = conn[c].refused
          /\ one.mode = conn[c].mode /\ one.open = conn[c].open /\ one.untried = conn[c].untried
          /\ one.sec = conn[c].sec
      BY <1>0 DEF ConnOK, IsConn, ConnFields
    <2> HIDE DEF one
    <2> QED
      BY <1>0, <1>1, <2>1, <2>2, PlainStep DEF ConnOK, TrackedPast
  <1> QED
    BY <1>1 DEF StartRelay, Handler

LEMMA relayConnsMoves == ASSUME NEW c \in Conns, ConnsOK, relayConns(c) PROVE Moves(c)
  <1> DEFINE one == [conn[c] EXCEPT !.open = FALSE, !.up = "closed"]
  <1>0. ConnOK(conn[c]) /\ conn[c].pc = "relay"
    BY DEF ConnsOK, relayConns, Handler, At
  <1>1. CASE conn' = [conn EXCEPT ![c] = one]
    BY <1>0, <1>1, PlainStep DEF ConnOK, IsConn, ConnFields, TrackedPast
  <1> QED
    BY <1>1 DEF relayConns, Handler

LEMMA ReapMoves == ASSUME NEW c \in Conns, ConnsOK, Reap(c) PROVE Moves(c)
  <1> DEFINE one == [conn[c] EXCEPT !.open = FALSE, !.up = "closed"]
  <1>0. ConnOK(conn[c]) /\ conn[c].pc = "relay"
    BY DEF ConnsOK, Reap, Handler, At
  <1>1. CASE conn' = [conn EXCEPT ![c] = one]
    BY <1>0, <1>1, PlainStep DEF ConnOK, IsConn, ConnFields, TrackedPast
  <1> QED
    BY <1>1 DEF Reap, Handler

LEMMA RelayOverMoves == ASSUME NEW c \in Conns, ConnsOK, RelayOver(c) PROVE Moves(c)
  <1> DEFINE one == [conn[c] EXCEPT !.pc = "untrack"]
  <1>0. ConnOK(conn[c]) /\ conn[c].pc = "relay"
    BY DEF ConnsOK, RelayOver, Handler, At
  <1>1. CASE conn' = [conn EXCEPT ![c] = one]
    BY <1>0, <1>1, PlainStep DEF ConnOK, IsConn, ConnFields, TrackedPast
  <1> QED
    BY <1>1 DEF RelayOver, Handler

LEMMA AcceptFakeTLSMultiMoves == ASSUME NEW c \in Conns, ConnsOK, AcceptFakeTLSMulti(c) PROVE Moves(c)
  <1>0. ConnOK(conn[c]) /\ conn[c].pc = "hello"
    BY DEF ConnsOK, AcceptFakeTLSMulti, Handler, At
  <1>k. PICK k \in Secrets \cup {Fresh, None} :
             conn' = [conn EXCEPT ![c] =
                IF k \in conn[c].seen /\ ~conn[c].gone THEN [conn[c] EXCEPT !.pc = "track", !.sec = k]
                ELSE IF cfg.fakeSNI THEN [conn[c] EXCEPT !.pc = "mask"] ELSE [conn[c] EXCEPT !.pc = "untrack"]]
    BY DEF AcceptFakeTLSMulti, Handler
  <1> DEFINE track == [conn[c] EXCEPT !.pc = "track", !.sec = k]
             mask == [conn[c] EXCEPT !.pc = "mask"]
             drop == [conn[c] EXCEPT !.pc = "untrack"]
  <1>1. CASE conn' = [conn EXCEPT ![c] = track]
    BY <1>0, <1>1, PlainStep DEF ConnOK, IsConn, ConnFields, TrackedPast
  <1>2. CASE conn' = [conn EXCEPT ![c] = mask]
    BY <1>0, <1>2, PlainStep DEF ConnOK, IsConn, ConnFields, TrackedPast
  <1>3. CASE conn' = [conn EXCEPT ![c] = drop]
    BY <1>0, <1>3, PlainStep DEF ConnOK, IsConn, ConnFields, TrackedPast
  <1> QED
    BY <1>k, <1>1, <1>2, <1>3

LEMMA BridgeHandleMoves == ASSUME NEW c \in Conns, ConnsOK, BridgeHandle(c) PROVE Moves(c)
  <1>0. ConnOK(conn[c]) /\ conn[c].pc = "head"
    BY DEF ConnsOK, BridgeHandle, At
  <1>1. \E n : LET r == [conn[c] EXCEPT !.read = n]
               IN  \/ conn' = [conn EXCEPT ![c] = [r EXCEPT !.pc = "untrack"]]
                   \/ conn' = [conn EXCEPT ![c] = [r EXCEPT !.pc = "plan"]]
                   \/ conn' = [conn EXCEPT ![c] = [r EXCEPT !.pc = "worker", !.sent = r.read]]
    BY DEF BridgeHandle, Handler
  <1>n. PICK n : LET r == [conn[c] EXCEPT !.read = n]
               IN  \/ conn' = [conn EXCEPT ![c] = [r EXCEPT !.pc = "untrack"]]
                   \/ conn' = [conn EXCEPT ![c] = [r EXCEPT !.pc = "plan"]]
                   \/ conn' = [conn EXCEPT ![c] = [r EXCEPT !.pc = "worker", !.sent = r.read]]
    BY <1>1
  <1> DEFINE r == [conn[c] EXCEPT !.read = n]
  <1>2. /\ IsConn(r) /\ r.pc = "head" /\ r.tracked = conn[c].tracked /\ r.refused = conn[c].refused
        /\ r.mode = conn[c].mode /\ r.open = conn[c].open /\ r.untried = conn[c].untried /\ r.sec = conn[c].sec
    BY <1>0 DEF ConnOK, IsConn, ConnFields
  <1> HIDE DEF r
  <1>3. CASE conn' = [conn EXCEPT ![c] = [r EXCEPT !.pc = "untrack"]]
    <2> DEFINE new == [r EXCEPT !.pc = "untrack"]
    <2>1. /\ IsConn(new) /\ new.pc = "untrack" /\ new.tracked = r.tracked /\ new.refused = r.refused
          /\ new.mode = r.mode /\ new.open = r.open /\ new.untried = r.untried
      BY <1>2 DEF IsConn, ConnFields
    <2> HIDE DEF new
    <2> QED
      BY <1>0, <1>2, <1>3, <2>1, PlainStep DEF new, ConnOK, TrackedPast
  <1>4. CASE conn' = [conn EXCEPT ![c] = [r EXCEPT !.pc = "plan"]]
    <2> DEFINE new == [r EXCEPT !.pc = "plan"]
    <2>1. /\ IsConn(new) /\ new.pc = "plan" /\ new.tracked = r.tracked /\ new.refused = r.refused
          /\ new.mode = r.mode /\ new.open = r.open /\ new.untried = r.untried
      BY <1>2 DEF IsConn, ConnFields
    <2> HIDE DEF new
    <2> QED
      BY <1>0, <1>2, <1>4, <2>1, PlainStep DEF new, ConnOK, TrackedPast
  <1>5. CASE conn' = [conn EXCEPT ![c] = [r EXCEPT !.pc = "worker", !.sent = r.read]]
    <2> DEFINE new == [r EXCEPT !.pc = "worker", !.sent = r.read]
    <2>1. /\ IsConn(new) /\ new.pc = "worker" /\ new.tracked = r.tracked /\ new.refused = r.refused
          /\ new.mode = r.mode /\ new.open = r.open /\ new.untried = r.untried
      BY <1>2 DEF IsConn, ConnFields
    <2> HIDE DEF new
    <2> QED
      BY <1>0, <1>2, <1>5, <2>1, PlainStep DEF new, ConnOK, TrackedPast
  <1> QED
    BY <1>n, <1>3, <1>4, <1>5 DEF r

LEMMA Socks5Moves == ASSUME NEW c \in Conns, ConnsOK, authenticate(c) \/ handleRequest(c) PROVE Moves(c)
  <1>0. ConnOK(conn[c]) /\ conn[c].pc \in {"auth", "request"}
    BY DEF ConnsOK, authenticate, handleRequest, Handler, At
  <1>1. \E pc \in {"request", "connect", "associate", "untrack"} :
            conn' = [conn EXCEPT ![c] = [conn[c] EXCEPT !.pc = pc]]
    BY DEF authenticate, handleRequest, Handler
  <1> PICK pc \in {"request", "connect", "associate", "untrack"} :
            conn' = [conn EXCEPT ![c] = [conn[c] EXCEPT !.pc = pc]]
    BY <1>1
  <1> DEFINE new == [conn[c] EXCEPT !.pc = pc]
  <1>2. ~conn[c].tracked
    BY <1>0 DEF ConnOK, TrackedPast
  <1>3. IsConn(new) /\ new.pc = pc
    BY <1>0, SMTT(30) DEF ConnOK, IsConn, ConnFields
  <1>4. /\ new.tracked = conn[c].tracked /\ new.refused = conn[c].refused /\ new.mode = conn[c].mode
        /\ new.open = conn[c].open /\ new.untried = conn[c].untried
    BY <1>0, SMTT(30) DEF ConnOK, IsConn, ConnFields
  <1> HIDE DEF new
  <1>5. conn' = [conn EXCEPT ![c] = new]
    BY DEF new
  <1> QED
    BY <1>0, <1>2, <1>3, <1>4, <1>5, PlainStep

LEMMA ReadClientMoves == ASSUME NEW c \in Conns, ConnsOK, ReadClient(c) PROVE Moves(c)
  <1>0. ConnOK(conn[c])
    BY DEF ConnsOK
  <1> PICK n : conn' = [conn EXCEPT ![c] = [conn[c] EXCEPT !.stream = split(@, n)]]
    BY DEF ReadClient, Set
  <1> QED
    BY <1>0, PlainStep DEF ConnOK, IsConn, ConnFields

LEMMA DirectionMoves ==
  ASSUME NEW c \in Conns, ConnsOK, NEW d, DirEnds(c, d) \/ WriteFails(c, d)
  PROVE  Moves(c)
  <1>0. ConnOK(conn[c])
    BY DEF ConnsOK
  <1> DEFINE ended == [conn[c] EXCEPT !.dirs = @ \ {d}, !.stream = IF d = "up" THEN flush(@) ELSE @]
             failed == [conn[c] EXCEPT !.dirs = @ \ {d}]
  <1>1. CASE conn' = [conn EXCEPT ![c] = ended]
    BY <1>0, <1>1, PlainStep DEF ConnOK, IsConn, ConnFields
  <1>2. CASE conn' = [conn EXCEPT ![c] = failed]
    BY <1>0, <1>2, PlainStep DEF ConnOK, IsConn, ConnFields
  <1> QED
    BY <1>1, <1>2 DEF DirEnds, WriteFails, Set

LEMMA EndingMoves ==
  ASSUME NEW c \in Conns, ConnsOK, ClientLeaves(c) \/ UpstreamCloses(c) \/ FallsSilent(c)
  PROVE  Moves(c)
  <1>0. ConnOK(conn[c])
    BY DEF ConnsOK
  <1>1. CASE ClientLeaves(c)
    BY <1>0, <1>1, PlainStep DEF ClientLeaves, Ending, Set, ConnOK, IsConn, ConnFields
  <1>2. CASE UpstreamCloses(c)
    BY <1>0, <1>2, PlainStep DEF UpstreamCloses, Ending, Set, ConnOK, IsConn, ConnFields
  <1>3. CASE FallsSilent(c)
    BY <1>0, <1>3, PlainStep DEF FallsSilent, Ending, Set, ConnOK, IsConn, ConnFields
  <1> QED
    BY <1>1, <1>2, <1>3

\* The map is entered before the secret is looked at again, and left at the end.
LEMMA TrackingMoves ==
  ASSUME NEW c \in Conns, ConnsOK, trackConn(c) \/ secretActive(c) \/ untrack(c)
  PROVE  Moves(c)
  <1>0. ConnOK(conn[c])
    BY DEF ConnsOK
  <1>1. CASE trackConn(c)
    <2> DEFINE new == [conn[c] EXCEPT !.tracked = TRUE, !.pc = "active"]
    <2>1. IsConn(new) /\ new.pc = "active" /\ new.refused = conn[c].refused
      BY <1>0 DEF ConnOK, IsConn, ConnFields
    <2>2. ConnOK(new) /\ Admitted(conn[c], new)
      BY <1>0, <1>1, <2>1
      DEF ConnOK, TrackedPast, TcpAhead, RefusedTried, Admitted, Live, trackConn, Handler, At
    <2> QED
      BY <1>1, <2>2 DEF trackConn, Handler, Moves
  <1>2. CASE secretActive(c)
    <2> DEFINE pc == IF conn[c].sec \in srv.secrets THEN "frame" ELSE "untrack"
               new == [conn[c] EXCEPT !.pc = pc]
    <2>1. /\ IsConn(new) /\ new.pc = pc /\ new.refused = conn[c].refused /\ new.sec = conn[c].sec
          /\ new.tracked = conn[c].tracked
      BY <1>0 DEF ConnOK, IsConn, ConnFields
    <2>2. ConnOK(new) /\ Admitted(conn[c], new)
      BY <1>0, <1>2, <2>1
      DEF ConnOK, TrackedPast, TcpAhead, RefusedTried, Admitted, Live, secretActive, Handler, At
    <2> QED
      BY <1>2, <2>2 DEF secretActive, Handler, Moves
  <1>3. CASE untrack(c)
    <2> DEFINE new == [conn[c] EXCEPT !.tracked = FALSE, !.up = None, !.pc = "close"]
    <2>1. /\ IsConn(new) /\ new.pc = "close" /\ new.refused = conn[c].refused /\ new.tracked = FALSE
          /\ new.mode = conn[c].mode /\ new.untried = conn[c].untried
      BY <1>0 DEF ConnOK, IsConn, ConnFields
    <2>2. ConnOK(new) /\ Admitted(conn[c], new)
      BY <1>0, <1>3, <2>1
      DEF ConnOK, TrackedPast, TcpAhead, RefusedTried, Admitted, Live, untrack, Handler, At
    <2> QED
      BY <1>3, <2>2 DEF untrack, Handler, Moves
  <1> QED
    BY <1>1, <1>2, <1>3

LEMMA FinishMoves == ASSUME NEW c \in Conns, ConnsOK, Finish(c) PROVE Moves(c)
  BY NoConnOK DEF Finish, Set, Moves, Admitted

LEMMA AcceptMoves == ASSUME NEW c \in Conns, ConnsOK, CoolOK, acceptLoop(c) PROVE Moves(c)
  <1> DEFINE mode == IF set.kind = "bridge" THEN "auto" ELSE set.mode
             new == [NoConn EXCEPT !.kind = set.kind, !.pc = First[set.kind], !.open = TRUE, !.mode = mode]
  <1>1. First[set.kind] \in {"secrets", "head", "upstream", "auth"}
    BY SettingsAssumption DEF CoolOK, First
  <1>2. IsConn(new) /\ new.pc = First[set.kind] /\ new.tracked = FALSE /\ new.refused = FALSE
    <2>1. IsConn(NoConn) /\ NoConn.tracked = FALSE /\ NoConn.refused = FALSE
      BY DEF NoConn, IsConn, ConnFields
    <2> QED
      BY <2>1 DEF IsConn, ConnFields
  <1>3. ConnOK(new) /\ Admitted(conn[c], new)
    BY <1>1, <1>2 DEF ConnOK, TrackedPast, TcpAhead, RefusedTried, Admitted, Live
  <1> QED
    BY <1>3 DEF acceptLoop, Set, Moves

-----------------------------------------------------------------------------
(* The TCP side: plans *)

LEMMA OrdersAreSequences ==
  ASSUME NEW S, IsFiniteSet(S), NEW s \in SetToSeqs(S)
  PROVE  s \in Seq(S)
  <1>1. Cardinality(S) \in Nat
    BY FS_CardinalityType
  <1>2. s \in [1..Cardinality(S) -> S]
    BY DEF SetToSeqs
  <1> QED
    BY <1>1, <1>2

LEMMA BalancerPlans == ASSUME CoolOK, NEW d \in domainsForDC PROVE d \in Seq(Transports)
  <1> DEFINE all == Domains \cup {cool.pin}
             of(D) == {(IF cool.pin \in D THEN <<cool.pin>> ELSE <<>>) \o s : s \in SetToSeqs(D \ {cool.pin})}
  <1>1. IsFiniteSet(all) /\ all \subseteq Transports
    BY DomainsFinite, FS_AddElement DEF CoolOK, Transports
  <1>2. PICK D \in SUBSET all : d \in of(D)
    BY DEF domainsForDC
  <1>3. PICK s \in SetToSeqs(D \ {cool.pin}) :
            d = (IF cool.pin \in D THEN <<cool.pin>> ELSE <<>>) \o s
    BY <1>2
  <1>4. IsFiniteSet(D \ {cool.pin}) /\ D \ {cool.pin} \subseteq Transports
    BY <1>1, <1>2, FS_Subset
  <1>5. s \in Seq(D \ {cool.pin})
    BY <1>3, <1>4, OrdersAreSequences
  <1>6. s \in Seq(Transports)
    BY <1>4, <1>5
  <1>7. <<cool.pin>> \in Seq(Transports) /\ <<>> \in Seq(Transports)
    BY DEF CoolOK
  <1> QED
    BY <1>3, <1>6, <1>7

\* What a data centre's addresses can be.
LEMMA Addresses ==
  ASSUME NEW c \in Conns
  PROVE  ResolveDCAll(c) \in {<<>>, <<"tcp">>, <<"tcp6", "tcp">>}
  BY DEF ResolveDCAll

LEMMA AddressSet ==
  ASSUME NEW c \in Conns, NEW a \in Range(ResolveDCAll(c))
  PROVE  Contains(ResolveDCAll(c), a) /\ a \in {"tcp", "tcp6"}
  <1>1. CASE ResolveDCAll(c) = <<>>
    BY <1>1 DEF Range
  <1>2. CASE ResolveDCAll(c) = <<"tcp">>
    BY <1>2 DEF Range, Contains
  <1>3. CASE ResolveDCAll(c) = <<"tcp6", "tcp">>
    <2>1. ResolveDCAll(c)[1] = "tcp6" /\ ResolveDCAll(c)[2] = "tcp" /\ Len(ResolveDCAll(c)) = 2
      BY <1>3
    <2>2. DOMAIN ResolveDCAll(c) = 1..2
      BY <1>3
    <2> QED
      BY <2>1, <2>2 DEF Range, Contains
  <1> QED
    BY <1>1, <1>2, <1>3, Addresses

\* Whatever else an auto plan holds, every address is in it that does not cool down.
LEMMA AutoPlans ==
  ASSUME CoolOK, NEW c \in Conns, conn[c].mode = "auto", NEW p \in planTransports(c)
  PROVE  /\ p \in Seq(Transports)
         /\ \A a \in Range(ResolveDCAll(c)) \ cool.tcp : \E i \in DOMAIN p : p[i] = a
  <1> DEFINE tcp == appendTCP(c)
             ws == IF cool.black THEN {<<>>}
                   ELSE {edgesForDC(c) \o d : d \in IF set.cf THEN domainsForDC ELSE {<<>>}}
  <1>1. PICK s \in ws : p = tcp \o s \/ p = s \o tcp
    BY DEF planTransports
  <1>2. edgesForDC(c) \in Seq(Transports) /\ <<>> \in Seq(Transports)
    <2>1. {"kws", "kws-1", "worker", "custom"} \subseteq Transports
      BY DEF Transports
    <2>2. /\ <<"kws", "kws-1">> \in Seq(Transports) /\ <<"worker">> \in Seq(Transports)
          /\ <<"custom">> \in Seq(Transports) /\ <<>> \in Seq(Transports)
      BY <2>1
    <2>3. ASSUME NEW x \in Seq(Transports), NEW y \in Seq(Transports), NEW z \in Seq(Transports)
          PROVE  x \o y \o z \in Seq(Transports)
      OBVIOUS
    <2> QED
      BY <2>2, <2>3 DEF edgesForDC
  <1>3. /\ tcp \in Seq(Transports)
        /\ \A a \in Range(ResolveDCAll(c)) \ cool.tcp : \E i \in DOMAIN tcp : tcp[i] = a
    <2> DEFINE one(t) == IF Contains(ResolveDCAll(c), t) /\ t \notin cool.tcp THEN <<t>> ELSE <<>>
    <2>1. tcp = one("tcp6") \o one("tcp")
      BY DEF appendTCP
    <2>2. {"tcp", "tcp6"} \subseteq Transports
      BY DEF Transports
    <2>3. ASSUME NEW a \in Range(ResolveDCAll(c)) \ cool.tcp
          PROVE  a \in {"tcp", "tcp6"} /\ one(a) = <<a>>
      BY AddressSet
    <2>4. one("tcp6") \in {<<>>, <<"tcp6">>} /\ one("tcp") \in {<<>>, <<"tcp">>}
      OBVIOUS
    <2> HIDE DEF one, tcp
    <2> DEFINE x == one("tcp6")
               y == one("tcp")
    <2>5. x \in Seq(Transports) /\ y \in Seq(Transports) /\ tcp = x \o y
      <3>1. <<>> \in Seq(Transports) /\ <<"tcp6">> \in Seq(Transports) /\ <<"tcp">> \in Seq(Transports)
        BY <2>2
      <3> QED
        BY <2>1, <2>4, <3>1
    <2>6. ASSUME NEW a \in Range(ResolveDCAll(c)) \ cool.tcp
          PROVE  (x = <<a>> /\ a = "tcp6") \/ (y = <<a>> /\ a = "tcp")
      BY <2>3
    <2> HIDE DEF x, y
    <2>7. /\ tcp \in Seq(Transports) /\ Len(x) \in Nat
          /\ \A i \in DOMAIN x : i \in DOMAIN tcp /\ tcp[i] = x[i]
          /\ \A i \in DOMAIN y : Len(x) + i \in DOMAIN tcp /\ tcp[Len(x) + i] = y[i]
      BY <2>5
    <2>8. ASSUME NEW a, NEW z, z = <<a>> PROVE 1 \in DOMAIN z /\ z[1] = a
      BY <2>8
    <2> QED
      BY <2>6, <2>7, <2>8
  <1>4. s \in Seq(Transports)
    <2>1. CASE cool.black
      BY <1>1, <1>2, <2>1
    <2>2. CASE ~cool.black
      <3>1. PICK d \in domainsForDC \cup {<<>>} : s = edgesForDC(c) \o d
        BY <1>1, <2>2
      <3>2. d \in Seq(Transports)
        BY <1>2, <3>1, BalancerPlans
      <3> QED
        BY <1>2, <3>1, <3>2
    <2> QED
      BY <2>1, <2>2
  <1> HIDE DEF tcp, ws
  <1>5. CASE p = tcp \o s
    <2>1. p \in Seq(Transports) /\ \A i \in DOMAIN tcp : i \in DOMAIN p /\ p[i] = tcp[i]
      BY <1>3, <1>4, <1>5
    <2> QED
      BY <1>3, <2>1
  <1>6. CASE p = s \o tcp
    <2>1. /\ p \in Seq(Transports) /\ Len(s) \in Nat
          /\ \A i \in DOMAIN tcp : Len(s) + i \in DOMAIN p /\ p[Len(s) + i] = tcp[i]
      BY <1>3, <1>4, <1>6
    <2> QED
      BY <1>3, <2>1
  <1> QED
    BY <1>1, <1>5, <1>6

LEMMA PlanMoves == ASSUME NEW c \in Conns, ConnsOK, CoolOK, Plan(c) PROVE Moves(c)
  <1>0. ConnOK(conn[c]) /\ conn[c].pc = "plan"
    BY DEF ConnsOK, Plan, At
  <1> DEFINE ahead == Range(ResolveDCAll(c)) \ cool.tcp
  <1>1. PICK p \in planTransports(c) :
            conn' = [conn EXCEPT ![c] = [conn[c] EXCEPT !.pc = "dial", !.plans = p, !.untried = ahead]]
    BY DEF Plan, Set
  <1>6. conn[c].mode = "auto" => p \in Seq(Transports) /\ \A a \in ahead : \E i \in DOMAIN p : p[i] = a
    BY AutoPlans
  <1> HIDE DEF ahead
  <1> DEFINE new == [conn[c] EXCEPT !.pc = "dial", !.plans = p, !.untried = ahead]
  <1>2. /\ IsConn(new) /\ new.pc = "dial" /\ new.plans = p /\ new.untried = ahead
        /\ new.mode = conn[c].mode /\ new.tracked = conn[c].tracked /\ new.refused = conn[c].refused
    BY <1>0 DEF ConnOK, IsConn, ConnFields
  <1>3. new.open = conn[c].open /\ new.sec = conn[c].sec
    BY <1>0 DEF ConnOK, IsConn, ConnFields
  <1> HIDE DEF new
  <1>4. TcpAhead(new)
    BY <1>2, <1>6 DEF TcpAhead
  <1>5. TrackedPast(new) /\ RefusedTried(new) /\ Admitted(conn[c], new)
    BY <1>0, <1>2, <1>3 DEF ConnOK, TrackedPast, RefusedTried, Admitted, Live
  <1> QED
    BY <1>1, <1>2, <1>4, <1>5 DEF new, Moves, ConnOK

LEMMA AttemptMoves == ASSUME NEW c \in Conns, ConnsOK, Attempt(c) PROVE Moves(c)
  <1>0. ConnOK(conn[c]) /\ conn[c].pc = "dial" /\ conn[c].plans # <<>>
    BY DEF ConnsOK, Attempt, At
  <1> DEFINE t == Head(conn[c].plans)
             made == [conn[c] EXCEPT !.pc = "stat", !.up = "live", !.viaWS = IsWS(t), !.plans = <<>>]
             next(ws, red) == [conn[c] EXCEPT !.plans = Tail(@), !.untried = @ \ {t},
                                              !.ws = ws, !.red = red]
  <1>1. \/ conn' = [conn EXCEPT ![c] = made]
        \/ \E ws, red : conn' = [conn EXCEPT ![c] = next(ws, red)]
    <2>1. PICK outcome : \/ conn' = [conn EXCEPT ![c] = made]
                         \/ LET count == IF IsWS(t) /\ outcome # "reset" THEN 1 ELSE 0
                            IN  conn' = [conn EXCEPT ![c] =
                                  [conn[c] EXCEPT !.plans = Tail(@), !.untried = @ \ {t},
                                                  !.ws = @ + count,
                                                  !.red = @ + (IF outcome = "redirect" THEN count ELSE 0)]]
      BY DEF Attempt, Set
    <2> QED
      BY <2>1
  <1>2. CASE conn' = [conn EXCEPT ![c] = made]
    <2>1. /\ IsConn(made) /\ made.pc = "stat" /\ made.tracked = conn[c].tracked
          /\ made.refused = conn[c].refused /\ made.mode = conn[c].mode /\ made.open = conn[c].open
          /\ made.untried = conn[c].untried /\ made.sec = conn[c].sec
      BY <1>0 DEF ConnOK, IsConn, ConnFields
    <2> HIDE DEF made
    <2> QED
      BY <1>0, <1>2, <2>1, PlainStep DEF ConnOK
  <1>3. ASSUME NEW ws, NEW red, conn' = [conn EXCEPT ![c] = next(ws, red)] PROVE Moves(c)
    <2> DEFINE new == next(ws, red)
    <2>1. /\ IsConn(new) /\ new.plans = Tail(conn[c].plans) /\ new.untried = conn[c].untried \ {t}
      BY <1>0 DEF ConnOK, IsConn, ConnFields
    <2>2. /\ new.pc = "dial" /\ new.mode = conn[c].mode /\ new.tracked = conn[c].tracked
          /\ new.refused = conn[c].refused /\ new.open = conn[c].open /\ new.sec = conn[c].sec
      BY <1>0 DEF ConnOK, IsConn, ConnFields
    <2> HIDE DEF next
    <2>3. TcpAhead(new)
      <3> SUFFICES ASSUME conn[c].mode = "auto"
                   PROVE  /\ Tail(conn[c].plans) \in Seq(Transports)
                          /\ \A a \in conn[c].untried \ {t} :
                                 \E i \in DOMAIN Tail(conn[c].plans) : Tail(conn[c].plans)[i] = a
        BY <2>1, <2>2 DEF TcpAhead
      <3> DEFINE p == conn[c].plans
      <3>1. p \in Seq(Transports) /\ p # <<>> /\ \A a \in conn[c].untried : \E i \in DOMAIN p : p[i] = a
        BY <1>0 DEF ConnOK, TcpAhead
      <3> HIDE DEF p
      <3>2. Tail(p) \in Seq(Transports)
        BY <3>1
      <3>3. ASSUME NEW i \in DOMAIN p, i # 1
            PROVE  i - 1 \in DOMAIN Tail(p) /\ Tail(p)[i - 1] = p[i]
        BY <3>1, <3>3
      <3>4. t = p[1]
        BY <3>1 DEF p
      <3> QED
        BY <3>1, <3>2, <3>3, <3>4 DEF p
    <2>4. TrackedPast(new) /\ RefusedTried(new) /\ Admitted(conn[c], new)
      BY <1>0, <2>1, <2>2 DEF ConnOK, TrackedPast, RefusedTried, Admitted, Live
    <2> QED
      BY <1>3, <2>1, <2>3, <2>4 DEF Moves, ConnOK
  <1> QED
    BY <1>1, <1>2, <1>3

LEMMA DialFailsMoves == ASSUME NEW c \in Conns, ConnsOK, DialObfuscatedFails(c) PROVE Moves(c)
  <1>0. ConnOK(conn[c]) /\ conn[c].pc = "dial" /\ conn[c].plans = <<>>
    BY DEF ConnsOK, DialObfuscatedFails, At
  <1> DEFINE new == [conn[c] EXCEPT !.pc = "untrack", !.refused = TRUE]
  <1>1. /\ IsConn(new) /\ new.pc = "untrack" /\ new.tracked = conn[c].tracked
        /\ new.mode = conn[c].mode /\ new.untried = conn[c].untried
    BY <1>0 DEF ConnOK, IsConn, ConnFields
  <1>2. conn[c].mode = "auto" => conn[c].untried = {}
    BY <1>0 DEF ConnOK, TcpAhead
  <1>3. TrackedPast(new) /\ RefusedTried(new) /\ TcpAhead(new) /\ Admitted(conn[c], new)
    BY <1>1, <1>2 DEF TrackedPast, RefusedTried, TcpAhead, Admitted, Live
  <1> QED
    BY <1>1, <1>3 DEF DialObfuscatedFails, Set, Moves, ConnOK

-----------------------------------------------------------------------------
(* The TCP side: every step, as the connections and the server see it *)

\* A connection that leaves its slot leaves the list of victims with it.
SrvKept(c) ==
    \/ srv' = srv
    \/ srv' = [srv EXCEPT !.victims = @ \ {c}] /\ conn' = [conn EXCEPT ![c] = NoConn]

HandlerStep == \E c \in Conns : Moves(c) /\ SrvKept(c) /\ UNCHANGED <<cfg, upd>>

LEMMA ProgressSteps ==
  ASSUME ConnsOK, CoolOK, NEW c \in Conns, Progress(c)
  PROVE  HandlerStep
  <1>1. Moves(c)
    BY PlanMoves, AttemptMoves, DialFailsMoves, PoolGetMoves, PooledMoves, loadSecretsMoves,
       AcceptFakeTLSMultiMoves, TrackingMoves, AcceptObfuscatedMoves, proxyToMaskingDomainMoves,
       BridgeHandleMoves, FailOpenViaWorkerMoves, DialUpstreamMoves, failOpenDirectMoves, Socks5Moves,
       handleConnectMoves, AssociateEndsMoves, StartRelayMoves, relayConnsMoves, ReapMoves,
       RelayOverMoves, FinishMoves, DirectionMoves
    DEF Progress
  <1>2. SrvKept(c) /\ UNCHANGED <<cfg, upd>>
    BY DEF Progress, SrvKept, Plan, Attempt, DialObfuscatedFails, PoolGet, Pooled, loadSecrets,
       AcceptFakeTLSMulti, trackConn, secretActive, AcceptObfuscated, proxyToMaskingDomain, BridgeHandle,
       FailOpenViaWorker, DialUpstream, failOpenDirect, authenticate, handleRequest, handleConnect,
       AssociateEnds, StartRelay, relayConns, Reap, RelayOver, untrack, Finish, DirEnds, Handler, Set
  <1> QED
    BY <1>1, <1>2 DEF HandlerStep

LEMMA OtherConnSteps ==
  ASSUME ConnsOK, CoolOK, NEW c \in Conns,
         \/ acceptLoop(c) \/ ReadClient(c) \/ (\E d \in {"up", "down"} : WriteFails(c, d))
         \/ ClientLeaves(c) \/ UpstreamCloses(c) \/ FallsSilent(c)
  PROVE  HandlerStep
  <1>1. Moves(c)
    BY AcceptMoves, ReadClientMoves, DirectionMoves, EndingMoves
  <1>2. SrvKept(c) /\ UNCHANGED <<cfg, upd>>
    BY DEF SrvKept, acceptLoop, ReadClient, WriteFails, ClientLeaves, UpstreamCloses, FallsSilent, Ending
  <1> QED
    BY <1>1, <1>2 DEF HandlerStep

LEMMA StepKinds ==
  ASSUME ConnsOK, CoolOK, [Next]_vars
  PROVE  \/ HandlerStep \/ Start \/ Locked \/ \E new \in set.configs : UpdateConfig(new)
         \/ UNCHANGED <<cfg, srv, upd, conn>>
  <1>1. ASSUME NEW p \in Pools, Refill(p) \/ IdleDies(p) PROVE UNCHANGED <<cfg, srv, upd, conn>>
    BY <1>1 DEF Refill, RefillStart, RefillResult, RefillAppend, RefillDone, IdleDies
  <1>2. Expire => UNCHANGED <<cfg, srv, upd, conn>>
    BY DEF Expire
  <1>3. UNCHANGED vars => UNCHANGED <<cfg, srv, upd, conn>>
    BY DEF vars
  <1> QED
    BY <1>1, <1>2, <1>3, ProgressSteps, OtherConnSteps DEF Next

LockedSteps == {"cancel pool", "clear pool", "unlisten", "build", "listen", "store", "victims",
                "victims of all", "close", "pool", "serve"}

HeadKnown == upd # <<>> => Head(upd) \in LockedSteps

LEMMA AtSomeStep == ASSUME Locked, HeadKnown PROVE upd # <<>> /\ Head(upd) \in LockedSteps
  BY Zenon DEF Locked, HeadKnown

(* What Locked does at each of its steps. *)

LEMMA AtCancelPool ==
  ASSUME Locked, Head(upd) = "cancel pool"
  PROVE  upd' = Tail(upd) /\ UNCHANGED <<srv, conn, cool, cfg>>
  BY Zenon DEF Locked

LEMMA AtClearPool ==
  ASSUME Locked, Head(upd) = "clear pool"
  PROVE  upd' = Tail(upd) /\ srv' = [srv EXCEPT !.pool = None] /\ UNCHANGED <<conn, cool, cfg>>
  BY Zenon DEF Locked

LEMMA AtUnlisten ==
  ASSUME Locked, Head(upd) = "unlisten"
  PROVE  upd' = Tail(upd) /\ srv' = [srv EXCEPT !.running = FALSE] /\ UNCHANGED <<conn, cool, cfg>>
  BY Zenon DEF Locked

LEMMA AtBuild ==
  ASSUME Locked, Head(upd) = "build"
  PROVE  /\ IF buildSecrets(cfg).err THEN upd' = (IF srv.running THEN <<>> ELSE <<"victims of all", "close">>)
            ELSE upd' = Tail(upd)
         /\ srv' = [srv EXCEPT !.built = buildSecrets(cfg).secrets]
         /\ cfg' = [cfg EXCEPT !.on = IF buildSecrets(cfg).secrets = {Fresh} THEN {Fresh} ELSE @]
         /\ UNCHANGED <<conn, cool>>
  BY Zenon DEF Locked

LEMMA AtListen ==
  ASSUME Locked, Head(upd) = "listen"
  PROVE  /\ upd' = Tail(upd) \/ upd' = (IF srv.running THEN <<>> ELSE <<"victims of all", "close">>)
         /\ UNCHANGED <<srv, conn, cool, cfg>>
  BY Zenon DEF Locked

LEMMA AtStore ==
  ASSUME Locked, Head(upd) = "store"
  PROVE  upd' = Tail(upd) /\ srv' = [srv EXCEPT !.secrets = srv.built] /\ UNCHANGED <<conn, cool, cfg>>
  BY Zenon DEF Locked

LEMMA AtVictims ==
  ASSUME Locked, Head(upd) = "victims"
  PROVE  /\ upd' = Tail(upd) /\ UNCHANGED <<conn, cool, cfg>>
         /\ srv' = [srv EXCEPT !.victims = closeRevokedConns(srv.built)]
  BY Zenon DEF Locked

LEMMA AtVictimsOfAll ==
  ASSUME Locked, Head(upd) = "victims of all"
  PROVE  /\ upd' = Tail(upd) /\ UNCHANGED <<conn, cool, cfg>>
         /\ srv' = [srv EXCEPT !.victims = closeRevokedConns({})]
  BY Zenon DEF Locked

LEMMA AtClose ==
  ASSUME Locked, Head(upd) = "close"
  PROVE  /\ upd' = Tail(upd) /\ srv' = [srv EXCEPT !.victims = {}] /\ UNCHANGED <<cool, cfg>>
         /\ conn' = [c \in Conns |-> IF c \in srv.victims THEN [conn[c] EXCEPT !.open = FALSE] ELSE conn[c]]
  BY Zenon DEF Locked

LEMMA AtPool ==
  ASSUME Locked, Head(upd) = "pool"
  PROVE  /\ upd' = Tail(upd) /\ UNCHANGED <<conn, cfg>>
         /\ \E p : srv' = [srv EXCEPT !.pool = p]
         /\ cool' = cool \/ cool' = [cool EXCEPT !.black = FALSE, !.ws = FALSE, !.tcp = {}]
  BY Zenon DEF Locked

LEMMA AtServe ==
  ASSUME Locked, Head(upd) = "serve"
  PROVE  upd' = Tail(upd) /\ srv' = [srv EXCEPT !.running = TRUE] /\ UNCHANGED <<conn, cool, cfg>>
  BY Zenon DEF Locked

LEMMA ConnsKept == ASSUME ConnsOK, CoolOK, HeadKnown, [Next]_vars PROVE ConnsOK'
  <1>1. CASE HandlerStep
    <2>1. PICK c \in Conns : Moves(c)
      BY <1>1 DEF HandlerStep
    <2>2. PICK new : conn' = [conn EXCEPT ![c] = new] /\ ConnOK(new)
      BY <2>1 DEF Moves
    <2> QED
      BY <2>2 DEF ConnsOK
  <1>2. CASE Locked /\ conn' = [c \in Conns |-> IF c \in srv.victims THEN [conn[c] EXCEPT !.open = FALSE] ELSE conn[c]]
    <2> SUFFICES ASSUME NEW c \in Conns PROVE ConnOK(conn'[c])
      BY <1>2 DEF ConnsOK
    <2>1. CASE conn'[c] = conn[c]
      BY <2>1 DEF ConnsOK
    <2>2. CASE conn'[c] = [conn[c] EXCEPT !.open = FALSE]
      <3> DEFINE new == [conn[c] EXCEPT !.open = FALSE]
      <3>1. ConnOK(conn[c])
        BY DEF ConnsOK
      <3>2. /\ IsConn(new) /\ new.pc = conn[c].pc /\ new.tracked = conn[c].tracked
            /\ new.mode = conn[c].mode /\ new.plans = conn[c].plans /\ new.untried = conn[c].untried
            /\ new.refused = conn[c].refused
        BY <3>1 DEF ConnOK, IsConn, ConnFields
      <3> HIDE DEF new
      <3>3. TrackedPast(new) /\ TcpAhead(new) /\ RefusedTried(new)
        BY <3>1, <3>2 DEF ConnOK, TrackedPast, TcpAhead, RefusedTried
      <3> QED
        BY <2>2, <3>2, <3>3 DEF new, ConnOK
    <2> QED
      BY <1>2, <2>1, <2>2
  <1>3. CASE conn' = conn
    BY <1>3 DEF ConnsOK
  <1>4. Locked => \/ conn' = conn
                  \/ conn' = [c \in Conns |-> IF c \in srv.victims THEN [conn[c] EXCEPT !.open = FALSE] ELSE conn[c]]
    <2>1. ASSUME Locked PROVE Head(upd) \in LockedSteps
      BY <2>1, AtSomeStep
    <2> QED
      BY <2>1, AtCancelPool, AtClearPool, AtUnlisten, AtBuild, AtListen, AtStore,
          AtVictims, AtVictimsOfAll, AtClose, AtPool, AtServe DEF LockedSteps
  <1> QED
    BY <1>1, <1>2, <1>3, <1>4, StepKinds DEF Start, UpdateConfig

LEMMA CoolKept == ASSUME CoolOK, ConnsOK, HeadKnown, [Next]_vars PROVE CoolOK'
  <1>1. set' = set
    <2>1. Locked \/ Start \/ Expire => set' = set
      BY DEF Locked, Start, Expire
    <2>2. ASSUME NEW p \in Pools, Refill(p) \/ IdleDies(p) PROVE set' = set
      BY <2>2 DEF Refill, RefillStart, RefillResult, RefillAppend, RefillDone, IdleDies
    <2>3. ASSUME NEW c \in Conns, Progress(c) PROVE set' = set
      BY <2>3 DEF Progress, Plan, Attempt, DialObfuscatedFails, PoolGet, Pooled, loadSecrets,
         AcceptFakeTLSMulti, trackConn, secretActive, AcceptObfuscated, proxyToMaskingDomain, BridgeHandle,
         FailOpenViaWorker, DialUpstream, failOpenDirect, authenticate, handleRequest, handleConnect,
         AssociateEnds, StartRelay, relayConns, Reap, RelayOver, untrack, Finish, DirEnds, Handler, Set
    <2> QED
      BY <2>1, <2>2, <2>3
      DEF Next, vars, UpdateConfig, acceptLoop, ReadClient, WriteFails, ClientLeaves, UpstreamCloses,
          FallsSilent, Ending
  <1> DEFINE Cool(k) == /\ DOMAIN k = {"black", "ws", "tcp", "cf", "pin"} /\ k = [f \in DOMAIN k |-> k[f]]
                        /\ k.pin \in Transports
  <1>2. ASSUME NEW t PROVE Cool([cool EXCEPT !.black = FALSE, !.ws = FALSE, !.pin = IF t \in Domains \cup {"custom"} THEN t ELSE @])
    BY DEF CoolOK, Transports
  <1>3. ASSUME NEW a, NEW b, NEW d, NEW e
        PROVE  /\ Cool([cool EXCEPT !.tcp = a]) /\ Cool([cool EXCEPT !.cf = a])
               /\ Cool([cool EXCEPT !.black = b]) /\ Cool([cool EXCEPT !.ws = b])
               /\ Cool([cool EXCEPT !.black = b, !.ws = d])
               /\ Cool([cool EXCEPT !.black = b, !.ws = d, !.tcp = e])
    BY DEF CoolOK
  <1>4. Cool(cool)
    BY DEF CoolOK
  <1> HIDE DEF Cool
  <1>5. ASSUME NEW c \in Conns, Progress(c) PROVE Cool(cool')
    <2>1. CASE Attempt(c)
      <3>1. PICK t, outcome : \/ cool' = wsRecordSuccess(t) \/ cool' = tcpRecordSuccess(t)
                              \/ cool' = AttemptFailed(t, outcome)
        BY <2>1 DEF Attempt
      <3>2. AttemptFailed(t, outcome) \in {cool, [cool EXCEPT !.cf = @ \cup {t}], [cool EXCEPT !.tcp = @ \cup {t}]}
        BY DEF AttemptFailed
      <3>3. Cool([cool EXCEPT !.cf = @ \cup {t}]) /\ Cool([cool EXCEPT !.tcp = @ \cup {t}])
        BY <1>3
      <3>4. Cool(AttemptFailed(t, outcome))
        BY <1>4, <3>2, <3>3
      <3>5. Cool(wsRecordSuccess(t)) /\ Cool(tcpRecordSuccess(t))
        BY <1>2, <1>3 DEF wsRecordSuccess, tcpRecordSuccess
      <3> QED
        BY <3>1, <3>4, <3>5
    <2>2. CASE DialObfuscatedFails(c)
      BY <1>3, <1>4, <2>2 DEF DialObfuscatedFails, wsRecordFailure
    <2>3. CASE Pooled(c)
      <3>1. cool' = cool \/ cool' = [cool EXCEPT !.black = FALSE, !.ws = FALSE]
        BY <2>3 DEF Pooled
      <3>2. Cool([cool EXCEPT !.black = FALSE, !.ws = FALSE])
        BY DEF Cool, CoolOK
      <3> QED
        BY <1>4, <3>1, <3>2
    <2>4. \/ Attempt(c) \/ DialObfuscatedFails(c) \/ Pooled(c) \/ UNCHANGED cool
      BY <1>5 DEF Progress, Plan, PoolGet, loadSecrets,
         AcceptFakeTLSMulti, trackConn, secretActive, AcceptObfuscated, proxyToMaskingDomain, BridgeHandle,
         FailOpenViaWorker, DialUpstream, failOpenDirect, authenticate, handleRequest, handleConnect,
         AssociateEnds, StartRelay, relayConns, Reap, RelayOver, untrack, Finish, DirEnds, Handler
    <2> QED
      BY <1>4, <2>1, <2>2, <2>3, <2>4
  <1>6. ASSUME Locked PROVE Cool(cool')
    <2>1. Head(upd) \in LockedSteps
      BY <1>6, AtSomeStep
    <2>2. \/ cool' = cool
          \/ cool' = [cool EXCEPT !.black = FALSE, !.ws = FALSE, !.tcp = {}]
      BY <1>6, <2>1, AtCancelPool, AtClearPool, AtUnlisten, AtBuild, AtListen, AtStore,
          AtVictims, AtVictimsOfAll, AtClose, AtPool, AtServe DEF LockedSteps
    <2>3. Cool([cool EXCEPT !.black = FALSE, !.ws = FALSE, !.tcp = {}])
      BY DEF Cool, CoolOK
    <2> QED
      BY <1>4, <2>2, <2>3
  <1>7. Expire => Cool(cool')
    BY <1>3 DEF Expire
  <1>8. ASSUME NEW p \in Pools, Refill(p) \/ IdleDies(p) PROVE cool' = cool
    BY <1>8 DEF Refill, RefillStart, RefillResult, RefillAppend, RefillDone, IdleDies
  <1>9. Cool(cool')
    BY <1>4, <1>5, <1>6, <1>7, <1>8
    DEF Next, vars, Start, UpdateConfig, acceptLoop, ReadClient, WriteFails, ClientLeaves, UpstreamCloses,
        FallsSilent, Ending
  <1> QED
    BY <1>1, <1>9 DEF Cool, CoolOK

-----------------------------------------------------------------------------
(* The TCP side: start, stop and reload *)

ConfigType == [enabled : BOOLEAN, on : SUBSET (Secrets \cup {Fresh}), invalid : BOOLEAN, disabled : BOOLEAN,
               fakeSNI : BOOLEAN, rest : Nat]

IsServer(s) ==
    DOMAIN s = {"started", "running", "secrets", "built", "pool", "victims"} /\ s = [f \in DOMAIN s |-> s[f]]

\* The secrets in hand are those of the configuration ...
Built == ~buildSecrets(cfg).err /\ srv.built = buildSecrets(cfg).secrets

\* ... and so are those the handlers load, unless it has none that can be used.
Stored == ~buildSecrets(cfg).err => srv.secrets = buildSecrets(cfg).secrets

\* What is left of a start, of a reload and of the sweep after a failed start.
ToListen == <<"listen", "store", "victims", "close", "pool", "serve">>
ToStore == <<"store", "victims", "close", "pool", "serve">>
ToSweep == <<"victims", "close", "pool", "serve">>
ToClose == <<"close", "pool", "serve">>
ToPool == <<"pool", "serve">>
ToServe == <<"serve">>
ReloadStore == <<"store", "victims", "close">>
ReloadSweep == <<"victims", "close">>
CloseThem == <<"close">>
CloseAll == <<"victims of all", "close">>

\* A stop, and what comes after it.
Rests == {startLocked, CloseAll, <<>>}
ToCancel(rest) == <<"cancel pool", "clear pool", "unlisten">> \o rest
ToClear(rest) == <<"clear pool", "unlisten">> \o rest
ToUnlisten(rest) == <<"unlisten">> \o rest

Stopping == \E rest \in Rests : upd = ToCancel(rest) \/ upd = ToClear(rest) \/ upd = ToUnlisten(rest)

Starting ==
    /\ ~srv.running
    /\ \/ upd = startLocked
       \/ upd = ToListen /\ Built
       \/ upd = ToStore /\ Built
       \/ upd = ToSweep /\ Built /\ srv.secrets = srv.built
       \/ upd = ToClose /\ Stored
       \/ upd = ToPool /\ Stored
       \/ upd = ToServe /\ Stored

Reloading ==
    \/ upd = reloadSecretsLocked
    \/ upd = ReloadStore /\ Built
    \/ upd = ReloadSweep /\ Built /\ srv.secrets = srv.built
    \/ upd = CloseThem /\ (srv.running => Stored)

Resting ==
    \/ upd = CloseAll /\ ~srv.running
    \/ upd = <<>> /\ (srv.running => Stored)

\* How far a start, a stop or a reload is, and what it has achieved.
Phase == Stopping \/ Starting \/ Reloading \/ Resting

ServerOK ==
    /\ IsServer(srv) /\ cfg \in ConfigType
    /\ ~srv.started => ~srv.running /\ upd = <<>>
    /\ Phase

\* Building the secrets does not change what would be built.
LEMMA BuildTwice ==
  ASSUME NEW k \in ConfigType
  PROVE  LET next == [k EXCEPT !.on = IF buildSecrets(k).secrets = {Fresh} THEN {Fresh} ELSE @]
         IN  next \in ConfigType /\ buildSecrets(next) = buildSecrets(k)
  <1> DEFINE next == [k EXCEPT !.on = IF buildSecrets(k).secrets = {Fresh} THEN {Fresh} ELSE @]
  <1>1. CASE buildSecrets(k).secrets # {Fresh}
    <2>1. next = k
      BY <1>1 DEF ConfigType
    <2> QED
      BY <2>1
  <1>2. CASE buildSecrets(k).secrets = {Fresh}
    <2>1. next \in ConfigType /\ next.on = {Fresh}
      BY <1>2 DEF ConfigType
    <2>2. buildSecrets(next) = [err |-> FALSE, secrets |-> {Fresh}]
      BY <2>1 DEF buildSecrets
    <2>3. buildSecrets(k) \in {Err, [err |-> FALSE, secrets |-> {}], [err |-> FALSE, secrets |-> {Fresh}],
                               [err |-> FALSE, secrets |-> k.on]}
      BY DEF buildSecrets
    <2>4. Err.secrets = {} /\ {Fresh} # {}
      BY DEF Err
    <2>5. buildSecrets(k) = [err |-> FALSE, secrets |-> {Fresh}]
      BY <1>2, <2>3, <2>4
    <2> QED
      BY <2>1, <2>2, <2>5
  <1> QED
    BY <1>1, <1>2

LEMMA BuildSame ==
  ASSUME NEW k \in ConfigType, NEW l \in ConfigType, ~mtprotoNeedsRestart(k, l), ~mtprotoSecretsChanged(k, l)
  PROVE  buildSecrets(k) = buildSecrets(l)
  BY DEF mtprotoNeedsRestart, mtprotoSecretsChanged, buildSecrets

LEMMA ConsOne ==
  ASSUME NEW S, NEW rest \in Seq(S), NEW x \in S
  PROVE  <<x>> \o rest \in Seq(S) /\ Head(<<x>> \o rest) = x /\ Tail(<<x>> \o rest) = rest
  OBVIOUS

LEMMA ConsTwo ==
  ASSUME NEW S, NEW rest \in Seq(S), NEW x \in S, NEW y \in S
  PROVE  /\ <<x, y>> \o rest \in Seq(S) /\ Head(<<x, y>> \o rest) = x
         /\ Tail(<<x, y>> \o rest) = <<y>> \o rest
  OBVIOUS

LEMMA ConsThree ==
  ASSUME NEW S, NEW rest \in Seq(S), NEW x \in S, NEW y \in S, NEW z \in S
  PROVE  /\ <<x, y, z>> \o rest \in Seq(S) /\ Head(<<x, y, z>> \o rest) = x
         /\ Tail(<<x, y, z>> \o rest) = <<y, z>> \o rest
  OBVIOUS

LEMMA SomeSteps ==
  /\ "cancel pool" \in LockedSteps /\ "clear pool" \in LockedSteps /\ "unlisten" \in LockedSteps
  /\ "build" \in LockedSteps /\ "listen" \in LockedSteps /\ "store" \in LockedSteps
  /\ "victims" \in LockedSteps /\ "victims of all" \in LockedSteps /\ "close" \in LockedSteps
  /\ "pool" \in LockedSteps /\ "serve" \in LockedSteps
  BY DEF LockedSteps

LEMMA PairSeq == ASSUME NEW S, NEW x \in S, NEW y \in S PROVE <<x, y>> \in Seq(S)
  OBVIOUS

LEMMA SevenSeq ==
  ASSUME NEW S, NEW a \in S, NEW b \in S, NEW c \in S, NEW d \in S, NEW e \in S, NEW f \in S, NEW g \in S
  PROVE  <<a, b, c, d, e, f, g>> \in Seq(S)
  OBVIOUS

LEMMA RestIsSeq == ASSUME NEW rest \in Rests PROVE rest \in Seq(LockedSteps)
  <1>1. startLocked \in Seq(LockedSteps)
    BY SomeSteps, SevenSeq, Zenon DEF startLocked
  <1>2. CloseAll \in Seq(LockedSteps)
    BY SomeSteps, PairSeq, Zenon DEF CloseAll
  <1>3. <<>> \in Seq(LockedSteps)
    OBVIOUS
  <1> QED
    BY <1>1, <1>2, <1>3, Zenon DEF Rests

LEMMA StopSteps ==
  ASSUME NEW rest \in Rests
  PROVE  /\ Head(ToCancel(rest)) = "cancel pool" /\ Tail(ToCancel(rest)) = ToClear(rest)
         /\ Head(ToClear(rest)) = "clear pool" /\ Tail(ToClear(rest)) = ToUnlisten(rest)
         /\ Head(ToUnlisten(rest)) = "unlisten" /\ Tail(ToUnlisten(rest)) = rest
  <1>1. rest \in Seq(LockedSteps)
    BY RestIsSeq
  <1> DEFINE a == "cancel pool"  b == "clear pool"  c == "unlisten"
  <1>2. a \in LockedSteps /\ b \in LockedSteps /\ c \in LockedSteps
    BY SomeSteps
  <1> HIDE DEF a, b, c
  <1>3. Head(<<a, b, c>> \o rest) = a /\ Tail(<<a, b, c>> \o rest) = <<b, c>> \o rest
    BY <1>1, <1>2, ConsThree
  <1>4. Head(<<b, c>> \o rest) = b /\ Tail(<<b, c>> \o rest) = <<c>> \o rest
    BY <1>1, <1>2, ConsTwo
  <1>5. Head(<<c>> \o rest) = c /\ Tail(<<c>> \o rest) = rest
    BY <1>1, <1>2, ConsOne
  <1> QED
    BY <1>3, <1>4, <1>5, Zenon DEF a, b, c, ToCancel, ToClear, ToUnlisten

LEMMA StartSteps ==
  /\ Head(startLocked) = "build" /\ Tail(startLocked) = ToListen
  /\ Head(ToListen) = "listen" /\ Tail(ToListen) = ToStore
  /\ Head(ToStore) = "store" /\ Tail(ToStore) = ToSweep
  /\ Head(ToSweep) = "victims" /\ Tail(ToSweep) = ToClose
  /\ Head(ToClose) = "close" /\ Tail(ToClose) = ToPool
  /\ Head(ToPool) = "pool" /\ Tail(ToPool) = ToServe
  /\ Head(ToServe) = "serve" /\ Tail(ToServe) = <<>>
  <1>1. Head(startLocked) = "build" /\ Tail(startLocked) = ToListen
    BY DEF startLocked, ToListen
  <1>2. Head(ToListen) = "listen" /\ Tail(ToListen) = ToStore
    BY DEF ToListen, ToStore
  <1>3. Head(ToStore) = "store" /\ Tail(ToStore) = ToSweep
    BY DEF ToStore, ToSweep
  <1>4. Head(ToSweep) = "victims" /\ Tail(ToSweep) = ToClose
    BY DEF ToSweep, ToClose
  <1>5. Head(ToClose) = "close" /\ Tail(ToClose) = ToPool
    BY DEF ToClose, ToPool
  <1>6. Head(ToPool) = "pool" /\ Tail(ToPool) = ToServe
    BY DEF ToPool, ToServe
  <1>7. Head(ToServe) = "serve" /\ Tail(ToServe) = <<>>
    BY DEF ToServe
  <1> QED
    BY <1>1, <1>2, <1>3, <1>4, <1>5, <1>6, <1>7

LEMMA ReloadSteps ==
  /\ Head(reloadSecretsLocked) = "build" /\ Tail(reloadSecretsLocked) = ReloadStore
  /\ Head(ReloadStore) = "store" /\ Tail(ReloadStore) = ReloadSweep
  /\ Head(ReloadSweep) = "victims" /\ Tail(ReloadSweep) = CloseThem
  /\ Head(CloseThem) = "close" /\ Tail(CloseThem) = <<>>
  /\ Head(CloseAll) = "victims of all" /\ Tail(CloseAll) = CloseThem
  <1>1. Head(reloadSecretsLocked) = "build" /\ Tail(reloadSecretsLocked) = ReloadStore
    BY DEF reloadSecretsLocked, ReloadStore
  <1>2. Head(ReloadStore) = "store" /\ Tail(ReloadStore) = ReloadSweep
    BY DEF ReloadStore, ReloadSweep
  <1>3. Head(ReloadSweep) = "victims" /\ Tail(ReloadSweep) = CloseThem
    BY DEF ReloadSweep, CloseThem
  <1>4. Head(CloseThem) = "close" /\ Tail(CloseThem) = <<>>
    BY DEF CloseThem
  <1>5. Head(CloseAll) = "victims of all" /\ Tail(CloseAll) = CloseThem
    BY DEF CloseAll, CloseThem
  <1> QED
    BY <1>1, <1>2, <1>3, <1>4, <1>5

LEMMA PhaseSteps == Phase => HeadKnown
  <1>1. Stopping => Head(upd) \in LockedSteps
    BY StopSteps, SomeSteps, Zenon DEF Stopping
  <1>2. Starting => Head(upd) \in LockedSteps
    BY StartSteps, SomeSteps, Zenon DEF Starting
  <1>3. Reloading => Head(upd) \in LockedSteps
    BY ReloadSteps, SomeSteps, Zenon DEF Reloading
  <1>4. Resting => HeadKnown
    BY ReloadSteps, SomeSteps, Zenon DEF Resting, HeadKnown
  <1> QED
    BY <1>1, <1>2, <1>3, <1>4 DEF Phase, HeadKnown

LEMMA SetPool ==
  ASSUME IsServer(srv), NEW x, srv' = [srv EXCEPT !.pool = x]
  PROVE  /\ IsServer(srv') /\ srv'.started = srv.started /\ srv'.running = srv.running
         /\ srv'.secrets = srv.secrets /\ srv'.built = srv.built /\ srv'.victims = srv.victims
  BY DEF IsServer

LEMMA SetRunning ==
  ASSUME IsServer(srv), NEW x, srv' = [srv EXCEPT !.running = x]
  PROVE  /\ IsServer(srv') /\ srv'.running = x /\ srv'.started = srv.started
         /\ srv'.secrets = srv.secrets /\ srv'.built = srv.built /\ srv'.victims = srv.victims
  BY DEF IsServer

LEMMA SetStarted ==
  ASSUME IsServer(srv), NEW x, srv' = [srv EXCEPT !.started = x]
  PROVE  /\ IsServer(srv') /\ srv'.started = x /\ srv'.running = srv.running
         /\ srv'.secrets = srv.secrets /\ srv'.built = srv.built /\ srv'.victims = srv.victims
  BY DEF IsServer

LEMMA SetBuilt ==
  ASSUME IsServer(srv), NEW x, srv' = [srv EXCEPT !.built = x]
  PROVE  /\ IsServer(srv') /\ srv'.built = x /\ srv'.started = srv.started
         /\ srv'.running = srv.running /\ srv'.secrets = srv.secrets /\ srv'.victims = srv.victims
  BY DEF IsServer

LEMMA SetSecrets ==
  ASSUME IsServer(srv), NEW x, srv' = [srv EXCEPT !.secrets = x]
  PROVE  /\ IsServer(srv') /\ srv'.secrets = x /\ srv'.started = srv.started
         /\ srv'.running = srv.running /\ srv'.built = srv.built /\ srv'.victims = srv.victims
  BY DEF IsServer

LEMMA SetVictims ==
  ASSUME IsServer(srv), NEW x, srv' = [srv EXCEPT !.victims = x]
  PROVE  /\ IsServer(srv') /\ srv'.victims = x /\ srv'.started = srv.started
         /\ srv'.running = srv.running /\ srv'.secrets = srv.secrets /\ srv'.built = srv.built
  BY DEF IsServer

LEMMA StopKept == ASSUME ServerOK, Locked, Stopping PROVE ServerOK'
  <1>1. PICK rest \in Rests : upd = ToCancel(rest) \/ upd = ToClear(rest) \/ upd = ToUnlisten(rest)
    BY DEF Stopping
  <1>2. upd # <<>>
    BY Zenon DEF Locked
  <1>3. srv.started
    BY <1>2 DEF ServerOK
  <1>4. CASE upd = ToCancel(rest)
    <2>1. upd' = ToClear(rest) /\ UNCHANGED <<srv, cfg>>
      BY <1>4, StopSteps, AtCancelPool
    <2> QED
      BY <1>3, <2>1 DEF ServerOK, Phase, Stopping
  <1>5. CASE upd = ToClear(rest)
    <2>1. upd' = ToUnlisten(rest) /\ srv' = [srv EXCEPT !.pool = None] /\ cfg' = cfg
      BY <1>5, StopSteps, AtClearPool
    <2>2. IsServer(srv') /\ srv'.started = srv.started
      BY <2>1, SetPool DEF ServerOK
    <2> QED
      BY <1>3, <2>1, <2>2 DEF ServerOK, Phase, Stopping
  <1>6. CASE upd = ToUnlisten(rest)
    <2>1. upd' = rest /\ srv' = [srv EXCEPT !.running = FALSE] /\ cfg' = cfg
      BY <1>6, StopSteps, AtUnlisten
    <2>2. IsServer(srv') /\ srv'.started = srv.started /\ srv'.running = FALSE
      BY <2>1, SetRunning DEF ServerOK
    <2>3. Starting' \/ Resting'
      BY <2>1, <2>2 DEF Rests, Starting, Resting
    <2> QED
      BY <1>3, <2>1, <2>2, <2>3 DEF ServerOK, Phase
  <1> QED
    BY <1>1, <1>4, <1>5, <1>6

LEMMA BuildKept ==
  ASSUME ServerOK, Locked, Head(upd) = "build"
  PROVE  /\ cfg' \in ConfigType /\ buildSecrets(cfg') = buildSecrets(cfg)
         /\ IsServer(srv') /\ srv'.started = srv.started /\ srv'.running = srv.running
         /\ srv'.secrets = srv.secrets /\ srv'.built = buildSecrets(cfg).secrets
         /\ \/ ~buildSecrets(cfg).err /\ upd' = Tail(upd)
            \/ buildSecrets(cfg).err /\ srv.running /\ upd' = <<>>
            \/ buildSecrets(cfg).err /\ ~srv.running /\ upd' = CloseAll
  <1>1. cfg' \in ConfigType /\ buildSecrets(cfg') = buildSecrets(cfg)
    BY AtBuild, BuildTwice DEF ServerOK
  <1>2. /\ IsServer(srv') /\ srv'.started = srv.started /\ srv'.running = srv.running
        /\ srv'.secrets = srv.secrets /\ srv'.built = buildSecrets(cfg).secrets
    <2>1. srv' = [srv EXCEPT !.built = buildSecrets(cfg).secrets]
      BY AtBuild
    <2> QED
      BY <2>1, SetBuilt DEF ServerOK
  <1>3. \/ ~buildSecrets(cfg).err /\ upd' = Tail(upd)
        \/ buildSecrets(cfg).err /\ srv.running /\ upd' = <<>>
        \/ buildSecrets(cfg).err /\ ~srv.running /\ upd' = CloseAll
    BY AtBuild, Zenon DEF CloseAll
  <1> QED
    BY <1>1, <1>2, <1>3

LEMMA StoreKept ==
  ASSUME ServerOK, Locked, Head(upd) = "store"
  PROVE  /\ cfg' = cfg /\ upd' = Tail(upd) /\ IsServer(srv') /\ srv'.started = srv.started
         /\ srv'.running = srv.running /\ srv'.secrets = srv.built /\ srv'.built = srv.built
  <1>1. srv' = [srv EXCEPT !.secrets = srv.built] /\ upd' = Tail(upd) /\ cfg' = cfg
    BY AtStore
  <1> QED
    BY <1>1, SetSecrets DEF ServerOK

LEMMA SweepKept ==
  ASSUME ServerOK, Locked, Head(upd) \in {"victims", "victims of all", "close", "pool"}
  PROVE  /\ cfg' = cfg /\ upd' = Tail(upd) /\ IsServer(srv') /\ srv'.started = srv.started
         /\ srv'.running = srv.running /\ srv'.secrets = srv.secrets /\ srv'.built = srv.built
  <1>1. cfg' = cfg /\ upd' = Tail(upd)
    BY AtVictims, AtVictimsOfAll, AtClose, AtPool
  <1>2. (\E x : srv' = [srv EXCEPT !.victims = x]) \/ (\E x : srv' = [srv EXCEPT !.pool = x])
    BY AtVictims, AtVictimsOfAll, AtClose, AtPool
  <1>3. CASE \E x : srv' = [srv EXCEPT !.victims = x]
    <2>1. PICK x : srv' = [srv EXCEPT !.victims = x]
      BY <1>3
    <2> QED
      BY <1>1, <2>1, SetVictims DEF ServerOK
  <1>4. CASE \E x : srv' = [srv EXCEPT !.pool = x]
    <2>1. PICK x : srv' = [srv EXCEPT !.pool = x]
      BY <1>4
    <2> QED
      BY <1>1, <2>1, SetPool DEF ServerOK
  <1> QED
    BY <1>2, <1>3, <1>4

LEMMA StartKept == ASSUME ServerOK, Locked, Starting PROVE ServerOK'
  <1>1. upd # <<>>
    BY Zenon DEF Locked
  <1>2. srv.started /\ ~srv.running
    BY <1>1 DEF ServerOK, Starting
  <1>3. CASE upd = startLocked
    <2>1. Head(upd) = "build" /\ Tail(upd) = ToListen
      BY <1>3, StartSteps
    <2>2. Starting' \/ Resting'
      BY <1>2, <2>1, BuildKept DEF Starting, Resting, Built
    <2> QED
      BY <1>2, <2>1, <2>2, BuildKept DEF ServerOK, Phase
  <1>4. CASE upd = ToListen /\ Built
    <2>1. /\ upd' = ToStore \/ upd' = CloseAll
          /\ cfg' = cfg /\ srv' = srv
      BY <1>2, <1>4, StartSteps, AtListen DEF CloseAll
    <2>2. Starting' \/ Resting'
      BY <1>2, <1>4, <2>1 DEF Starting, Resting, Built
    <2> QED
      BY <1>2, <2>1, <2>2 DEF ServerOK, Phase
  <1>5. CASE upd = ToStore /\ Built
    <2>1. Head(upd) = "store" /\ Tail(upd) = ToSweep
      BY <1>5, StartSteps
    <2>2. Starting'
      BY <1>2, <1>5, <2>1, StoreKept DEF Starting, Built
    <2> QED
      BY <1>2, <2>1, <2>2, StoreKept DEF ServerOK, Phase
  <1>6. CASE upd = ToSweep /\ Built /\ srv.secrets = srv.built
    <2>1. Head(upd) = "victims" /\ Tail(upd) = ToClose
      BY <1>6, StartSteps
    <2>2. Starting'
      BY <1>2, <1>6, <2>1, SweepKept DEF Starting, Built, Stored
    <2> QED
      BY <1>2, <2>1, <2>2, SweepKept DEF ServerOK, Phase
  <1>7. CASE upd = ToClose /\ Stored
    <2>1. Head(upd) = "close" /\ Tail(upd) = ToPool
      BY <1>7, StartSteps
    <2>2. Starting'
      BY <1>2, <1>7, <2>1, SweepKept DEF Starting, Stored
    <2> QED
      BY <1>2, <2>1, <2>2, SweepKept DEF ServerOK, Phase
  <1>8. CASE upd = ToPool /\ Stored
    <2>1. Head(upd) = "pool" /\ Tail(upd) = ToServe
      BY <1>8, StartSteps
    <2>2. Starting'
      BY <1>2, <1>8, <2>1, SweepKept DEF Starting, Stored
    <2> QED
      BY <1>2, <2>1, <2>2, SweepKept DEF ServerOK, Phase
  <1>9. CASE upd = ToServe /\ Stored
    <2>1. upd' = <<>> /\ srv' = [srv EXCEPT !.running = TRUE] /\ cfg' = cfg
      BY <1>9, StartSteps, AtServe
    <2>2. IsServer(srv') /\ srv'.started = srv.started /\ srv'.secrets = srv.secrets
      BY <2>1, SetRunning DEF ServerOK
    <2>3. Resting'
      BY <1>9, <2>1, <2>2 DEF Resting, Stored
    <2> QED
      BY <1>2, <2>1, <2>2, <2>3 DEF ServerOK, Phase
  <1> QED
    BY <1>3, <1>4, <1>5, <1>6, <1>7, <1>8, <1>9 DEF Starting

LEMMA ReloadKept == ASSUME ServerOK, Locked, Reloading \/ Resting PROVE ServerOK'
  <1>1. upd # <<>>
    BY Zenon DEF Locked
  <1>2. srv.started
    BY <1>1 DEF ServerOK
  <1>3. CASE upd = reloadSecretsLocked
    <2>1. Head(upd) = "build" /\ Tail(upd) = ReloadStore
      BY <1>3, ReloadSteps
    <2>2. Reloading' \/ Resting'
      BY <2>1, BuildKept DEF Reloading, Resting, Built, Stored
    <2> QED
      BY <1>2, <2>1, <2>2, BuildKept DEF ServerOK, Phase
  <1>4. CASE upd = ReloadStore /\ Built
    <2>1. Head(upd) = "store" /\ Tail(upd) = ReloadSweep
      BY <1>4, ReloadSteps
    <2>2. Reloading'
      BY <1>4, <2>1, StoreKept DEF Reloading, Built
    <2> QED
      BY <1>2, <2>1, <2>2, StoreKept DEF ServerOK, Phase
  <1>5. CASE upd = ReloadSweep /\ Built /\ srv.secrets = srv.built
    <2>1. Head(upd) = "victims" /\ Tail(upd) = CloseThem
      BY <1>5, ReloadSteps
    <2>2. Reloading'
      BY <1>5, <2>1, SweepKept DEF Reloading, Built, Stored
    <2> QED
      BY <1>2, <2>1, <2>2, SweepKept DEF ServerOK, Phase
  <1>6. CASE upd = CloseThem /\ (srv.running => Stored)
    <2>1. Head(upd) = "close" /\ Tail(upd) = <<>>
      BY <1>6, ReloadSteps
    <2>2. Resting'
      BY <1>6, <2>1, SweepKept DEF Resting, Stored
    <2> QED
      BY <1>2, <2>1, <2>2, SweepKept DEF ServerOK, Phase
  <1>7. CASE upd = CloseAll /\ ~srv.running
    <2>1. Head(upd) = "victims of all" /\ Tail(upd) = CloseThem
      BY <1>7, ReloadSteps
    <2>2. Reloading'
      BY <1>7, <2>1, SweepKept DEF Reloading
    <2> QED
      BY <1>2, <2>1, <2>2, SweepKept DEF ServerOK, Phase
  <1> QED
    BY <1>1, <1>3, <1>4, <1>5, <1>6, <1>7 DEF Reloading, Resting

LEMMA NoneAtHand ==
  /\ startLocked # <<>> /\ ToListen # <<>> /\ ToStore # <<>> /\ ToSweep # <<>> /\ ToClose # <<>>
  /\ ToPool # <<>> /\ ToServe # <<>> /\ reloadSecretsLocked # <<>> /\ ReloadStore # <<>>
  /\ ReloadSweep # <<>> /\ CloseThem # <<>> /\ CloseAll # <<>>
  BY DEF startLocked, ToListen, ToStore, ToSweep, ToClose, ToPool, ToServe, reloadSecretsLocked, ReloadStore,
         ReloadSweep, CloseThem, CloseAll

LEMMA StopNonEmpty ==
  ASSUME NEW S, NEW rest \in Seq(S), NEW x, NEW y, NEW z
  PROVE  <<x, y, z>> \o rest # <<>> /\ <<x, y>> \o rest # <<>> /\ <<x>> \o rest # <<>>
  OBVIOUS

\* With nothing left to do a server that runs has the configuration's secrets.
LEMMA IdleIsStored == ASSUME Phase, upd = <<>>, srv.running PROVE Stored
  <1>1. ~Stopping
    <2> SUFFICES ASSUME NEW rest \in Rests
                 PROVE  ToCancel(rest) # <<>> /\ ToClear(rest) # <<>> /\ ToUnlisten(rest) # <<>>
      BY DEF Stopping
    <2> DEFINE a == "cancel pool"  b == "clear pool"  c == "unlisten"
    <2>1. rest \in Seq(LockedSteps)
      BY RestIsSeq
    <2> HIDE DEF a, b, c
    <2>2. <<a, b, c>> \o rest # <<>> /\ <<b, c>> \o rest # <<>> /\ <<c>> \o rest # <<>>
      BY <2>1, StopNonEmpty
    <2> QED
      BY <2>2, Zenon DEF a, b, c, ToCancel, ToClear, ToUnlisten
  <1>2. ~Starting
    BY NoneAtHand DEF Starting
  <1> QED
    BY <1>1, <1>2, NoneAtHand DEF Phase, Reloading, Resting

LEMMA UpdateKept == ASSUME ServerOK, CoolOK, NEW new \in set.configs, UpdateConfig(new) PROVE ServerOK'
  <1>1. new \in ConfigType
    BY SettingsAssumption DEF CoolOK, ConfigType
  <1>2. srv.started /\ upd = <<>> /\ cfg' = new /\ srv' = srv
    BY DEF UpdateConfig
  <1>3. Phase'
    <2>1. CASE mtprotoNeedsRestart(cfg, new)
      <3> DEFINE rest == IF new.enabled THEN startLocked ELSE IF cfg.enabled THEN CloseAll ELSE <<>>
      <3>1. rest \in Rests
        BY DEF Rests
      <3>2. upd' = (IF srv.running THEN stopLocked ELSE <<>>) \o rest
        BY <2>1 DEF UpdateConfig, CloseAll
      <3> HIDE DEF rest
      <3>3. CASE srv.running
        <4>1. upd' = ToCancel(rest)
          BY <3>2, <3>3 DEF stopLocked, ToCancel
        <4> QED
          BY <3>1, <4>1 DEF Phase, Stopping
      <3>4. CASE ~srv.running
        <4>1. upd' = rest
          BY <3>1, <3>2, <3>4, RestIsSeq
        <4> QED
          BY <1>2, <3>1, <3>4, <4>1 DEF Rests, Phase, Starting, Resting
      <3> QED
        BY <3>3, <3>4
    <2>2. CASE ~mtprotoNeedsRestart(cfg, new) /\ srv.running /\ mtprotoSecretsChanged(cfg, new)
      <3>1. upd' = reloadSecretsLocked
        BY <2>2 DEF UpdateConfig
      <3> QED
        BY <3>1 DEF Phase, Reloading
    <2>3. CASE ~mtprotoNeedsRestart(cfg, new) /\ ~(srv.running /\ mtprotoSecretsChanged(cfg, new))
      <3>1. upd' = <<>>
        BY <2>3 DEF UpdateConfig
      <3>2. srv.running => Stored'
        <4> SUFFICES ASSUME srv.running PROVE Stored'
          OBVIOUS
        <4>1. buildSecrets(cfg) = buildSecrets(new)
          BY <1>1, <2>3, BuildSame DEF ServerOK
        <4>2. Stored
          BY <1>2, IdleIsStored DEF ServerOK
        <4> QED
          BY <1>2, <4>1, <4>2 DEF Stored
      <3> QED
        BY <1>2, <3>1, <3>2 DEF Phase, Resting
    <2> QED
      BY <2>1, <2>2, <2>3
  <1> QED
    BY <1>1, <1>2, <1>3 DEF ServerOK

LEMMA BeginKept == ASSUME ServerOK, Start PROVE ServerOK'
  <1>1. ~srv.started /\ ~srv.running /\ cfg' = cfg /\ srv' = [srv EXCEPT !.started = TRUE]
    BY DEF Start, ServerOK
  <1>2. IsServer(srv') /\ srv'.started = TRUE /\ srv'.running = srv.running
    BY <1>1, SetStarted DEF ServerOK
  <1>3. upd' = startLocked \/ upd' = <<>>
    BY DEF Start
  <1>4. Starting' \/ Resting'
    BY <1>1, <1>2, <1>3 DEF Starting, Resting
  <1> QED
    BY <1>1, <1>2, <1>4 DEF ServerOK, Phase

\* A step that changes no field but the victims.
LEMMA FieldsKept ==
  ASSUME ServerOK, IsServer(srv'), UNCHANGED <<cfg, upd>>, srv'.started = srv.started,
         srv'.running = srv.running, srv'.secrets = srv.secrets, srv'.built = srv.built
  PROVE  ServerOK'
  <1>1. Built' = Built /\ Stored' = Stored
    BY DEF Built, Stored
  <1>2. Stopping => Stopping'
    BY DEF Stopping
  <1>3. Starting => Starting'
    BY <1>1 DEF Starting
  <1>4. Reloading => Reloading'
    BY <1>1 DEF Reloading
  <1>5. Resting => Resting'
    BY <1>1 DEF Resting
  <1> QED
    BY <1>2, <1>3, <1>4, <1>5 DEF ServerOK, Phase

LEMMA ServerKept == ASSUME ConnsOK, CoolOK, ServerOK, [Next]_vars PROVE ServerOK'
  <1>1. CASE HandlerStep
    <2>1. UNCHANGED <<cfg, upd>> /\ (srv' = srv \/ \E x : srv' = [srv EXCEPT !.victims = x])
      BY <1>1 DEF HandlerStep, SrvKept
    <2>2. CASE srv' = srv
      BY <2>1, <2>2, FieldsKept DEF ServerOK
    <2>3. CASE \E x : srv' = [srv EXCEPT !.victims = x]
      <3>1. PICK x : srv' = [srv EXCEPT !.victims = x]
        BY <2>3
      <3>2. /\ IsServer(srv') /\ srv'.started = srv.started /\ srv'.running = srv.running
            /\ srv'.secrets = srv.secrets /\ srv'.built = srv.built
        BY <3>1, SetVictims DEF ServerOK
      <3> QED
        BY <2>1, <3>2, FieldsKept
    <2> QED
      BY <2>1, <2>2, <2>3
  <1>2. CASE Locked
    BY <1>2, StopKept, StartKept, ReloadKept DEF ServerOK, Phase
  <1>3. CASE UNCHANGED <<cfg, srv, upd, conn>>
    BY <1>3, FieldsKept DEF ServerOK
  <1> QED
    BY <1>1, <1>2, <1>3, StepKinds, BeginKept, UpdateKept

-----------------------------------------------------------------------------
(* The TCP side: a client whose secret was revoked *)

\* It is past the check only until the sweep that is still to come, or is under way.
Doomed(c) ==
    \/ upd # <<>> /\ Head(upd) = "victims"
    \/ upd # <<>> /\ Head(upd) = "close" /\ c \in srv.victims

Swept == \A c \in Conns : Live(conn[c]) => conn[c].sec \in srv.secrets \/ Doomed(c)

\* The sweep looks for the secrets that were stored.
LEMMA SweepsStored ==
  ASSUME ServerOK, upd # <<>>, Head(upd) = "victims"
  PROVE  srv.secrets = srv.built /\ (Tail(upd) = ToClose \/ Tail(upd) = CloseThem)
  <1>1. ~Stopping
    BY StopSteps, Zenon DEF Stopping
  <1>2. Starting => upd = ToSweep /\ srv.secrets = srv.built
    BY StartSteps DEF Starting
  <1>3. Reloading => upd = ReloadSweep /\ srv.secrets = srv.built
    BY ReloadSteps DEF Reloading
  <1>4. ~Resting
    BY ReloadSteps DEF Resting
  <1> QED
    BY <1>1, <1>2, <1>3, <1>4, StartSteps, ReloadSteps DEF ServerOK, Phase

LEMMA StoreThenSweep ==
  ASSUME ServerOK, upd # <<>>, Head(upd) = "store"
  PROVE  Tail(upd) = ToSweep \/ Tail(upd) = ReloadSweep
  <1>1. ~Stopping
    BY StopSteps, Zenon DEF Stopping
  <1>2. Starting => upd = ToStore
    BY StartSteps DEF Starting
  <1>3. Reloading => upd = ReloadStore
    BY ReloadSteps DEF Reloading
  <1>4. ~Resting
    BY ReloadSteps DEF Resting
  <1> QED
    BY <1>1, <1>2, <1>3, <1>4, StartSteps, ReloadSteps DEF ServerOK, Phase

LEMMA SweptByLocked == ASSUME ConnsOK, ServerOK, Swept, Locked PROVE Swept'
  <1>1. upd # <<>> /\ Head(upd) \in LockedSteps
    BY AtSomeStep, PhaseSteps DEF ServerOK
  <1>2. CASE Head(upd) = "store"
    <2>1. upd' = ToSweep \/ upd' = ReloadSweep
      BY <1>1, <1>2, AtStore, StoreThenSweep
    <2>2. upd' # <<>> /\ Head(upd') = "victims"
      BY <2>1, StartSteps, ReloadSteps, NoneAtHand
    <2> QED
      BY <2>2 DEF Swept, Doomed
  <1>3. CASE Head(upd) = "victims"
    <2>1. conn' = conn /\ upd' = Tail(upd) /\ srv' = [srv EXCEPT !.victims = closeRevokedConns(srv.built)]
      BY <1>3, AtVictims
    <2>2. upd' # <<>> /\ Head(upd') = "close" /\ srv.secrets = srv.built
      BY <1>1, <1>3, <2>1, SweepsStored, StartSteps, ReloadSteps, NoneAtHand
    <2>3. srv'.victims = closeRevokedConns(srv.secrets) /\ srv'.secrets = srv.secrets
      BY <2>1, <2>2, SetVictims DEF ServerOK
    <2> QED
      BY <2>1, <2>2, <2>3 DEF Swept, Doomed, Live, closeRevokedConns
  <1>4. CASE Head(upd) = "close"
    <2>1. conn' = [c \in Conns |-> IF c \in srv.victims THEN [conn[c] EXCEPT !.open = FALSE] ELSE conn[c]]
      BY <1>4, AtClose
    <2>2. srv'.secrets = srv.secrets
      <3>1. srv' = [srv EXCEPT !.victims = {}]
        BY <1>4, AtClose
      <3> QED
        BY <3>1, SetVictims DEF ServerOK
    <2>3. ASSUME NEW c \in Conns, Live(conn'[c]) PROVE conn'[c].sec \in srv'.secrets
      <3>1. CASE c \in srv.victims
        <4>1. conn'[c] = [conn[c] EXCEPT !.open = FALSE]
          BY <2>1, <3>1
        <4>2. ~conn'[c].open
          BY <4>1 DEF ConnsOK, ConnOK, IsConn, ConnFields
        <4> QED
          BY <2>3, <4>2 DEF Live
      <3>2. CASE c \notin srv.victims
        <4>1. conn'[c] = conn[c]
          BY <2>1, <3>2
        <4> QED
          BY <1>4, <2>2, <2>3, <3>2, <4>1 DEF Swept, Doomed
      <3> QED
        BY <3>1, <3>2
    <2> QED
      BY <2>3 DEF Swept
  <1>5. CASE Head(upd) \notin {"store", "victims", "close"}
    <2>1. \A c \in Conns : Live(conn[c]) => conn[c].sec \in srv.secrets
      BY <1>5 DEF Swept, Doomed
    <2>2. conn' = conn
      BY <1>1, <1>5, AtCancelPool, AtClearPool, AtUnlisten, AtBuild, AtListen, AtVictimsOfAll, AtPool, AtServe
      DEF LockedSteps
    <2>3. srv'.secrets = srv.secrets
      <3>1. CASE Head(upd) \in {"cancel pool", "listen"}
        BY <3>1, AtCancelPool, AtListen
      <3>2. CASE Head(upd) \in {"clear pool", "pool", "victims of all"}
        <4>1. CASE Head(upd) = "clear pool"
          <5>1. srv' = [srv EXCEPT !.pool = None]
            BY <4>1, AtClearPool
          <5> QED
            BY <5>1, SetPool DEF ServerOK
        <4>2. CASE Head(upd) # "clear pool"
          BY <3>2, <4>2, SweepKept
        <4> QED
          BY <4>1, <4>2
      <3>3. CASE Head(upd) = "build"
        BY <3>3, BuildKept
      <3>4. CASE Head(upd) \in {"unlisten", "serve"}
        <4>1. srv' = [srv EXCEPT !.running = FALSE] \/ srv' = [srv EXCEPT !.running = TRUE]
          BY <3>4, AtUnlisten, AtServe
        <4> QED
          BY <4>1, SetRunning DEF ServerOK
      <3> QED
        BY <1>1, <1>5, <3>1, <3>2, <3>3, <3>4 DEF LockedSteps
    <2> QED
      BY <2>1, <2>2, <2>3 DEF Swept
  <1> QED
    BY <1>2, <1>3, <1>4, <1>5

LEMMA SweptKept == ASSUME ConnsOK, CoolOK, ServerOK, Swept, [Next]_vars PROVE Swept'
  <1>1. CASE HandlerStep
    <2>1. PICK d \in Conns : Moves(d) /\ SrvKept(d) /\ UNCHANGED <<cfg, upd>>
      BY <1>1 DEF HandlerStep
    <2>2. PICK new : conn' = [conn EXCEPT ![d] = new] /\ Admitted(conn[d], new)
      BY <2>1 DEF Moves
    <2>3. srv'.secrets = srv.secrets
      <3>1. srv' = srv \/ \E x : srv' = [srv EXCEPT !.victims = x]
        BY <2>1 DEF SrvKept
      <3> QED
        BY <3>1, SetVictims DEF ServerOK
    <2> SUFFICES ASSUME NEW c \in Conns, Live(conn'[c]), conn'[c].sec \notin srv.secrets PROVE Doomed(c)'
      BY <2>3 DEF Swept
    <2>4. Live(conn[c]) /\ conn[c].sec \notin srv.secrets
      <3>1. CASE c = d
        BY <2>2, <3>1 DEF Admitted, ConnsOK
      <3>2. CASE c # d
        BY <2>2, <3>2 DEF ConnsOK
      <3> QED
        BY <3>1, <3>2
    <2>5. Doomed(c)
      BY <2>4 DEF Swept
    <2>6. c \in srv.victims => c \in srv'.victims
      <3>1. CASE srv' = srv
        BY <3>1
      <3>2. CASE srv' = [srv EXCEPT !.victims = @ \ {d}] /\ conn' = [conn EXCEPT ![d] = NoConn]
        <4>1. c # d
          BY <3>2, NoConnOK DEF ConnsOK
        <4>2. srv'.victims = srv.victims \ {d}
          BY <3>2 DEF ServerOK, IsServer
        <4> QED
          BY <4>1, <4>2
      <3> QED
        BY <2>1, <3>1, <3>2 DEF SrvKept
    <2> QED
      BY <2>1, <2>5, <2>6 DEF Doomed
  <1>2. CASE Start \/ \E new \in set.configs : UpdateConfig(new)
    <2>1. upd = <<>> /\ conn' = conn
      BY <1>2 DEF Start, UpdateConfig, ServerOK
    <2>2. srv'.secrets = srv.secrets
      <3>1. srv' = srv \/ srv' = [srv EXCEPT !.started = TRUE]
        BY <1>2 DEF Start, UpdateConfig
      <3> QED
        BY <3>1, SetStarted DEF ServerOK
    <2> QED
      BY <2>1, <2>2 DEF Swept, Doomed
  <1>3. CASE UNCHANGED <<cfg, srv, upd, conn>>
    BY <1>3 DEF Swept, Doomed
  <1> QED
    BY <1>1, <1>2, <1>3, StepKinds, SweptByLocked

-----------------------------------------------------------------------------
(* The TCP side: the theorems *)

TcpInv == ConnsOK /\ CoolOK /\ ServerOK /\ Swept

LEMMA TcpStarts == Init => TcpInv
  <1> SUFFICES ASSUME Init PROVE TcpInv
    OBVIOUS
  <1>1. ConnsOK /\ Swept
    BY NoConnOK DEF Init, ConnsOK, Swept
  <1>2. CoolOK
    BY DEF Init, CoolOK, Transports
  <1>3. ServerOK
    <2>1. cfg \in ConfigType
      BY SettingsAssumption DEF Init, ConfigType
    <2>2. IsServer(srv) /\ ~srv.started /\ ~srv.running /\ upd = <<>>
      BY DEF Init, IsServer
    <2> QED
      BY <2>1, <2>2 DEF ServerOK, Phase, Resting
  <1> QED
    BY <1>1, <1>2, <1>3 DEF TcpInv

LEMMA TcpKept == TcpInv /\ [Next]_vars => TcpInv'
  <1> SUFFICES ASSUME TcpInv, [Next]_vars PROVE TcpInv'
    OBVIOUS
  <1>1. HeadKnown
    BY PhaseSteps DEF TcpInv, ServerOK
  <1> QED
    BY <1>1, ConnsKept, CoolKept, ServerKept, SweptKept DEF TcpInv

LEMMA TcpAlways == ProxiesSpec => []TcpInv
  <1>1. ProxiesInit => TcpInv
    BY TcpStarts DEF ProxiesInit
  <1>2. TcpInv /\ [ProxiesNext]_<<vars, uvars>> => TcpInv'
    <2>1. [ProxiesNext]_<<vars, uvars>> => [Next]_vars
      BY DEF ProxiesNext, ConnStep
    <2> QED
      BY <2>1, TcpKept
  <1> QED
    BY <1>1, <1>2, PTL DEF ProxiesSpec

\* Whatever the handshakes and reloads that overlap, for any number of connections,
\* secrets and updates: while the server runs and no reload is under way, every
\* client past the check of its secret is connected with a secret of the
\* configuration (trackConn before secretActive, store before closeRevokedConns).
THEOREM RevokedAlwaysClosed == ProxiesSpec => []RevokedClosed
  <1>1. TcpInv => RevokedClosed
    <2> SUFFICES ASSUME TcpInv, srv.running, upd = <<>>, NEW c \in Conns, Live(conn[c])
                 PROVE  /\ conn[c].sec \in srv.secrets
                        /\ ~buildSecrets(cfg).err => conn[c].sec \in buildSecrets(cfg).secrets
      BY DEF RevokedClosed, Live
    <2>1. conn[c].sec \in srv.secrets
      BY DEF TcpInv, Swept, Doomed
    <2>2. Stored
      BY IdleIsStored DEF TcpInv, ServerOK
    <2> QED
      BY <2>1, <2>2 DEF Stored
  <1> QED
    BY <1>1, TcpAlways, PTL

\* Whatever other clients did to the blacklist and the cooldowns, for any plan of
\* transports: in auto mode DialObfuscated refuses no client before the TCP address
\* was tried, for it or, within the address's cooldown, for another.
THEOREM FallbackAlwaysReached == ProxiesSpec => []FallbackReached
  <1>1. TcpInv => FallbackReached
    BY DEF TcpInv, ConnsOK, ConnOK, RefusedTried, FallbackReached
  <1> QED
    BY <1>1, TcpAlways, PTL

=============================================================================
