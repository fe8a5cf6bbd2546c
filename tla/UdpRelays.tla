------------------------------ MODULE UdpRelays ------------------------------
(***************************************************************************)
(* The UDP side of b4's proxies.  The transparent listener keeps a session *)
(* per client and destination: a relay to the upstream and a reply socket  *)
(* bound to the destination.  A SOCKS5 association keeps a socket per      *)
(* destination.  Datagrams, reply loops, the reaper and the end of the     *)
(* listener or of the association all create and close them.               *)
(***************************************************************************)
EXTENDS Naturals, FiniteSets

CONSTANTS
    Keys,       \* client and destination of a datagram
    Sessions,   \* numbers of sessions: a relay and, in the listener, a reply socket
    Tasks,      \* numbers of datagrams that are handled at the same time
    Nil         \* no session

ASSUME SessionsAssumption == Nil \notin Sessions \cup Keys /\ Sessions \subseteq Nat /\ Tasks \subseteq Nat

VARIABLES
    owner,      \* the listener or the association
    table,      \* udpSessions, or the association's conns
    ses,        \* the sessions
    task        \* the datagrams

uvars == <<owner, table, ses, task>>

NoSes == [key |-> Nil, relay |-> FALSE, reply |-> FALSE, loop |-> "none", victim |-> Nil, idle |-> FALSE]

NoTask == [pc |-> "idle", key |-> Nil, ses |-> Nil]

UdpInit(kind, datagrams) ==
    /\ owner = [kind |-> kind, pc |-> IF kind = "tproxy" THEN "open" ELSE "none", ctx |-> TRUE, left |-> datagrams,
                stale |-> {}, victim |-> Nil, closing |-> {}]
    /\ table = [k \in Keys |-> Nil]
    /\ ses = [s \in Sessions |-> NoSes]
    /\ task = [t \in Tasks |-> NoTask]

Listener == owner.kind = "tproxy"

Closed(r) == [r EXCEPT !.relay = FALSE, !.reply = FALSE]

\* closeUDPSession(key): whatever session is in the table now is taken out of it
\* under the lock, and closed by the caller after it.
Close(s) == ses' = IF s = Nil THEN ses ELSE [ses EXCEPT ![s] = Closed(@)]

-----------------------------------------------------------------------------
(* Datagrams *)

\* The read loop of the listener handles one datagram after the other, the
\* association starts a goroutine for each.
Receive(t, k) ==
    /\ task[t].pc = "idle" /\ owner.pc = "open" /\ owner.left > 0
    /\ \A u \in Tasks : task[u].pc = "idle" => t <= u
    /\ Listener => \A u \in Tasks : task[u].pc = "idle"
    /\ owner' = [owner EXCEPT !.left = @ - 1]
    /\ task' = [task EXCEPT ![t] = [pc |-> IF table[k] = Nil THEN "dial" ELSE "write", key |-> k, ses |-> table[k]]]
    /\ UNCHANGED <<table, ses>>

Free == {s \in Sessions : ses[s] = NoSes}

\* The reply socket, then the upstream or, when it fails and the set fails open,
\* the destination itself; or the association's socket.  None of the listener's
\* dials succeeds once its context is cancelled.
newUDPSession(t) ==
    /\ task[t].pc = "dial"
    /\ Listener => owner.ctx
    /\ \E s \in Free :
         /\ \A u \in Free : s <= u
         /\ ses' = [ses EXCEPT ![s] = [NoSes EXCEPT !.key = task[t].key, !.relay = TRUE, !.reply = Listener]]
         /\ task' = [task EXCEPT ![t].pc = "store", ![t].ses = s]
    /\ UNCHANGED <<owner, table>>

\* The upstream refuses the association, or a socket cannot be had: the datagram is lost.
SessionFails(t) ==
    /\ task[t].pc = "dial"
    /\ task' = [task EXCEPT ![t] = NoTask]
    /\ UNCHANGED <<owner, table, ses>>

\* Mutant: the context is not looked at before the session is stored.
dispatchUDPBlind(t) ==
    /\ task[t].pc = "store"
    /\ LET k == task[t].key
           s == task[t].ses
       IN  IF table[k] # Nil
           THEN /\ Close(s)
                /\ task' = [task EXCEPT ![t].pc = "write", ![t].ses = table[k]]
                /\ UNCHANGED table
           ELSE /\ table' = [table EXCEPT ![k] = s]
                /\ ses' = [ses EXCEPT ![s].loop = "read"]
                /\ task' = [task EXCEPT ![t].pc = "write"]
    /\ UNCHANGED owner

\* Under the lock: another session may be there already, the listener may have
\* been stopped; otherwise the session is stored and its reply loop started.
dispatchUDP(t) ==
    /\ task[t].pc = "store"
    /\ LET k == task[t].key
           s == task[t].ses
       IN  IF table[k] # Nil
           THEN /\ Close(s)
                /\ task' = [task EXCEPT ![t].pc = "write", ![t].ses = table[k]]
                /\ UNCHANGED table
           ELSE IF Listener /\ ~owner.ctx
           THEN /\ Close(s)
                /\ task' = [task EXCEPT ![t] = NoTask]
                /\ UNCHANGED table
           ELSE /\ table' = [table EXCEPT ![k] = s]
                /\ ses' = [ses EXCEPT ![s].loop = "read"]
                /\ task' = [task EXCEPT ![t].pc = "write"]
    /\ UNCHANGED owner

\* A write that fails closes the session: the listener whatever is in the table
\* by then, the association the socket it wrote to.
Write(t) ==
    /\ task[t].pc = "write"
    /\ \/ /\ ses[task[t].ses].relay
          /\ ses' = [ses EXCEPT ![task[t].ses].idle = FALSE]
          /\ task' = [task EXCEPT ![t] = NoTask]
       \/ /\ task' = [task EXCEPT ![t].pc = "remove"]
          /\ UNCHANGED ses
    /\ UNCHANGED <<owner, table>>

\* The listener takes the key out and closes what it named, the association closes
\* the target and then deletes the key.
WriteFailed(t) ==
    /\ task[t].pc = "remove"
    /\ IF Listener
       THEN /\ table' = [table EXCEPT ![task[t].key] = Nil]
            /\ task' = [task EXCEPT ![t] = NoTask]
            /\ Close(table[task[t].key])
       ELSE /\ task' = [task EXCEPT ![t].pc = "delete"]
            /\ Close(task[t].ses)
            /\ UNCHANGED table
    /\ UNCHANGED owner

DeleteKey(t) ==
    /\ ~Listener /\ task[t].pc = "delete"
    /\ table' = [table EXCEPT ![task[t].key] = Nil]
    /\ task' = [task EXCEPT ![t] = NoTask]
    /\ UNCHANGED <<owner, ses>>

-----------------------------------------------------------------------------
(* Replies *)

\* A datagram from the other side refreshes the session.
Reply(s) ==
    /\ ses[s].loop = "read" /\ ses[s].relay /\ ses[s].idle
    /\ ses' = [ses EXCEPT ![s].idle = FALSE]
    /\ UNCHANGED <<owner, table, task>>

FallsIdle(s) ==
    /\ ses[s].loop = "read" /\ ~ses[s].idle
    /\ ses' = [ses EXCEPT ![s].idle = TRUE]
    /\ UNCHANGED <<owner, table, task>>

\* The upstream closes the control connection of the association it gave us.
watchCtrl(s) ==
    /\ Listener /\ ses[s].relay
    /\ ses' = [ses EXCEPT ![s].relay = FALSE]
    /\ UNCHANGED <<owner, table, task>>

\* Mutant: reads from the target have no deadline.
ReadEndsOnlyClosed(s) ==
    /\ ses[s].loop = "read"
    /\ ~ses[s].relay
    /\ ses' = [ses EXCEPT ![s].loop = "remove"]
    /\ UNCHANGED <<owner, table, task>>

\* The read fails: the socket was closed, or nothing came before the deadline.
ReadEnds(s) ==
    /\ ses[s].loop = "read"
    /\ ~ses[s].relay \/ ses[s].idle
    /\ ses' = [ses EXCEPT ![s].loop = "remove"]
    /\ UNCHANGED <<owner, table, task>>

\* Or it brings a malformed datagram, or its reply cannot be written.
ReadFails(s) ==
    /\ ses[s].loop = "read"
    /\ ses' = [ses EXCEPT ![s].loop = "remove"]
    /\ UNCHANGED <<owner, table, task>>

\* The reply loop removes the key, whichever session it names by now.  The listener
\* takes that one out and closes it after; the association's reader closes its own
\* socket and deletes the key after.
udpReplyLoop(s) ==
    /\ ses[s].loop = "remove"
    /\ IF Listener
       THEN /\ table' = [table EXCEPT ![ses[s].key] = Nil]
            /\ ses' = [ses EXCEPT ![s] = [@ EXCEPT !.loop = "close", !.victim = table[ses[s].key]]]
       ELSE /\ ses' = [ses EXCEPT ![s] = [Closed(@) EXCEPT !.loop = "close"]]
            /\ UNCHANGED table
    /\ UNCHANGED <<owner, task>>

ReplyLoopCloses(s) ==
    /\ ses[s].loop = "close"
    /\ LET done == [ses EXCEPT ![s] = [@ EXCEPT !.loop = "done", !.victim = Nil]]
           v == ses[s].victim
       IN  ses' = IF v = Nil THEN done ELSE [done EXCEPT ![v] = Closed(@)]
    /\ table' = IF Listener THEN table ELSE [table EXCEPT ![ses[s].key] = Nil]
    /\ UNCHANGED <<owner, task>>

\* A session that is closed and forgotten makes room for another.
Forget(s) ==
    /\ ses[s].loop \in {"none", "done"} /\ ses[s] # NoSes /\ ~ses[s].relay /\ ~ses[s].reply
    /\ \A t \in Tasks : task[t].ses # s
    /\ \A u \in Sessions : ses[u].victim # s
    /\ owner.victim # s /\ s \notin owner.closing
    /\ ses' = [ses EXCEPT ![s] = NoSes]
    /\ UNCHANGED <<owner, table, task>>

\* The reaper lists the keys that were idle, then closes what they name.
udpReaper ==
    /\ Listener /\ owner.ctx /\ owner.stale = {} /\ owner.victim = Nil
    /\ \E k \in Keys : table[k] # Nil /\ ses[table[k]].idle
    /\ owner' = [owner EXCEPT !.stale = {k \in Keys : table[k] # Nil /\ ses[table[k]].idle}]
    /\ UNCHANGED <<table, ses, task>>

ReapStale(k) ==
    /\ k \in owner.stale /\ owner.victim = Nil
    /\ owner' = [owner EXCEPT !.stale = @ \ {k}, !.victim = table[k]]
    /\ table' = [table EXCEPT ![k] = Nil]
    /\ UNCHANGED <<ses, task>>

ReaperCloses ==
    /\ owner.victim # Nil
    /\ Close(owner.victim)
    /\ owner' = [owner EXCEPT !.victim = Nil]
    /\ UNCHANGED <<table, task>>

-----------------------------------------------------------------------------
(* The end of the listener and of the association *)

Stop ==
    /\ Listener /\ owner.pc = "open"
    /\ owner' = [owner EXCEPT !.pc = "cancelled", !.ctx = FALSE]
    /\ UNCHANGED <<table, ses, task>>

\* The table is swapped for an empty one, its sessions are closed after that.
stopUDP ==
    /\ Listener /\ owner.pc = "cancelled"
    /\ owner' = [owner EXCEPT !.pc = "over", !.closing = {table[k] : k \in Keys} \ {Nil}]
    /\ table' = [k \in Keys |-> Nil]
    /\ UNCHANGED <<ses, task>>

\* The association begins, and ends with its TCP connection.
handleUDPAssociate ==
    /\ owner' = [owner EXCEPT !.pc = "open"]
    /\ UNCHANGED <<table, ses, task>>

bindClosed ==
    /\ owner' = [owner EXCEPT !.pc = "cancelled"]
    /\ UNCHANGED <<table, ses, task>>

\* The deferred Range of the association closes what is in its map, one by one;
\* the entries stay.
udpRelay ==
    /\ ~Listener /\ owner.pc = "cancelled"
    /\ owner' = [owner EXCEPT !.pc = "over", !.closing = {table[k] : k \in Keys} \ {Nil}]
    /\ UNCHANGED <<table, ses, task>>

CloseOne(s) ==
    /\ s \in owner.closing
    /\ Close(s)
    /\ owner' = [owner EXCEPT !.closing = @ \ {s}]
    /\ UNCHANGED <<table, task>>

-----------------------------------------------------------------------------
TaskStep(t) == newUDPSession(t) \/ SessionFails(t) \/ dispatchUDP(t) \/ Write(t) \/ WriteFailed(t) \/ DeleteKey(t)

LoopStep(s) == ReadEnds(s) \/ udpReplyLoop(s) \/ ReplyLoopCloses(s)

UdpProgress ==
    \/ \E t \in Tasks : TaskStep(t)
    \/ \E s \in Sessions : LoopStep(s) \/ CloseOne(s)
    \/ \E k \in Keys : ReapStale(k)
    \/ udpReaper \/ ReaperCloses \/ stopUDP \/ udpRelay

UdpNext ==
    \/ UdpProgress
    \/ \E t \in Tasks, k \in Keys : Receive(t, k)
    \/ \E s \in Sessions : Reply(s) \/ FallsIdle(s) \/ ReadFails(s) \/ watchCtrl(s) \/ Forget(s)
    \/ Stop

-----------------------------------------------------------------------------
(* Properties *)

Held(s) ==
    \/ \E k \in Keys : table[k] = s
    \/ \E t \in Tasks : task[t].ses = s /\ task[t].pc = "store"
    \/ \E u \in Sessions : ses[u].victim = s
    \/ owner.victim = s \/ s \in owner.closing
    \/ ~Listener /\ ses[s].loop \in {"read", "remove", "close"}

\* Every open socket is in someone's hands who will close it: the table's, a
\* dispatch's, a reply loop's, the reaper's or Stop's.  Nothing enters the listener's
\* table once Stop has emptied it: a dispatch that dialled meanwhile sees the context.
NoOrphanSession ==
    /\ \A s \in Sessions : ses[s].relay \/ ses[s].reply => Held(s)
    /\ Listener /\ owner.pc = "over" => \A k \in Keys : table[k] = Nil

\* A session nobody uses is closed in the end, after the end of its owner as before it:
\* a target stored after the association's last sweep is left to its read deadline.
IdleSessionsEnd ==
    \A s \in Sessions : (ses[s].relay /\ ses[s].loop = "read" /\ ses[s].idle) ~> (~ses[s].relay \/ ~ses[s].idle)

=============================================================================
