------------------------------- MODULE Proxies -------------------------------
(* The TCP and the UDP side together: a SOCKS5 association lives as long as  *)
(* the connection that asked for it.                                         *)
EXTENDS ProxyConns, UdpRelays

Associated(f) == \E c \in Conns : f[c].pc = "associate"

\* A step of the TCP side, with what it does to an association.
ConnStep ==
    /\ Next
    /\ IF ~Associated(conn) /\ Associated(conn') /\ owner.kind = "socks5" /\ owner.pc = "none" THEN handleUDPAssociate
       ELSE IF Associated(conn) /\ ~Associated(conn') /\ owner.kind = "socks5" /\ owner.pc = "open" THEN bindClosed
       ELSE UNCHANGED uvars

ProxiesInit == Init /\ UdpInit(set.udp, set.datagrams)

ProxiesNext == ConnStep \/ (UdpNext /\ UNCHANGED vars)

ProxiesSpec ==
    /\ ProxiesInit /\ [][ProxiesNext]_<<vars, uvars>>
    /\ Fairness
    /\ WF_uvars(owner.kind # "none" /\ UdpProgress)

=============================================================================
