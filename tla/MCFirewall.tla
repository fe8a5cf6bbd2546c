----------------------------- MODULE MCFirewall -----------------------------
(* Two configurations for each engine that differ in the mark, devices, masquerading, *)
(* duplication and clamps.                                                            *)
EXTENDS Firewall

Plain == [engine |-> "ipt", mark |-> "m1", connmark |-> TRUE, dev |-> "off", masq |-> FALSE,
          dup |-> FALSE, mss |-> {"global"}]

Full == [engine |-> "ipt", mark |-> "m2", connmark |-> TRUE, dev |-> "black", masq |-> TRUE,
         dup |-> TRUE, mss |-> {"set"}]

MCSettings ==
    [plain |-> Plain, full |-> Full,
     nftplain |-> [Plain EXCEPT !.engine = "nft", !.dev = "white", !.dup = TRUE],
     nftfull |-> [Full EXCEPT !.engine = "nft"]]

\* A change within each engine that is refreshed, one of the engine that is refreshed and
\* one of engine, devices and duplication that is not.
MCSaves ==
    {<<"full", "plain">>, <<"nftfull", "nftplain">>, <<"full", "nftplain">>, <<"plain", "nftplain">>}
=============================================================================
