----------------------------- MODULE MCRouting -----------------------------
EXTENDS Routing

\* Two sets sharing an interface, on different ones, one of them moved, proxied,
\* blocked or switched off.
MCSetSeq == <<"s1", "s2">>

MCConfigs ==
    {c \in [{"s1", "s2"} -> {"off", "i1", "i2", "proxy", "block"}] :
        <<c["s1"], c["s2"]>> \in {<<"i1", "i1">>, <<"i2", "i1">>, <<"i1", "i2">>,
                                  <<"proxy", "proxy">>, <<"block", "off">>}}

\* Both sets start out through i1, or s1 through i2; i1 is present or not yet, i2 absent.
MCStartup == {c \in MCConfigs : c["s2"] = "i1"} \X {{}, {"i1"}}

\* The names of both interfaces hash to the same slot, and s2 pins for i2 the slot that
\* the second of them is given.
MCHashOf == [i \in {"i1", "i2"} |-> 1]

MCPin == [s \in {"s1", "s2"} |-> [i \in {"i1", "i2"} |->
             IF s = "s2" /\ i = "i2" THEN 2 ELSE 0]]

MCProxyMark == [s \in {"s1", "s2"} |-> s]
=============================================================================
