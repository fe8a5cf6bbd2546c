------------------------------ MODULE MCTun ---------------------------------
(* Two uplinks; each setting has the events it is checked with. *)
EXTENDS Tun

Left(moves, readdr, wipes, kills, fails, starts, sts) ==
    [moves |-> moves, readdr |-> readdr, wipes |-> wipes, kills |-> kills, fails |-> fails,
     starts |-> starts, sets |-> sts]

Setting(capture, metric, prints, pin, skip, filter, l) ==
    [capture |-> capture, metric |-> metric, prints |-> prints, pin |-> pin, skip |-> skip,
     filter |-> filter, left |-> l]

MCSettings ==
    { \* the uplink moves and changes its address under a port capture
      Setting("ports", 0, FALSE, None, FALSE, FALSE, Left(2, 1, 0, 0, 0, 2, 0)),
      Setting("ports", 1, TRUE, None, FALSE, TRUE, Left(2, 1, 0, 0, 1, 1, 0)),
      \* flushes, failures and restarts
      Setting("ports", 0, TRUE, None, FALSE, FALSE, Left(1, 0, 1, 0, 1, 2, 1)),
      Setting("ports", 0, FALSE, "wan1", FALSE, FALSE, Left(1, 1, 1, 0, 1, 1, 0)),
      \* kills
      Setting("ports", 0, TRUE, None, FALSE, TRUE, Left(1, 0, 0, 2, 1, 3, 0)),
      Setting("default", 0, TRUE, None, FALSE, FALSE, Left(1, 0, 1, 2, 0, 3, 0)),
      Setting("default", 1, TRUE, None, FALSE, FALSE, Left(2, 0, 0, 1, 1, 2, 0)),
      Setting("default", 0, FALSE, "wan1", FALSE, FALSE, Left(1, 1, 0, 1, 1, 2, 0)),
      Setting("default", 0, FALSE, None, TRUE, FALSE, Left(1, 1, 0, 1, 1, 2, 0)) }

=============================================================================
