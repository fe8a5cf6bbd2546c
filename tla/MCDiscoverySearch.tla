-------------------------- MODULE MCDiscoverySearch -------------------------
(* A TLC instance of DiscoverySearch: two families, fake (optimised by a   *)
(* search) and frag (by presets), with one preset of each in phase 1.      *)
EXTENDS DiscoverySearch, TLC

CONSTANTS d1, d2

FakeOne   == <<"baseline", "fake">>
FragOne   == <<"baseline", "frag">>
FragTwo   == <<"optimization", "frag-2">>
FragThree == <<"optimization", "frag-3">>
CacheOne  == <<"cached", "1">>
Aggressive == <<"combination", "aggressive">>

Cache    == <<CacheOne>>
Strategy == <<FakeOne, FragOne>>
Variants == ("fake" :> <<>> @@ "frag" :> <<FragTwo, FragThree>>)
Wide     == <<FragTwo, FragThree>>
Combos   == <<Aggressive>>
Families2 == {"fake", "frag"}
Orders   == {<<FragOne, FakeOne>>}
FamilyMap ==
  [p \in Names |->
     IF p \in {FakeOne, Optimized("fake")} THEN "fake"
     ELSE IF p \in {FragOne, FragTwo, FragThree, CacheOne, Optimized("frag")} THEN "frag"
     ELSE "none"]
=============================================================================
