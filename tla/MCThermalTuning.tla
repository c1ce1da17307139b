---- MODULE MCThermalTuning ----
(* Two targets, the second pruned unless the first was accepted, and a run of *)
(* the second alone.                                                          *)
EXTENDS ThermalTuning

MCOrder == <<1, 2>>
MCBounds == [t \in {1, 2} |-> IF t = 1 THEN {} ELSE {1}]
MCScopes == {<<1, 2>>, <<2>>}
====
