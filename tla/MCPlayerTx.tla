------------------------------ MODULE MCPlayerTx ------------------------------
(* One connection shows what the gate guarantees; a second one, or cheats,  *)
(* show what goes round it.                                                 *)
EXTENDS PlayerTx, TLC

CONSTANTS bag, quest

MCObjects == {bag, quest}
MCOneObject == {bag}
MCSymmetry == Permutations(MCObjects)
=============================================================================
