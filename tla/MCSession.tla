------------------------------ MODULE MCSession -----------------------------
(* The instances of Session for TLC: two connections of one account, with  *)
(* one player or with two.                                                 *)
EXTENDS Session, TLC

CONSTANTS c1, c2, a1, p1, p2, o1, o2

MCConns2 == {c1, c2}
MCAccounts == {a1}
MCOnePlayer == {p1}
MCPlayers == {p1, p2}
MCOnePlayerOf == p1 :> a1
MCAccountOf == p1 :> a1 @@ p2 :> a1
MCOneObject == {o1}
MCObjects == {o1, o2}

\* Connections and objects are told apart by nothing but their names.
MCSymmetry == Permutations(Conns) \cup Permutations(Objects)
=============================================================================
