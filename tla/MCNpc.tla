-------------------------------- MODULE MCNpc --------------------------------
(* A tree of two branches: go somewhere (not too often) and wait there (once  *)
(* a fight), as long as a condition holds; else go to the target, which is    *)
(* forced to succeed, and chase it.                                           *)
EXTENDS Npc, TLC

CONSTANTS root, patrol, fight, go, pause, reach, pursue, calm, force, place

MCNodes == {root, patrol, fight, go, pause, reach, pursue}
MCKind == root :> "Selector" @@ patrol :> "Sequence" @@ fight :> "Sequence"
            @@ go :> "MoveTo" @@ pause :> "Wait" @@ reach :> "Approach"
            @@ pursue :> "Chase"
MCChildren == root :> <<patrol, fight>> @@ patrol :> <<go, pause>>
                @@ fight :> <<reach, pursue>>
MCDecorators == [n \in MCNodes |-> CASE n = patrol -> <<calm>>
                                     [] n = reach -> <<force>>
                                     [] OTHER -> <<>>]
MCDecoType == calm :> "IfCheck" @@ force :> "NodeSetting"
MCAbortType == calm :> "LowerPriority" @@ force :> "None"
MCInverse == calm :> FALSE @@ force :> FALSE
MCTasks == {go, pause, reach, pursue}
MCExcuteLimit == [t \in MCTasks |-> IF t = pause THEN 1 ELSE 0]
MCLimitReturn == [t \in MCTasks |-> t = pause]
MCCoolTime == [t \in MCTasks |-> t = go]
MCTokens == {place}
=============================================================================
