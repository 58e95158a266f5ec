------------------------------- MODULE MCItems -------------------------------
(* Two partly filled stacks and a thing that does not stack; groups that fill *)
(* both stacks and open others, and that grant the same info twice.           *)
EXTENDS Items

CONSTANTS apple, sword

MCInfos == {apple, sword}
MCAccumMax == [i \in MCInfos |-> IF i = apple THEN 3 ELSE 1]
MCStart == <<<<apple, 2>>, <<sword, 1>>, <<apple, 1>>>>
MCGroups == {<<<<apple, 2>>>>, <<<<sword, 2>>>>, <<<<apple, 1>>, <<apple, 4>>>>}
=============================================================================
