------------------------------- MODULE MCQuest -------------------------------
(* Two chains of two quests and one alone: rewards that another quest waits  *)
(* for, so that completing one moves another, two quests that may complete   *)
(* one after the other before either has listed its followers, and a         *)
(* delivery with nothing else to do.                                         *)
EXTENDS Quest

CONSTANTS greet, wave, fetch, talk, deliver, apple

MCQuests == {greet, wave, fetch, talk, deliver}
MCItems == {apple}
MCPrevQuest == [q \in MCQuests |-> CASE q = talk -> greet
                                     [] q = deliver -> fetch
                                     [] OTHER -> NoQuest]
Acquire(n) == [type |-> "ItemAcquire", item |-> apple, count |-> n]
Delivery(n) == [type |-> "NpcInteractionByDelivery", item |-> apple, count |-> n]
MCConditions == [q \in MCQuests |-> CASE q = fetch -> <<Acquire(0), Delivery(1)>>
                                      [] q = deliver -> <<Delivery(1)>>
                                      [] OTHER -> <<>>]
MCCommanded == {talk}
MCAutoStart == {greet, wave, deliver}
MCRewards == [q \in MCQuests |-> IF q \in {greet, talk} THEN {apple} ELSE {}]
=============================================================================
