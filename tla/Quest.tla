------------------------------- MODULE Quest -------------------------------
(***************************************************************************)
(* The quests of one player: QuestComponent's two maps, their rows, the    *)
(* handlers that start, cancel and complete quests and report what the     *)
(* player did, the delegates the component listens to, and the CacheTx     *)
(* transactions in between.  A CacheTx is what UnitOfWork promises: its    *)
(* rows change together, then its objects, then its callback runs.  The    *)
(* gate is the busy state of PlayerTx with one connection.                 *)
(*                                                                         *)
(* Data: an item is its info id and the bag a number of each; a reward is  *)
(* a set of items, one of each; the Npc of a delivery is named by its item.*)
(***************************************************************************)
EXTENDS Naturals, Sequences, FiniteSets

CONSTANTS
    Quests,         \* quest info ids
    Items,          \* item info ids
    NoQuest,
    PrevQuest,      \* QuestInfo::getPrevQuest, or NoQuest
    Conditions,     \* QuestInfo::getClearConditionDatas: [type, item, count]
    AutoStart,      \* quests whose QuestInfo::getIsAutoStart is set
    Rewards,        \* the items of QuestInfo::getRewardInfoGroup
    MaxItems,       \* bound on the items of a kind in the bag
    MaxCount,       \* bound on a task count
    Commanded,      \* the quests chat commands name
    MaxCommands     \* bound on chat commands, zero when cheats are disabled

EIfCondition == {"ItemAcquire", "NpcInteractionByDelivery", "TriggerEnter",
                 "KillMonster", "ItemEquip"}

ASSUME QuestAssumption ==
    /\ NoQuest \notin Quests
    /\ PrevQuest \in [Quests -> Quests \cup {NoQuest}]
    /\ Conditions \in
          [Quests -> Seq([type : EIfCondition, item : Items, count : Nat])]
    /\ AutoStart \subseteq Quests
    /\ Rewards \in [Quests -> SUBSET Items]
    /\ MaxItems \in Nat /\ MaxCount \in Nat /\ MaxCommands \in Nat
    /\ Commanded \subseteq Quests

VARIABLES
    inRoom,     \* the player is loaded and beginPlay has run
    quests,     \* _quests: state and task counts, or Absent
    completes,  \* the keys of _questCompletes
    checkIfs,   \* _checkIfs
    handles,    \* valid handles in the player's delegate of each condition
    bag,        \* items in the inventory
    rows,       \* the quest rows of the player
    bagRows,    \* its item rows
    txs,        \* CacheTx objects and queued callbacks
    paid,       \* history: rewards committed for each quest, up to two
    skipped,    \* history: quests cancelled or not stored since last enabled
    cheated,    \* history: quests a chat command put into a transaction
    commands    \* history: number of commands that did

memVars == <<quests, completes, checkIfs, handles, bag>>
dbVars == <<rows, bagRows, paid>>
cheatVars == <<cheated, commands>>
vars == <<inRoom, memVars, dbVars, txs, skipped, cheatVars>>

Absent == [state |-> "none", count |-> <<0, 0>>]
Fresh(state) == [state |-> state, count |-> <<0, 0>>]

findQuest(q) == quests[q] # Absent

Nothing == [q \in Quests |-> Absent]
Silent == [type \in EIfCondition |-> 0]

Init ==
    /\ inRoom = FALSE
    /\ quests = Nothing /\ completes = {}
    /\ checkIfs = {} /\ handles = Silent
    /\ bag = [i \in Items |-> 0]
    /\ rows = Nothing
    /\ bagRows \in [Items -> 0..MaxItems]
    /\ txs = {}
    /\ paid = [q \in Quests |-> 0]
    /\ skipped = {} /\ cheated = {} /\ commands = 0

-----------------------------------------------------------------------------
(* The delegates.                                                          *)

\* The conditions some quest of _quests has, whatever its state.
NextIfs(some) ==
    UNION {{Conditions[q][i].type : i \in DOMAIN Conditions[q]} :
              q \in {p \in Quests : some[p] # Absent}}

\* getTriggerEnterDelegate returns a copy, and the switches of
\* _validateDelegate name no other condition.
Heard == {"ItemAcquire", "NpcInteractionByDelivery"}

\* Mutant of validateDelegate: a type that is left keeps its handle.
validateDelegateKept(some) ==
    LET nextIfs == NextIfs(some) IN
    /\ checkIfs' = nextIfs
    /\ handles' = [type \in EIfCondition |->
          IF type \notin Heard THEN handles[type]
          ELSE handles[type] + IF type \in nextIfs \ checkIfs THEN 1 ELSE 0]

validateDelegate(some) ==
    LET nextIfs == NextIfs(some) IN
    /\ checkIfs' = nextIfs
    /\ handles' = [type \in EIfCondition |->
          IF type \notin Heard THEN handles[type]
          ELSE handles[type] + (IF type \in nextIfs \ checkIfs THEN 1 ELSE 0)
                             - (IF type \in checkIfs \ nextIfs THEN 1 ELSE 0)]

-----------------------------------------------------------------------------
(* Loading.                                                                *)

StartState(q) == IF Conditions[q] = <<>> THEN "Completable" ELSE "Progressing"

NewQuest(q) == Fresh(IF q \in AutoStart THEN StartState(q) ELSE "Available")

\* Mutant of Enabled: the previous quest is not looked at.
EnabledAny(some, done) == {q \in Quests : q \notin done /\ some[q] = Absent}

\* Quests _validateEnableQuest makes new: the previous one is completed, and
\* the quest itself is in neither map.
Enabled(some, done) ==
    {q \in Quests : /\ PrevQuest[q] \in done \cup {NoQuest}
                    /\ q \notin done
                    /\ some[q] = Absent}

\* What initializeDB puts into _quests; completed rows go to _questCompletes.
initializeDB == [q \in Quests |-> IF rows[q].state = "Completed" THEN Absent
                                                                 ELSE rows[q]]

DoneRows == {q \in Quests : rows[q].state = "Completed"}

New == Enabled(initializeDB, DoneRows)

\* Listed quests of an earlier data version that have no conditions any more.
Outdated == {q \in Quests : /\ PrevQuest[q] \in DoneRows \cup {NoQuest}
                        /\ initializeDB[q].state = "Progressing"
                        /\ Conditions[q] = <<>>}

\* _quests after _validateEnableQuest.  An insert or an update that fails is
\* logged and passed over.
initializeDBPost(failed) ==
    [q \in Quests |->
        IF q \in New \ failed THEN NewQuest(q)
        ELSE IF q \in Outdated
             THEN [initializeDB[q] EXCEPT !.state = "Completable"]
             ELSE initializeDB[q]]

beginPlay(some) == validateDelegate(some)

\* The load of the player, and the room it enters.
load(failed) ==
    LET loaded == initializeDBPost(failed) IN
    /\ ~inRoom
    /\ failed \subseteq New \cup Outdated
    /\ inRoom' = TRUE
    /\ completes' = DoneRows
    /\ quests' = loaded
    /\ rows' = [q \in Quests |-> IF q \in (New \cup Outdated) \ failed
                                 THEN loaded[q] ELSE rows[q]]
    /\ bag' = bagRows
    /\ beginPlay(loaded)
    /\ skipped' = New \cap failed
    /\ UNCHANGED <<bagRows, paid, txs, cheatVars>>

\* The player leaves the server: QuestComponent::finalize.  Its transactions
\* have ended, though nothing in the code waits for them.
unload ==
    /\ inRoom /\ txs = {}
    /\ inRoom' = FALSE
    /\ quests' = Nothing /\ completes' = {}
    /\ checkIfs' = {} /\ handles' = Silent
    /\ bag' = [i \in Items |-> 0]
    /\ UNCHANGED <<dbVars, txs, skipped, cheatVars>>

\* The server stops, and every transaction the database did not commit.
crash ==
    /\ inRoom
    /\ inRoom' = FALSE
    /\ quests' = Nothing /\ completes' = {}
    /\ checkIfs' = {} /\ handles' = Silent
    /\ bag' = [i \in Items |-> 0]
    /\ txs' = {}
    /\ UNCHANGED <<dbVars, skipped, cheatVars>>

-----------------------------------------------------------------------------
(* What the player did, as _onTaskUpdate counts it.                        *)

Has(cond) ==
    IF cond.type = "ItemAcquire" THEN cond.count < bag[cond.item]
                                 ELSE cond.count <= bag[cond.item]

\* The conditions of q the event counts for.
Hits(q, type, items) ==
    {i \in DOMAIN Conditions[q] :
        LET cond == Conditions[q][i] IN
        cond.type = type /\ cond.item \in items /\ Has(cond)}

\* A quest becomes Completable when the conditions the event hit are done,
\* whatever its others say.  A row has two task counts.
Updated(q, hits, done) ==
    [state |-> IF done THEN "Completable" ELSE quests[q].state,
     count |-> [i \in 1..2 |-> quests[q].count[i] + IF i \in hits THEN 1 ELSE 0]]

\* The copies one event puts into a CacheTx.
onTaskUpdate(type, items, done) ==
    [q \in {p \in Quests : quests[p].state = "Progressing"
                               /\ Hits(p, type, items) # {}} |->
        [crud |-> "Update", rec |-> Updated(q, Hits(q, type, items), done)]]

NoCopies == [q \in {} |-> Absent]

\* The player's delegate of a condition, on the room's thread.
broadcast(type, copies) == IF handles[type] > 0 THEN copies ELSE NoCopies

\* No completion check: any hit completes the quest.
onItemAcquire(items) ==
    broadcast("ItemAcquire", onTaskUpdate("ItemAcquire", items, TRUE))

\* deleteItem(cacheTx, (PktInfoId)id, ...) is the overload that takes the id of
\* an item object; it finds no object of that id and returns false.
DeleteItemByInfoId == FALSE

onInteractionNpc(item) ==
    broadcast("NpcInteractionByDelivery",
              onTaskUpdate("NpcInteractionByDelivery", {item}, DeleteItemByInfoId))

-----------------------------------------------------------------------------
(* The handlers, on the room thread, behind the busy gate.                 *)

Busy == \E t \in txs : t.gate

\* CacheTx::run with these copies and items, holding the gate or not.
run(kind, q, copies, items, gate, others) ==
    LET id == CHOOSE n \in 0..Cardinality(others) : \A t \in others : t.id # n IN
    txs' = others \cup {[id |-> id, kind |-> kind, quest |-> q,
                         copies |-> copies, items |-> items,
                         stage |-> "db", gate |-> gate]}

begin(kind, q, copies, items, others) == run(kind, q, copies, items, TRUE, others)

Copy(q, crud, rec) == [p \in {q} |-> [crud |-> crud, rec |-> rec]]

isStartEnable(q) == quests[q].state = "Available"
isCompleteEnable(q) == quests[q].state = "Completable"

startQuest(q) == Copy(q, "Update", [quests[q] EXCEPT !.state = StartState(q)])
insertQuest(q) == Copy(q, "Insert", Fresh(StartState(q)))

startReq(q) ==
    /\ inRoom /\ ~Busy
    /\ isStartEnable(q)
    /\ begin("start", q, startQuest(q), {}, txs)
    /\ UNCHANGED <<inRoom, memVars, dbVars, skipped, cheatVars>>

cancelReq(q) ==
    /\ inRoom /\ ~Busy
    /\ findQuest(q)
    /\ begin("cancel", q, Copy(q, "Delete", quests[q]), {}, txs)
    /\ UNCHANGED <<inRoom, memVars, dbVars, skipped, cheatVars>>

\* The copies of a completion: the quest's own, and those of the quests that
\* its reward, whose acquisition is itself an event, moves on.
completeQuest(q) ==
    LET own == Copy(q, "Update", [quests[q] EXCEPT !.state = "Completed"]) IN
    [p \in {q} \cup DOMAIN onItemAcquire(Rewards[q]) |->
        IF p = q THEN own[q] ELSE onItemAcquire(Rewards[q])[p]]

\* RewardProcess: the bag has room for what it adds.
Room(items) == \A i \in items : bag[i] < MaxItems

completion(q) == begin("complete", q, completeQuest(q), Rewards[q], txs)

\* Mutant of completeReq: isCompleteEnable asks only whether it is listed.
completeReqAny(q) ==
    /\ inRoom /\ ~Busy
    /\ findQuest(q)
    /\ Room(Rewards[q])
    /\ completion(q)
    /\ UNCHANGED <<inRoom, memVars, dbVars, skipped, cheatVars>>

completeReq(q) ==
    /\ inRoom /\ ~Busy
    /\ isCompleteEnable(q)
    /\ Room(Rewards[q])
    /\ completion(q)
    /\ UNCHANGED <<inRoom, memVars, dbVars, skipped, cheatVars>>

interactReq(q, item) ==
    /\ inRoom /\ ~Busy
    /\ findQuest(q)
    /\ \A p \in DOMAIN onInteractionNpc(item) :
          \A i \in 1..2 : quests[p].count[i] < MaxCount
    /\ begin("interact", q, onInteractionNpc(item), {}, txs)
    /\ UNCHANGED <<inRoom, memVars, dbVars, skipped, cheatVars>>

-----------------------------------------------------------------------------
(* The chat commands, on the same thread, past the busy gate: their         *)
(* transactions run beside those of the handlers.                          *)

\* CheatManager::handleChat with cheats enabled; a command ends in a CacheTx
\* or changes nothing.
command(kind, q, copies, items, gate) ==
    /\ inRoom
    /\ commands < MaxCommands
    /\ commands' = commands + 1
    /\ cheated' = cheated \cup DOMAIN copies
    /\ run(kind, q, copies, items, gate, txs)
    /\ UNCHANGED <<inRoom, memVars, dbVars, skipped>>

\* quest start: of any quest that is not listed, whatever comes before it.
cheatStart(q) ==
    /\ ~findQuest(q)
    /\ command("cheat", q, insertQuest(q), {}, FALSE)

\* quest comp: it holds the gate and did not ask for it.
cheatComp(q) ==
    /\ isCompleteEnable(q)
    /\ Room(Rewards[q])
    /\ command("complete", q, completeQuest(q), Rewards[q], TRUE)

\* quest add: completed without its reward.
cheatAdd(q) ==
    /\ findQuest(q)
    /\ command("cheat", q,
               Copy(q, "Update", [quests[q] EXCEPT !.state = "Completed"]), {}, FALSE)

\* quest del
cheatDel(q) ==
    /\ findQuest(q)
    /\ command("cheat", q,
               Copy(q, "Update", [quests[q] EXCEPT !.state = "Completable"]), {}, FALSE)

cheatQuest(q) ==
    cheatStart(q) \/ cheatComp(q) \/ cheatAdd(q) \/ cheatDel(q)

\* reward drop
cheatDrop(items) ==
    /\ Room(items)
    /\ command("cheat", NoQuest, onItemAcquire(items), items, FALSE)

chatReq ==
    \/ \E q \in Commanded : cheatQuest(q)
    \/ \E items \in SUBSET Items \ {{}} : cheatDrop(items)

-----------------------------------------------------------------------------
(* The transactions.                                                       *)

\* A row has the key (owner, info id): the insert of one that exists fails.
Conflict(t) ==
    \E q \in DOMAIN t.copies :
        t.copies[q].crud = "Insert" /\ rows[q] # Absent

At(t, stage) == (txs \ {t}) \cup {[t EXCEPT !.stage = stage]}

Stored(t, q) ==
    IF t.copies[q].crud = "Delete" \/ (t.copies[q].crud = "Update" /\ rows[q] = Absent)
    THEN Absent ELSE t.copies[q].rec

dbCommit(t) ==
    /\ t.stage = "db"
    /\ ~Conflict(t)
    /\ rows' = [q \in Quests |->
                   IF q \in DOMAIN t.copies THEN Stored(t, q) ELSE rows[q]]
    /\ bagRows' = [i \in Items |->
                      bagRows[i] + IF i \in t.items THEN 1 ELSE 0]
    /\ paid' = [q \in Quests |->
                   IF t.kind = "complete" /\ t.quest = q /\ paid[q] < 2
                   THEN paid[q] + 1 ELSE paid[q]]
    /\ txs' = At(t, "ok")
    /\ UNCHANGED <<inRoom, memVars, skipped, cheatVars>>

\* The quests of a refused batch that nobody else has inserted.
Missed(t) ==
    IF t.kind = "chain" THEN {q \in DOMAIN t.copies : rows[q] = Absent} ELSE {}

\* The statements fail; the failure callback only answers.
dbFail(t) ==
    /\ t.stage = "db"
    /\ txs' = txs \ {t}
    /\ skipped' = skipped \cup Missed(t)
    /\ UNCHANGED <<inRoom, memVars, dbVars, cheatVars>>

\* Mutant of Finished: a quest whose copy is completed stays listed.
FinishedNever(t) == {}

\* The quests Quest::applyCache moves to _questCompletes.
Finished(t) ==
    {q \in DOMAIN t.copies : /\ t.copies[q].crud = "Update"
                             /\ quests[q].state = "Completable"
                             /\ t.copies[q].rec.state = "Completed"}

\* QuestComponent::insertQuest in memory: a map keeps what it has.
Inserted(q, rec) == IF findQuest(q) THEN quests[q] ELSE rec

\* QuestComponent::insertCompletedQuest
Completed(t) == completes \cup Finished(t)

\* Quest::applyCache and copyMember, which reaches an origin whether or not a
\* map holds it.
Applied(t, q) ==
    LET copy == t.copies[q] IN
    CASE copy.crud = "Delete" \/ q \in Finished(t) -> Absent
      [] copy.crud = "Insert" -> Inserted(q, copy.rec)
      [] copy.crud = "Update" /\ ~findQuest(q) -> Absent
      [] OTHER -> copy.rec

\* CacheTx::_runPost on the room thread.  The CacheTx ends here, except that
\* of a completion, which may end before its success callback or after.
writeBack(t) ==
    LET written == [q \in Quests |-> IF q \in DOMAIN t.copies
                                     THEN Applied(t, q) ELSE quests[q]]
        moved == Finished(t) \cup
                    {q \in DOMAIN t.copies : t.copies[q].crud # "Update"}
        Copied(crud) == {q \in DOMAIN t.copies : t.copies[q].crud = crud} IN
    /\ t.stage = "ok"
    /\ quests' = written
    /\ completes' = Completed(t)
    /\ IF moved = {} THEN UNCHANGED <<checkIfs, handles>>
                     ELSE validateDelegate(written)
    /\ bag' = [i \in Items |-> bag[i] + IF i \in t.items THEN 1 ELSE 0]
    /\ txs' = IF t.kind = "complete" THEN At(t, "written") ELSE txs \ {t}
    /\ skipped' = (skipped \ Copied("Insert")) \cup Copied("Delete")
    /\ UNCHANGED <<inRoom, dbVars, cheatVars>>

endTx(t) ==
    /\ t.stage \in {"written", "told"} /\ t.gate
    /\ txs' = (txs \ {t}) \cup
                 IF t.stage = "told" THEN {} ELSE {[t EXCEPT !.gate = FALSE]}
    /\ UNCHANGED <<inRoom, memVars, dbVars, skipped, cheatVars>>

\* Mutant of chain: nothing is listed while another transaction is alive.
chainAlone(t) ==
    LET enabled == Enabled(quests, completes)
        copies == [q \in enabled |-> [crud |-> "Insert", rec |-> NewQuest(q)]]
        others == (txs \ {t}) \cup
                     IF t.gate THEN {[t EXCEPT !.stage = "told"]} ELSE {} IN
    /\ t.stage = "written"
    /\ IF enabled = {} \/ txs # {t} THEN txs' = others
       ELSE begin("chain", t.quest, copies, {}, others)
    /\ UNCHANGED <<inRoom, memVars, dbVars, skipped, cheatVars>>

\* The success callback of a completion: onQuestComplete lists what became
\* enabled and, if it is anything, inserts it by a CacheTx of its own.
chain(t) ==
    LET enabled == Enabled(quests, completes)
        copies == [q \in enabled |-> [crud |-> "Insert", rec |-> NewQuest(q)]]
        others == (txs \ {t}) \cup
                     IF t.gate THEN {[t EXCEPT !.stage = "told"]} ELSE {} IN
    /\ t.stage = "written"
    /\ IF enabled = {} THEN txs' = others
                       ELSE begin("chain", t.quest, copies, {}, others)
    /\ UNCHANGED <<inRoom, memVars, dbVars, skipped, cheatVars>>

-----------------------------------------------------------------------------
Player ==
    \/ \E failed \in SUBSET Quests : load(failed)
    \/ unload \/ crash
    \/ \E q \in Quests : startReq(q) \/ cancelReq(q) \/ completeReq(q)
    \/ \E q \in Quests, item \in Items : interactReq(q, item)
    \/ chatReq

Transactions ==
    \E t \in txs : dbCommit(t) \/ dbFail(t) \/ writeBack(t) \/ endTx(t) \/ chain(t)

Next == Player \/ Transactions

Spec == Init /\ [][Next]_vars

FairSpec == Spec /\ WF_vars(Transactions)

-----------------------------------------------------------------------------
Quiet == inRoom /\ txs = {}

\* The quests no chat command touched, nor the one before them.
Untouched == {q \in Quests : q \notin cheated /\ PrevQuest[q] \notin cheated}

\* A quest pays its reward once, across requests that arrive while a
\* completion is committed, failures, restarts, the moment between the end
\* of its CacheTx and its callback, and ungated commands on other quests.
RewardedOnce == \A q \in Untouched : paid[q] <= 1

\* Between transactions the two maps hold what the database holds: a quest is
\* in _questCompletes exactly when its row is completed, and otherwise _quests
\* has its row's state and counts.
MemoryIsRows ==
    Quiet => /\ \A q \in Untouched :
                   IF rows[q].state = "Completed"
                   THEN q \in completes /\ quests[q] = Absent
                   ELSE q \notin completes /\ quests[q] = rows[q]
             /\ bag = bagRows

\* A player has a quest only if he completed the one before it, at every
\* moment a crash may leave the rows in.
PrevFirst ==
    \A q \in Untouched :
        rows[q] # Absent /\ PrevQuest[q] # NoQuest
            => rows[PrevQuest[q]].state = "Completed"

\* Completing a quest leaves no follower unlisted once its transactions end:
\* one that two completions insert is listed although the database refuses the
\* second of these batches.  What the player cancelled may be missing, and what
\* a refused batch has beside the quests already inserted by another; the next
\* completion or load finds it.
FollowersListed ==
    Quiet => Enabled(quests, completes) \cap Untouched \subseteq skipped

\* The component listens once to an event some listed quest waits for and to
\* no other, through every start, completion, insertion and cancel: an event
\* is neither counted twice nor missed.
ListensExactly ==
    inRoom => \A type \in Heard :
                 handles[type] = IF type \in NextIfs(quests) THEN 1 ELSE 0

=============================================================================
