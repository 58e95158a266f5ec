------------------------------- MODULE Items -------------------------------
(***************************************************************************)
(* The inventory of one player: Bag's stacks, their rows, the handlers and *)
(* cheats that grant, use and equip items through a CacheTx, and what the  *)
(* notifies tell the client.  A CacheTx is what UnitOfWork promises: its   *)
(* rows change together, then its objects, then its callback runs.         *)
(*                                                                         *)
(* Data: an item is its info id and its accum; the bags of the inventory   *)
(* types are one, since an info has one type; item ids grow, as map order  *)
(* is what the code visits stacks in.                                      *)
(***************************************************************************)
EXTENDS Integers, Sequences, FiniteSets, SequencesExt

CONSTANTS
    Infos,      \* item info ids
    AccumMax,   \* max(ItemInfo::getAccumMax, 1)
    Start,      \* the items of the player: <<info, accum>> by id
    Groups,     \* reward groups: sequences of <<info, count>>
    MaxId,      \* bound on the item ids made
    MaxTx       \* bound on the transactions started

ASSUME ItemsAssumption ==
    /\ AccumMax \in [Infos -> Nat \ {0}]
    /\ Start \in Seq(Infos \X (Nat \ {0}))
    /\ \A i \in DOMAIN Start : Start[i][2] <= AccumMax[Start[i][1]]
    /\ Groups \subseteq Seq(Infos \X (Nat \ {0}))
    /\ MaxId \in Nat /\ Len(Start) <= MaxId /\ MaxTx \in Nat

VARIABLES
    inRoom,     \* the player is loaded
    inven,      \* Bag::_items: id -> [info, accum]
    equips,     \* the items of EquipComponent::_equips
    client,     \* what the client was told of the inventory
    rows,       \* item rows: id -> [info, accum, owned]; owned: ownerId is not 0
    equipRows,  \* the items of the equipment rows
    txs,        \* CacheTx objects alive
    used,       \* ids made so far
    started,    \* transactions started so far
    balance,    \* history: what was granted less what was used, by info
    beside      \* history: a cheat's transaction ran beside another

memVars == <<inRoom, inven, equips, client>>
dbVars == <<rows, equipRows, balance>>
vars == <<memVars, dbVars, txs, used, started, beside>>

Ids == 1..MaxId
NoItems == [id \in {} |-> 0]

\* The values of f, and those of g where f has none.
Over(f, g) ==
    [x \in DOMAIN f \cup DOMAIN g |-> IF x \in DOMAIN f THEN f[x] ELSE g[x]]

\* A map with one value.
Only(id, x) == [n \in {id} |-> x]

\* The items of an info in what maps ids to items.
Amount(items, info) ==
    SumFunctionOnSet([id \in DOMAIN items |-> items[id].accum],
                     {id \in DOMAIN items : items[id].info = info})

Init ==
    /\ inRoom = FALSE
    /\ inven = NoItems /\ equips = {} /\ client = NoItems
    /\ rows = [id \in DOMAIN Start |->
                  [info |-> Start[id][1], accum |-> Start[id][2], owned |-> TRUE]]
    /\ equipRows = {}
    /\ txs = {}
    /\ used = Len(Start) /\ started = 0
    /\ balance = [i \in Infos |-> Amount(rows, i)]
    /\ beside = FALSE

-----------------------------------------------------------------------------
(* Loading and leaving.                                                    *)

\* SelectListByOwnerId: the rows the player still owns.
_initByList ==
    [id \in {n \in DOMAIN rows : rows[n].owned} |->
        [info |-> rows[id].info, accum |-> rows[id].accum]]

\* What a client is told of an item.
exportItem(item) == [info |-> item.info, accum |-> item.accum]

exportTo(items) == [id \in DOMAIN items |-> exportItem(items[id])]

\* initializeDB of both components; the client is sent the inventory.
load ==
    /\ ~inRoom
    /\ inRoom' = TRUE
    /\ inven' = _initByList /\ client' = exportTo(_initByList)
    /\ equips' = equipRows
    /\ UNCHANGED <<dbVars, txs, used, started, beside>>

\* The player leaves without transactions, or the server stops.
unload ==
    /\ inRoom
    /\ inRoom' = FALSE
    /\ inven' = NoItems /\ client' = NoItems /\ equips' = {}
    /\ txs' = {}
    /\ UNCHANGED <<dbVars, used, started, beside>>

-----------------------------------------------------------------------------
(* What a handler puts into its CacheTx: clones by id, what the notify     *)
(* says of them, and the ids made.                                         *)

Empty == [copies |-> NoItems, note |-> NoItems, used |-> used, left |-> 0]

Item(id) == [crud |-> "Update", info |-> inven[id].info,
             accum |-> inven[id].accum, owned |-> TRUE]

\* Mutant of acquire: a new clone each time.
acquireNew(work, id) == Item(id)

\* acquireObject: the clone the transaction has, or a new one.
acquire(work, id) == IF id \in DOMAIN work.copies THEN work.copies[id] ELSE Item(id)

Put(work, id, copy) ==
    [work EXCEPT
        !.copies = Over(Only(id, copy), work.copies),
        !.note = Over(Only(id, exportItem(copy)), work.note)]

\* Mutant of fill: a stack takes all that is left.
fillAll(work, id) ==
    LET copy == acquire(work, id) IN
    IF inven[id].accum >= AccumMax[inven[id].info] THEN work
    ELSE [Put(work, id, [copy EXCEPT !.accum = @ + work.left]) EXCEPT !.left = 0]

findItem(id) == id \in DOMAIN inven

\* One stack of the first loop: passed over when the original is full, filled
\* as far as the clone has room.
fill(work, id) ==
    LET copy == acquire(work, id)
        more == Min({AccumMax[copy.info] - copy.accum, work.left}) IN
    IF inven[id].accum >= AccumMax[inven[id].info] THEN work
    ELSE [Put(work, id, [copy EXCEPT !.accum = @ + more]) EXCEPT !.left = @ - more]

\* The stacks of an info.
Stacks(info) == {id \in DOMAIN inven : inven[id].info = info}

\* The first loop visits them in the order of the map, the greatest id last.
fillStacks(work, info) ==
    MapThenFoldSet(LAMBDA id, w : fill(w, id), work,
                   LAMBDA id : id, LAMBDA ids : Max(ids), Stacks(info))

\* The first item of an info.
findFirst(info) == Min(Stacks(info))

\* The second loop: new stacks for what is left, all full but the last.
add(work, copy) == [Put(work, work.used + 1, copy) EXCEPT !.used = @ + 1]

addAll(work, copies) == FoldLeft(add, work, copies)

open(work, info) ==
    LET max == AccumMax[info]
        many == (work.left + max - 1) \div max
        new == [n \in 1..many |-> [crud |-> "Insert", info |-> info,
                                   accum |-> Min({max, work.left - (n - 1) * max}),
                                   owned |-> TRUE]]
    IN  [addAll(work, new) EXCEPT !.left = 0]

\* Bag::insertItem into the transaction.
insertItem(work, grant) ==
    open(fillStacks([work EXCEPT !.left = grant[2]], grant[1]), grant[1])

\* The items of a reward, one after the other.
insertItems(group) == FoldLeft(insertItem, Empty, group)

\* Bag::deleteItem of an object: a stack that is used up loses its owner.
deleteItem(work, id, count) ==
    LET copy == acquire(work, id) IN
    Put(work, id, [copy EXCEPT !.accum = @ - count,
                               !.owned = copy.accum > count])

\* The items of a request, in any order.
deleteItems(counts) ==
    FoldSet(LAMBDA id, w : deleteItem(w, id, counts[id]), Empty, DOMAIN counts)

-----------------------------------------------------------------------------
(* The handlers.                                                           *)

Busy == \E t \in txs : t.updater

\* A CacheTx with this work; `delta' is what was asked for, by info.
begin(work, equip, updater, cheat, delta) ==
    /\ work.used <= MaxId /\ started < MaxTx
    /\ started' = started + 1
    /\ used' = work.used
    /\ txs' = txs \cup {[no |-> started, copies |-> work.copies,
                         note |-> work.note, equip |-> equip,
                         updater |-> updater, cheat |-> cheat,
                         delta |-> delta, stage |-> "db"]}
    /\ beside' = (beside \/ (cheat /\ txs # {}) \/ \E t \in txs : t.cheat)
    /\ UNCHANGED <<memVars, dbVars>>

Granted(group) ==
    [i \in Infos |-> SumFunctionOnSet([n \in DOMAIN group |-> group[n][2]],
                                     {n \in DOMAIN group : group[n][1] = i})]

\* RewardProcess::Process for the handler of a gated packet.
Process(group) ==
    /\ inRoom /\ ~Busy
    /\ begin(insertItems(group), 0, TRUE, FALSE, Granted(group))

\* The item ids of a request are distinct keys.  An info id is looked up as
\* the id of an item, of which there is none: the whole request is refused.
itemUseReq(counts, infos) ==
    /\ inRoom /\ ~Busy
    /\ infos = {} /\ DOMAIN counts # {}
    /\ \A id \in DOMAIN counts :
          findItem(id) /\ counts[id] \in 1..inven[id].accum
    /\ begin(deleteItems(counts), 0, TRUE, FALSE,
             [i \in Infos |-> -SumFunctionOnSet(counts, DOMAIN counts \cap Stacks(i))])

\* "item add": a chat command, so not gated, and no updater.  "item del" and
\* "item use" look an info id up as the id of an item, and do nothing.
cheatAdd(info, count) ==
    /\ inRoom
    /\ begin(insertItem(Empty, <<info, count>>), 0, FALSE, TRUE,
             Granted(<<<<info, count>>>>))

\* "reward drop": a reward group, past the gate and without an updater.
cheatDrop(group) ==
    /\ inRoom
    /\ begin(insertItems(group), 0, FALSE, TRUE, Granted(group))

\* EquipComponent::insertEquipment, with a new row for an item that has none.
insertEquipment(id) ==
    /\ id \notin equips /\ findItem(id)
    /\ begin(Empty, id, TRUE, TRUE, [i \in Infos |-> 0])

\* "item equip": the first item of the info.
cheatEquip(info) ==
    /\ inRoom
    /\ Stacks(info) # {}
    /\ insertEquipment(findFirst(info))

-----------------------------------------------------------------------------
(* The transactions.                                                       *)

dbCommit(t) ==
    /\ t.stage = "db"
    /\ rows' = Over([id \in DOMAIN t.copies |->
                        [info |-> t.copies[id].info, accum |-> t.copies[id].accum,
                         owned |-> t.copies[id].owned]], rows)
    /\ equipRows' = equipRows \cup ({t.equip} \ {0})
    /\ balance' = [i \in Infos |-> balance[i] + t.delta[i]]
    /\ txs' = (txs \ {t}) \cup {[t EXCEPT !.stage = "ok"]}
    /\ UNCHANGED <<memVars, used, started, beside>>

dbFail(t) ==
    /\ t.stage = "db"
    /\ txs' = txs \ {t}
    /\ UNCHANGED <<memVars, dbVars, used, started, beside>>

\* Mutant of Gone: Item::applyCache looks for deleted copies only.
GoneNever(t) == {}

\* The stacks Item::applyCache takes out of the bag.
Gone(t) == {id \in DOMAIN t.copies : ~t.copies[id].owned}

\* The stacks ItemManager::insertItem adds: a map keeps what it has.
Inserted(t) ==
    {id \in DOMAIN t.copies \ Gone(t) : t.copies[id].crud = "Insert"} \ DOMAIN inven

\* What applyCache puts into the bag, and the originals copyMember changes.
Kept(t) ==
    Inserted(t) \cup {id \in DOMAIN t.copies \ Gone(t) : findItem(id)}

\* What ItemManager::deleteItem leaves of the others.
Others(t) == DOMAIN inven \ (Gone(t) \cup Kept(t))

\* The items of the player after the transaction.
Items(t) ==
    [id \in Kept(t) \cup Others(t) |->
        IF id \in Kept(t)
        THEN [info |-> t.copies[id].info, accum |-> t.copies[id].accum]
        ELSE inven[id]]

\* Mutant of Told: a stack that is gone is not told of.
ToldLeft(t) ==
    [id \in DOMAIN client \cup DOMAIN t.note |->
        IF id \in DOMAIN t.note /\ t.note[id].accum > 0 THEN t.note[id]
        ELSE client[id]]

\* The client after the item change notifies: an item of no accum is gone.
Told(t) ==
    LET now == Over(t.note, client)
    IN  [id \in {n \in DOMAIN now : now[n].accum > 0} |-> now[id]]

\* EquipComponent::insertEquipment in memory.
Equipped(t) == equips \cup ({t.equip} \ {0})

\* CacheTx::_runPost on the room thread, then the success callback.
writeBack(t) ==
    /\ t.stage = "ok"
    /\ inven' = Items(t)
    /\ equips' = Equipped(t)
    /\ client' = Told(t)
    /\ txs' = txs \ {t}
    /\ UNCHANGED <<inRoom, dbVars, used, started, beside>>

-----------------------------------------------------------------------------
Requests == UNION {[ids -> 1..2] : ids \in {S \in SUBSET Ids : Cardinality(S) <= 2}}

Player ==
    \/ load \/ unload
    \/ \E group \in Groups : Process(group) \/ cheatDrop(group)
    \/ \E counts \in Requests, infos \in SUBSET Infos : itemUseReq(counts, infos)
    \/ \E info \in Infos : cheatEquip(info) \/ \E n \in 1..2 : cheatAdd(info, n)

Transactions == \E t \in txs : dbCommit(t) \/ dbFail(t) \/ writeBack(t)

Next == Player \/ Transactions

Spec == Init /\ [][Next]_vars

-----------------------------------------------------------------------------
Quiet == inRoom /\ txs = {}

\* A row holds between one item and the accumulation limit, or belongs to
\* nobody and holds none, also when one group grants an info twice and when
\* transactions overwrite each other's rows.
StacksFit ==
    \A id \in DOMAIN rows :
        IF rows[id].owned THEN rows[id].accum \in 1..AccumMax[rows[id].info]
                          ELSE rows[id].accum = 0

\* Items are neither made nor lost: the stacks of an info add up to what was
\* granted less what was used, across stacks filled, opened and used up,
\* failures and restarts, as long as no cheat ran beside another transaction.
Balanced ==
    ~beside => \A i \in Infos : Amount(rows, i) = balance[i]

\* Between transactions the bag has the rows the player owns and no others.
MemoryIsRows ==
    Quiet /\ ~beside => inven = _initByList /\ equips = equipRows

\* Between transactions the client, which only adds up notifies, has the
\* inventory of the server.
ClientKnows == Quiet /\ ~beside => client = inven

=============================================================================
