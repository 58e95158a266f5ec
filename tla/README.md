# EpicTales GameServer: specifications, checks and proofs

TLA+ specifications of the EpicTales game server (`src/GameServer`), the TLC
configurations that check them and the TLAPS proofs about them. Line numbers
below are lines of `src/GameServer/...` unless a path says otherwise;
`PROJECT.json` maps every definition to the lines it stands for.

To check a run: `tlc -config CacheTxUnit.cfg MCCacheTx.tla`. To check the
proofs: `tlapm M.tla` for each `M` of `CacheTxProofs`, `PlayerTxProofs`,
`SessionProofs`, `QuestProofs`, `ItemsProofs`, `FieldProofs`, `AccountProofs`
and `NpcProofs`.

## 1. The system

The server is C++ on a private framework (`Core`, `DB`, `Data`, `Protocol`)
that is not in this repository; `Room.cpp` and `World.cpp` are missing too.
Those parts are modelled from how their callers use them and marked external.

Three kinds of threads meet in the code:

* network threads (`IOCP_THREAD_COUNT`, Config.h) run packet handlers that need
  no room (login, player list, loading) and put the others into the User's queues;
* room threads (task managers) update the actors of a room frame by frame, drain
  the players' queues and run closures other threads post to the room;
* database threads (`DB_THREAD_COUNT`) run queries and post the result back.

A player's change of state is a `CacheTx`: the handler clones the ORM objects
it changes, the database thread stores the clones in one database transaction,
and the room thread copies them back into the originals and runs callbacks.
While it lives it can hold the `BusyState` of the player's User, which shuts
the queue of the packets that change state.

| component | state it keeps | operations | what is hard | what makes it correct |
|---|---|---|---|---|
| **CacheTx** (`DB/`) | clones, tasks, callbacks, sync type, result | `acquireObject`, `pushTask`, `pushDbTask`, `ifSucceed/Failed/Result`, `run`, `_runOnDbThd`, `_runPost`, `_runFailTasks` | four threads, destructor-driven steps, failure and crash between any two | stored together or not at all; callbacks told the truth; memory never ahead of the rows |
| **Packet queues and busy gate** (`User/User.*`, `Actor/Player.*`) | two queues, busy counter, owner | dispatch, `consumePacketQueue`, busy updaters, reconnect | a gate opened between two packets; a new User has a new gate | no transaction overwrites another's change; the gated queue drains |
| **Sessions** (`User/`, `Logic/PlayerManager.h`, `CloseComponent`) | UserManager, PlayerManager, PlayerCloseManager, owners, timers | login, forced close, socket close, load, possess, timeout, reconnection | the close of an old connection races the login of the next and its loads | the registry says who is logged in; a player that is played is not counted down; one that waits is |
| **Quests** (`Logic/Quest`, `OrmSub/Quest.*`) | quest and completed-quest maps, listened conditions, rows | load, start, cancel, complete, deliver, acquire | the chained transaction of a completion, crash between the two, delegates | one reward for a quest; maps = rows; followers listed; delegates exact |
| **Items, bags, equipment** (`Logic/Item`, `OrmSub/Item.*`) | stacks per bag, equipment rows | insert, delete, use, equip | several changes of one stack in one transaction, a cheat beside a use | nothing made or lost; a stack within its limit; client = server |
| **Environment objects, control FSM** (`Actor/EnvObj.*`, `Logic/Fsm/PlayerState*`, `EnvObjState*`) | controls, remaining count, charge time, states | start, cancel, complete, fail, charge, despawn | one completion fails the others while the list is walked | list = the players' states; nobody controls what is used up; every control ends |
| **Spawners, triggers** (`Logic/WorldEntity`) | spawned sets, timers, positions | spawn, despawn, respawn, enter | timers and lists must agree across despawns | spawned + waiting = maximum |
| **Npc states, movement, behaviour tree** (`Logic/Fsm/NpcState*`, `Logic/Npc`, `Logic/NpcAi`) | state, path, combat flag, place beside the target, running task, child indexes, limits, cool times | tick, resume, abort, chase, return, roam, take and give back a place | tasks that last many ticks while branches are aborted, a path lost or replaced under a state | the running task is what the npc does; limits hold; a place is taken once; tasks and returns end |
| **Player creation and deletion** (`User/Packet/PktPlayerCreate*`, `PktPlayerDelete*`) | rows of player, character, deck, item, equipment | create, delete | five inserts without a transaction | what is listed can be played |
| **Characters, decks, stat points, places** (`Logic/Character`, `Actor/Player.*`, `OrmSub/Player.*`) | characters, slots, points, world and last public world | slot change, stat points, `character addall`, enter and leave worlds, disconnect save, reconnection | a command and a save wait for no gate; a player is cut off anywhere | no character twice in a deck; points neither made nor lost, and returned only all at once; the row names a village |
| **Lobby connection** (`Lobby/LobbyClient.*`, `GameServer.cpp`) | two flags, a timer | connect, connected, failed, closed | the timer runs between two assignments of a callback | it gets connected again |
| **Parties, matching; cool times, experience** (`Logic/Party`, `Logic/Character`) | requests, parties; end times, levels | | nothing in the repository calls them | |
| rewards (part of Quest and Items), mails, achievements, skills; rooms and worlds (headers only); actors; simple packets; cheats, administration; start-up; unity files | | | | see `PROJECT.json` for what is modelled of each and why the rest is not |

The hazards of this code, each at its line, with the properties that cover it
or the reason none does, are listed in `PROJECT.json`.

## 2. The modules

    UnitOfWork <- CacheTx <- CacheTxProofs                      one transaction
    PlayerTx <- PlayerTxProofs  the queues and the gate around transactions
    Session <- SessionProofs    what PlayerTx calls a connection
    Quest <- QuestProofs        what handlers and commands do with transactions
    Items <- ItemsProofs        the same, for the inventory
    Field <- FieldProofs        a world's objects, spawners and players; no transaction
    NpcMove <- BehaviorTree <- Npc <- NpcProofs                 one npc
    Roster <- Growth <- Account <- AccountProofs                accounts and players
    LobbyLink <- Account                                        the server's lobby

An arrow to the left reads "is extended (or implemented) by". Seen from
`PlayerTx`, `Quest`, `Items` and `Growth` a CacheTx is four steps: the clones are
taken, the rows written at once or not at all, the copies written back, the
callbacks run; that these four are all there is to see is what the CacheTx
modules check and prove. Chat commands (`User.cpp:98-115`, `Cheat/`) pass the
gate; each module has the commands that change what it models.

### UnitOfWork and CacheTx

`UnitOfWork` is the abstract specification: objects are enlisted, all their
rows change in one step or none does, the owners see the new values only
after that, a callback hears the outcome that happened. It states what
src/README.md:85 and 108 promise of the "Unit of Work".

`CacheTx` is one transaction from the handler that fills it to its last
callback. `stage` is the position in `run` (`build`, `logic` while pushed
tasks run, `settled` after their shared `dispose` closure), `dbTx`/`written`
the database transaction statement by statement, `post`/`writeBacks` the
closures of `_runPost`, one per manager, `queued`/`ran` the callbacks. The code
runs a step when the last copy of a shared pointer dies; the model has a count
or a set that becomes empty (`settle`, `answer`). All three `ETxSyncType` values
are modelled, objects whose owner is in no room, and a crash at any step.

### PlayerTx

What other transactions see of a CacheTx (clone, commit, write-back, end), the
two queues a network thread fills, the room thread's `Player::update` that
drains them (`loop` says where it is), the busy counter, connections that end or
are kicked out, and the reconnection that gives the same Player a new User
(`createBusyUpdater` takes the User of the moment). An object is a counter, so a
lost change is a missing unit. A quest completion's CacheTx may end before its
success callback: the closure in the manager's queue captures the callbacks,
not the CacheTx (CacheTx.cpp:219-247), so the gate can open before the callback
starts the second transaction; `endTx` and `chain` are separate steps for that.

### Session

One step for every access to a shared map or member by the handlers of
`PktLoginReq` and `PktPlayerDataReq`, by `User::_closeProcess` (run by a
socket's own close or by the login that forces it), by the loading database
task and by the room thread's timer. `work` is where each connection's handler
is; at most `IoThreads` of them run. The two ways a player changes hands,
`possess` and `unPossess`, are a sequence of accesses too (the owner, the entry in
PlayerCloseManager, the closed user, the timer, the User's weak pointer;
`PossessOrder`, `UnPossessOrder`), and whoever does them, a handler (`dataPossess`),
a close (`closeUnPossess`) or a load (`loadPossess`, `loadUnPossess`), may be
overtaken between any two. `closeExpired` is the check of the close timer and
`closeTimeout` what follows from it, so that a reconnection fits in between.

What is one step although it is two in the code: a weak pointer that is read and
locked (it locks while somebody keeps the object, `Alive`); the read of
`_clsoedUserId` as a test and as the key of the removal it guards; `setRoomRemovable` and the removal from
PlayerManager in `closeTimeout` (CloseComponent.cpp:53 and 55), between which
nobody reads what the first one wrote: only the room does, once the timer's
function has returned (`AtRest`). `keepAlive` is the
server's timer that closes a connection which says nothing (`checkKeepAlive`), `finalize` what the close
timer's component does when its player goes. `robbed` and `unnamed` are history:
the connections whose entry in UserManager the close of another one removed, and
those that were closed before they had an id, whose close therefore removed
the entry of id 0 and left theirs.

### Quest

`_quests` (`quests`), `_questCompletes` (`completes`), the delegates
(`checkIfs`, `handles`), the rows, and the transactions (`txs`), each reduced
to what `UnitOfWork` promises: rows together, objects after, callback last,
with the gate of `PlayerTx` for one connection. The handlers start, cancel,
complete and report a delivery; rewards are themselves acquisition events. The
chained transaction of a completion is a step of its own, before or after the
gate opens. `paid` and `skipped` are history variables: the rewards committed,
and the quests that are unlisted because the player cancelled them or the
database refused a batch with them that nobody else had inserted. Commands list, start, complete and delete the quests of
`Commanded` and give the items of a reward; `cheated` remembers which quests they touched, and what a reward and an
order of quests promise is claimed for the others (`Untouched`). Their transactions
run beside the gated ones.

### Items

One player's inventory. `inven` is the bag (stacks by id, in the order of
the map the code walks), `rows` and `equipRows` the database, `client` what the
change notifies add up to in a client, `balance` what was granted less what was
used (history). `insertItem` is `Bag::insertItem`: `fill` adds to each partly
filled stack, looking at the original's count before the clone's (Bag.cpp:151),
`open` makes the new stacks; `fillStacks` and `addAll` are the two loops. `itemUseReq` takes its items one after the other
from the same CacheTx and is dropped whole when one of them is missing.
The commands that add, drop and equip go through no gate; `beside` remembers that one of their
transactions ran beside another, after which `Balanced`, `MemoryIsRows` and
`ClientKnows` say nothing, and `StacksFit` still does. `Gone` is the step of
`Item::applyCache` that takes a used-up stack out of the bag.

### Field

A world's spawners, the objects they put into its room and the players in it;
all of it on the room's thread. A spawner has `times` (`_spawnTimes`), `pool`
(the places left) and `spawned`; `spawnersUpdate` is its whole `update` loop
(`npcSpawnUpdate`, `envObjSpawnUpdate`).
`objs` holds each object's state, the times it waits for (what is left
of them; `tick` is the clock, and a time that is compared with `<` is one longer),
the controls left and the players that control it: `controls.live` has the ids
of its `_controls` that lead to a Player object of today, `controls.dead` those
whose Player object was replaced since (`load`, a new object with an idle state
machine) and which `addControl`, an insert, does not replace. A player's `ctrl` is
the weak pointer of `_ctrledEnvObj`. `controlLimited` is `_controlComplete`
with the players it sends to idle, each of whom changes the list being walked;
where the code erases from the wrong map (EnvObj.cpp:162) `halted` becomes true
and nothing more is claimed. `Entry` is the control count an object has
once it is in the room: the constructor says 0, and the one place that could
say otherwise, `World::addActor`, is not in the repository. A player that has
left may enter another world while this room runs (`enterWorld(p, FALSE)`):
that removes it from this room's object. `cheatCtrl` and `cheatState` are the
two commands that start a control past its checks and set an object's state;
`Commanders` says who sends them near which object.

### NpcMove, BehaviorTree, Npc

`NpcMove` is the state machine of an npc and its `NpcMoveComponent` as
operators on a record: entering, updating and leaving each state, asking for a
path, stopping, arriving, taking a place beside a target and giving it back.
`BehaviorTree` executes a tree the way TaskNode, SequenceNode and SelectorNode
do: decorators, the tasks that observe them, the child indexes of an
execution, the running task and its latent answer, execution limits and cool
times. `ExecuteFrom` is a tick from one child of a composite on: a recursive
function of where the tick is and what it has done so far (`Positions`), so that
the proofs can speak of it.
`Npc` puts the two under the room's updates (`aiUpdate`, `fsmUpdate`,
`moveUpdate`), with a target that comes and goes and other npcs that want the
places beside it. The files of the tasks and conditions a tree is made of
(`BTFuncTask`, `BTFuncDecoration`) are empty in the repository: a task is one
of the kinds the states allow, a condition answers anything. What takes an npc
out of Idle is commented out (NpcStateIdle.cpp); `Drives` is what the states
that exist leave possible. `done`, `tick` and `refilled` are history.

### Roster, Growth, LobbyLink, Account

`Roster` holds the rows of every player and the two requests of the character
screen, one step for a statement: they run as database tasks without a
transaction. `Growth` is a loaded player: characters, deck, points, the world
it is in and the last public one, the two gated packets, the command that adds
characters, and the saves of a player that is cut off, replaced or timed out.
A reconnection (`possess`) and a load wait for nothing that is in flight. The
transactions of the user before hold a gate that is no longer the player's (`TakenOver`),
and those begun on a Player object that was replaced since write to an object
nobody sees (`Replaced`, the field `old`); only a new character finds the new object,
through PlayerManager (`Joined`). `rushed` is history: the players taken over
while points of theirs were in flight and unseen by the new user. A slot request
names any characters that were ever made, of whatever player, as the handler
checks no owner.
`LobbyLink` is the connection to the lobby, whose timer and callbacks run on
different threads; users are let in once it was made. `Account` composes
the three over the same rows.

## 3. The runs

| run | asks | instance |
|---|---|---|
| CacheTxUnit | is a CacheTx of the default type a unit of work, and does it implement `UnitOfWork`? | 2 rooms, 2 objects: a unit across two managers, each statement may fail, one logic and one database task |
| CacheTxModes | what holds in every sync type and for owners in no room; are callers answered and the gate released? | 1 object, all types, fair |
| PlayerTxGate | one connection, no cheats: no lost change, the queue drains | 2 objects (one shared, one not), queues of 2, 3 packets: one in flight, one waiting, one more |
| PlayerTxReconnect | *violation*: the same with a second connection | 1 object, 2 connections |
| SessionPlayers | does the registry say who is logged in, and is a played player never counted down? | 2 connections of one account, 2 players, 2 objects, 2 network threads, 2 requests |
| SessionRace | *violation*: does a late close leave the next login alone? | 2 connections, 2 network threads, no player |
| SessionOrphan | *violation*: is a player that waits for its user counting down? | 2 connections, 1 player, 2 network threads, 2 requests |
| QuestFlow | do maps, rows, rewards, followers and delegates agree? | 5 quests: two chains of two and one alone, one item, one command on the second quest of a chain; up to three completions overlap their callbacks |
| ItemsFlow | are items neither made nor lost, and do bag, rows and client agree? | 3 stacks of 2 infos, one limited to 3, one that does not stack; groups that fill two stacks, open others, name an info twice; 3 transactions |
| FieldFlow | do places, objects, control lists and players' states agree, and do controls, extinctions and empty levers end? | 2 herbs on 1 place, a lever of 1 control that is charged and commanded by one player, a wolf; 2 players, one of which may be unloaded while away |
| NpcFlow | is the running task what the npc does, do ticks never go back, do limits and places hold, do tasks and returns end? | a tree of 7 nodes: go (cool time) and wait (limit 1) while a condition holds, else approach (forced to succeed) and chase; a target with 1 place, other npcs |
| AccountFlow | are players whole, is no character twice in a deck, are points kept, is a row in a village, is the lobby found again? | 1 account, 1 player, 2 characters and slots, 3 stats and 1 point, a village and a dungeon, 2 orders, 2 transactions, 1 lost connection |

Bounds. `MaxTasks`, `MaxRequests`, `MaxItems`, `MaxCount`, `MaxCommands`, `MaxId`,
`MaxTx`, `MaxTxs`, `MaxOrders`, `MaxPlayers`, `MaxChars` and `MaxDrops` are guards on what
the environment asks for, never on what the code does next. Two is
enough for the sharing the properties are about (two managers of one unit, two
transactions of one object, two owners of one player, two network threads); the third packet
is there for the step that arrives while two others overlap.
One command is enough to have a transaction beside each gated one. In
AccountFlow two orders are a creation and a deletion, or two creations at a
time; two transactions are a packet's and the one beside it; one lost
connection puts the timer between any two steps of its callbacks, and that a second
loss finds the same flags as the first is what `Reconnects` says. The constraint
`LinkOrRequests` of MCAccount cuts off the states that combine a lost connection
with both orders: users are let in when the lobby was found once, and from then on
neither side reads what the other writes. In NpcFlow the tree has a
task that lasts, one that fails, one that is limited and one that cools down,
on both sides of a condition.

`CHECK_DEADLOCK FALSE` stands where the system may really stop: clients stop
sending, a transaction has ended, undefined behaviour has stopped the server
(`Field`), or the bounds of `Account` are used up.

Fairness. `CacheTx!FairSpec` assumes the task managers and the database thread
keep draining their queues, nothing of the handler. `PlayerTx!FairSpec` assumes
weak fairness of the room's frame loop and of the database thread, and strong
fairness of the closures posted to the room, which run between two frames and
are therefore not enabled all the time: a task queue is first in, first out, and
every frame drains it. Clients owe nothing.
`Field!FairSpec` assumes that time passes and that the room keeps updating each
actor and spawner in it and removing what is removable; players and Npcs owe
nothing.
`Npc!FairSpec` assumes that the room goes on updating the npc (weak fairness of
a due tick, of a movement and of the passing of a wait) and that a path that is
asked for again and again is found (strong fairness of `fsmUpdate(TRUE, _)`):
path finding is not in the repository, and without that a MoveTo to a place
that cannot be reached asks for ever, which is what the code does.
`Account!Spec` assumes that LobbyClient's timer loops, that a connect the
system was asked for is answered, and that a callback that began goes on;
`MaxDrops` says that it is refused or lost finitely often. Accounts and players owe nothing.
No other run has a liveness property.

## 4. The proofs

`CacheTxProofs` proves, for any managers, objects, sync types and bounds, that
`Spec` implies always `TypeOK`, `AllOrNothing`, `SuccessIsTrue`,
`FailureIsClean`, `MemoryFollowsRows` and `BusyUntilSettled`. None is inductive:
that a success callback is truthful depends on write-backs having emptied, which
depends on the outcome of the database transaction. `IInv` says for each phase
what the others hold: nothing has left an unsettled transaction
(`Untouched`); once it has settled, rows and originals are a function of
`dbTx`, `returnType` and the managers still to write (`Placement`); which
outcomes go together (`Outcomes`); callbacks are queued by the deciding step
only (`Verdicts`); what a crash leaves (`AfterCrash`). The lemmas
`BuildIInv`, `LogicIInv`, `DatabaseIInv` and `ReplyIInv` show that each group of
actions keeps it; the theorems are read off it.

`Refinement` says that every step of `CacheTx` is a step of
`UnitOfWork` or a stutter under the mapping of `Unit`, assuming the default
sync type and owners in rooms (`InRooms`), which is what every caller in the
repository uses.

`AccountProofs` proves, for any accounts, nicks, ids, slots and worlds, that
`Account!Spec` implies always `PlayerIsWhole` and `RowNamesVillage`. Its `IInv` has
three parts. `RosterInv` says what the tables hold (`RowsOK`), that an id is
drawn once and nothing is stored under one still to come (`IdsOK`, `TasksOK`), and
how far each creation is (`Progress`: the character before the deck, both before
the player, the item before its equipment); `PlayerIsWhole` alone is not
inductive, because the insert of a player says nothing of the rows it names.
`TxsOK` keeps the ids a transaction adds apart from those of all others
and of the creations, so that no commit overwrites a character, and its place a
village. `LoadedOK` says that a listed player is loaded, that its place and its
last public world are villages. `RosterKeeps` and `GrowthKeeps` show one step at a
time that all of this stays.

From the same invariant it proves `NobodyTwice` (`DecksDistinct`) and
`NoPartialRefund` (`PointsKept`), each with an invariant of its own. `DecksInv` says
of every deck, stored, in memory or in flight, that it has no character twice and
none whose id is still to be drawn (`WholeDeck`), which is what the command relies
on when it fills slots that were empty in memory with new characters: `FilledDeck`
says that each goes to one slot, and `RankTells` is the operators' part of it.
`RowDeckFrom`, `MemDeckFrom` and `TxDeckFrom` say where a deck can come from in
one step.

`PointsInv` relates the tables to the copies of them in memory and in
transactions. Points are never made or lost whatever is in flight, because every
copy has them all (`Sound`). That one which was spent returns only with the others
needs more: a distribution of points was allowed against memory, not against the row, and
until it commits both must be the same. They are while the transaction holds the gate of
its player's user (`OneGate`, `TxPoints`), and after the commit memory differs
from the table exactly by what is to be written back (`MemPoints`). A player that is
taken over meanwhile has a new gate; if it was an object with points in flight, or
one loaded before they were stored, it is in `rushed` and those claims end
for it, as PlayerTxReconnect shows they must. A load after the commit reads the
new points and ends nothing.

`SessionProofs` proves, for any connections, accounts, players, objects and any
number of network threads, that `Session!Spec` implies always `RegistryIsExact`
(`ExactRegistry`) and `PlayedIsNotTimed` (`PlayedStays`). `TInv` says what each
process holds at each of its steps. In the middle of a handler `UserManager` and the flags disagree,
so the first is not inductive. `RInv` says what the map holds
at every step (`Registry`): a closed connection keeps its entry until a close that
set its flag removes it (`TearDown`), or for ever if that close found no id;
an entry precedes the id of its connection (`Entering`) and is its own unless
another close took it. `LoginOK` and `FlagOK` say which connections a login and a
close can be of (`Known`). `PInv` is the second property at every access: a player
that has an owner is counted down or marked as closed only while somebody is on the
way to undo it (`ToStop`, `ToForget`); `Follows` says that whoever is, stays so until
it has.

`PlayerTxProofs` proves, for any objects, packets, queue length and number of
transactions, that `PlayerTx!Spec` implies always `NoLostUpdate`, for one
connection (`NUsers = 1`) without cheats (`Cheats = FALSE`): the instance of the
run PlayerTxGate. Both hypotheses are needed: PlayerTxReconnect loses an update
with two connections, and a command holds no gate. `IInv` says that the busy
state counts the transactions that hold it (`CountOK`), that one which still has
a change to bring to memory holds it and is the only one (`GateOK`), and where
such a change is (`ValuesOK`): nowhere before the commit, in the rows after it, in
memory after the write-back. `HandleIs` is the point of it: a handler behind an
open gate finds no change under way. The callback of a completed quest may run
after the gate opened; the transaction it starts touches no object another has
(`InsideKept`).

`QuestProofs` proves, for any quests, items, conditions, commands and bounds, all
five invariants of QuestFlow. They speak of the moments between
transactions; `IInv` says what holds while some are under way: which may have a copy of
the same quest (only inserts, of which the second fails), what each wants of its
quest, that a stored copy is what memory still lacks (`QuestOK`, `Waits`), that
a payment and the row of the completed quest go together (`PaidOK`), that
what is about to be inserted follows a completed quest (`PrevOK`), that
somebody is still going to list what is enabled and not listed (`FollowOK`,
`Coming`), and that the delegates are those of the listed quests (`HandlesOK`).
The parts are operators of the set of transactions and of the quests commands
touched, so that a step which starts or ends one transaction is a lemma about sets.
A stored quest that is in progress and has no conditions would be pushed on when
the player is loaded (`Outdated`); the proof shows that, as long as the quest
data stays what it is, no row is one.

`ItemsProofs` proves, for any items, limits, stacks to start with, reward groups
and bounds, the four invariants of ItemsFlow. What a handler puts into its
transaction is a fold: over the stacks of an info (`FillsOK`), over the new ones
(`AddsOK`), over the grants of a group (`InsertsOK`) and the stacks of a request
(`DeletesOK`). For each of these the lemma of one step (`FillOK`, `AddOK`,
`InsertOK`, `DeleteOK`) says that the clones stay within their limits, that
each is of a stack in the bag or new, and by how much the amount of each info
would change if the transaction were stored (`Later`); the lemma of the loop is
an induction over the subsets of what it visits. `IInv` says that tables, bag and
clones are within the limits always (`DataOK`, `TxOK`), and, as long as no cheat ran
beside another transaction (`Clean`), that there is at most one, that its clones
add what was asked for (`Adds`) until it commits, and that afterwards what the
write-back will make of the bag is the rows. None of the four properties is
inductive but `StacksFit`, whose rows come from clones.

The first section of the module says what the folds and sums of the community modules compute: that
there is the function such a fold is defined by (`FoldExists`), that a sum does
not depend on the order it is taken in (`SumLast`) and that its first and last
part add up (`SumAdd`). The induction theorems of the library take operators, which
no prover here instantiates; `NatSet` and `SetInduction` state the same of sets.

`FieldProofs` proves, for any spawners, counts, players and intervals, the three
invariants of FieldFlow. `SpawnBudget` compares cardinalities with counters and a
queue of times. The other two speak of the players in the room, and neither is
inductive, because a player that leaves keeps its control: `IInv` says that what
a player controls is there (`Attached`), that the list of an object is the set
of all players whose state controls it, here or not, but for those it still has
an old entry of (`Listed`), and that there is neither a control nor an old entry
once the object is used up (`UsedUp`).

`NpcProofs` proves, for any behaviour tree, limits, cool times and places, the
three invariants of NpcFlow and `NeverBack`. `IInv` adds to `RunningIsPerformed`
that the task in progress has not used up its limit (`DoesOK`), that the child
index of every composite above it is that of the child it is under (`LeadsOK`: a
tick resumes it and nothing else), and that no success is missing from the
counts that limits are checked against (`CountsOK`); `PlaceOK` is `TokenOnce` of
any npcs that hold places. A tick runs from one state of the npc to the next in
as many steps as the tree has nodes, and between two of them the invariant does
not hold: a branch was skipped and its indexes still lead to a task that is no
longer in progress, or a task has answered and the next has not started. What
holds is the contract of a node (`AnswerOK`): if it is executed at its first child, or
at the one that leads to the task in progress (`StartsOK`, `ReadyAt`), then it
answers InProgress with a task under it in progress, which the state machine
performs, to which the indexes lead and which is not to the left of the one that was in
progress; or it answers otherwise, and what is in progress is what was. `NodeAnswerOK` shows it for one node and
`ExecuteFromOK` for all of them, by induction along `Positions`: each child
of a composite is further down the tree, each next one further to the right.

`ExecuteFrom`, `TasksUnder` and `RightTasks` are recursive functions, and a
recursive function is only known to be what its equation says if there is one
that satisfies it. `Recursion` proves that there is, when what the equation asks
of others are values at arguments before it in an order without endless descent;
`TasksUnderIs`, `RightTasksIs` and `ExecuteFromIs` are its three uses. The order
comes from the tree: `IsTree`, a part of `NpcAssumption`, says what
`_parseNode` makes, that a node hangs at one place, that all hang
under the root, and that none hangs under itself. `BelowFacts`, `NoCycle`,
`Siblings` and `NotRight` are what follows of a tree.

The proofs assume `CacheTxAssumption`, `PlayerTxAssumption`, `SessionAssumption`,
`QuestAssumption`, `ItemsAssumption`, `FieldAssumption`, `NpcAssumption`, and for
the accounts `RosterAssumption` and `GrowthAssumption`, only, and the bounds on
threads, connections and cheats where it is said. Each inductive invariant was checked by
TLC on the instance of its run before it was proved.

Every invariant and action property the passing runs check is proved. Model-checked
only is liveness, which is out of the prover's reach: `EveryoneIsAnswered`,
`GateReopens`, `ControlEnds`, `NeverExtinct`, `RunningEnds`, `ReturnEnds`,
`Reconnects`.

## 5. What the violations show

* **PlayerTxReconnect**: the busy state belongs to the User. A client that
  reconnects within two minutes gets the same Player through a new User with an
  idle gate while the old User's transaction is still alive; its handler clones
  old values and the later write-back undoes the earlier change.
* **SessionRace**: `_isCloseProcessed` is tested and set in two steps
  (User.cpp:438-441). The socket's own close and the next login's `forceClose`
  both pass, and the late one removes the new connection's registration.
* **SessionOrphan**: `unPossess` on a network thread and `possess` by a load on the
  database thread interleave on one player: the load stops the timer the close has
  started, then the close takes the owner the load has set. The player stays in its
  room and in PlayerCloseManager, with no owner and no timer.

The models keep these oddities of the code as they are; no run states that
they are absent, and the properties are the ones that hold in their presence:

* `Session`: a login is in UserManager before its connection has its id
  (PktLoginReqHandler.cpp:60-69). If another login closes it in between, id 0 is
  removed, its entry stays, and the account can never log in again (`unnamed`).
* `Session`: the timer's check and the removal are two steps
  (CloseComponent.cpp:51-55): a player taken back between them is removed from its
  room and from PlayerManager under its new user.
* `Session`: the load's database task possesses the player for a User that was
  closed meanwhile (PktPlayerDataReqHandler.cpp:127); its two-minute timer is
  off and nobody will start it. It has an owner, a closed one, and no property speaks of it.
* `Session`: a second request on one connection possesses a second player and
  gives up the first one only if it waits in PlayerCloseManager: both have the User as owner.
* `Session`: a player that never entered a room is removed from PlayerManager
  by the id of the User (User.cpp:450), and two loads in flight make two objects.
* `Quest`: `deleteItem(cacheTx, (PktInfoId)id, ...)` (QuestComponent.cpp:456) is
  the overload that takes the id of an item object, finds none and returns
  false: no delivery ever completes a quest.
* `Quest`: when two completions list their followers before either has inserted
  them, the second batch finds a row of the first and fails whole: a follower
  only the second completion enables is not listed until the next completion or
  load. `FollowersListed` demands the followers that are in both batches and excuses
  the others (`Missed`).
* `Quest`: a quest completes when the conditions an event hit are done, whatever
  its others say (QuestComponent.cpp:349); an acquisition counts when the bag
  held more than was asked for before it (:558).
* `Field`: a control list is erased through an iterator of its copy
  (EnvObj.cpp:162); a player that was loaded again after it had left in the middle
  of a control controls the same object without being listed, because the old
  entry is in the way of the insert (EnvObj.cpp:194), and `ControlsMatch` says so; an object with no life time that reaches Despawn is never
  removable; the constructor's count of controls is 0.
* `BehaviorTree`: `buildObserveAbort` is called for the root of a tree only
  (BTNodeManager.cpp:44) and does not descend, so no other node's decorators are
  observed, and those of a root that aborts itself would fail every task while
  they hold; BTNode.h:38 speaks of all tasks below or beside a decorated node. A
  task in progress is left because a decorator above it no longer holds when the
  tree is executed again, which NpcFlow has.
* `NpcMove`: status and type of a movement are read before they are set (any
  value behaves as one of `Garbage`). A MoveTo is done when the npc is within
  `_permitRange` (NpcStateMoveTo.cpp:68), while the movement stops within 5 on each
  axis: `RunningEnds` assumes a permit range that covers this box. With a smaller one
  the npc may stop outside it and the task asks for a path for ever; nothing in
  the code rules such a configuration out.
* `Npc`: an npc that dies beside its target keeps the place it had taken, until
  the target comes into a room again, which hands out all of them whoever holds
  one (`refilled`).
* `Growth`: a client may put characters of other players into its deck:
  neither PktCharacterSlotChangeReqHandler.cpp:38-87 nor `changeSlot`
  (CharacterComponent.cpp:284-299) looks at the owner. `NobodyTwice` is about
  one deck only.
* `Growth`: a reconnection, or a load, while points are in flight compares the next
  request with the old ones and can undo one of them (`rushed`); PlayerTxReconnect
  is the general case.
* `Items`: the command that adds an item beside a use of the same stack can leave a
  row with an owner that the bag does not have until the next load
  (CheatItem.cpp:89). `StacksFit` bounds what such a row holds; that the bag lacks
  it no property says, since `MemoryIsRows` and `Balanced` except it.
* `Roster`: the nick is looked up and inserted in two statements, so two
  creations can take one nick; the count of players the login database is
  told is stored later and never read here.

## 6. Assumptions and limits

* A database transaction is atomic and its result is reported; the quest table
  has the key (owner, info id), so inserting a row twice fails.
* The process keeps no thread waiting on another: there are no locks to model;
  maps are `TSMap`s whose single operations are atomic.
* `Quest` unloads a player only when it has no transaction in flight. Nothing in
  the code waits for that; the hazard is listed with no property.
* `Quest` counts a player's items of a kind and leaves stacks to `Items`; the
  acquisitions are the rewards, of quests and of the command that gives them.
* `PlayerTx` does not say what a handler changes, only which objects it clones.
* In `Session` times are order only: the two-minute timer may fire at any
  moment it is set. `Field` counts them, with intervals of zero and one.
* `Items` takes the inventory types' bags as one: an info has one type. It does
  not relate `equips` to stacks: an equipped item can be used up, its
  equipment stays, and no document says what should happen.
* `Field` has no positions: `Near` says which players come near enough to an
  object. Triggers do nothing: nothing in the repository gives one a cell.
* `Npc` has no positions: of a goal it keeps whether the npc is at it, near it
  or far from it, and whether a path leads there.
* `Growth` loads a player in one step: its rows are read, the object is listed and
  possessed at once (the order of these is in `Session`). Clients name players and, for points, characters of
  their own (a foreign one is refused); in a slot request they name any character
  there is, but none whose id is still to be drawn, and never no slot at all.
  Equipment is one item.

Not modelled, because nothing in the repository calls it or reads what it
changes: parties and matching; `CoolTimeManager`; `increaseExp`; the
currencies and `ActorStat`; `_onKillMonster`, `_onItemEquip`,
`findCompletedQuest`; the deletion of items by info id (ItemManager.cpp:172);
`removeAllSpawnedNpc` (empty); triggers; the sight, channels, angle tests and
variables of `NpcAiComponent`; the handler of PktItemEquipChangeReq (empty).
Not modelled, because it only shows or loads something: most of
`CheatWorld`, `CheatPlayer` and `CheatNpc`, the administration, mails,
achievements and skills. Not modelled for want of a promise to check: the
Nagle pack, into which `send` can push a packet after it was sent
(User.cpp:254). Rooms, cells and worlds have only headers and are external.

## 7. Plan

Every component whose callers are in the repository has its model. What is
left, in this order:

1. Composition: `Growth` and `Quest` over the gate of `PlayerTx` itself instead
   of their summary of it, and `Session` under `Growth`.
2. Larger instances: two accounts and two nicks in `Account`, two npcs of the
   same kind in `Npc`.
