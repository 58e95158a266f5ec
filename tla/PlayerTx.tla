------------------------------ MODULE PlayerTx ------------------------------
(***************************************************************************)
(* The packets of one player from the network thread to the CacheTx        *)
(* transactions their handlers start: User::getPacketQueue, the two queues *)
(* User::consumePacketQueue drains on the room thread, the BusyState gate  *)
(* between them, and the reconnection that gives the same Player a new     *)
(* User.  CacheTx is reduced to what other transactions can see of it: the *)
(* clone taken by the handler, the commit, the write-back on the room      *)
(* thread, and the busy updater it releases when it ends.                  *)
(*                                                                         *)
(* Data: an object is a counter and every change adds one to it, so a lost *)
(* change is a missing unit.                                               *)
(***************************************************************************)
EXTENDS Integers, Sequences, FiniteSets

CONSTANTS
    Objects,        \* the ORM objects of the player
    NUsers,         \* the number of its successive connections
    Capacity,       \* the room of a BoostLFQ
    MaxRequests,    \* bound on the packets a client sends
    Cheats          \* TRUE: chat packets may be cheats that start a CacheTx

ASSUME PlayerTxAssumption ==
    /\ NUsers \in Nat \ {0}
    /\ Capacity \in Nat \ {0} /\ MaxRequests \in Nat
    /\ Cheats \in BOOLEAN

Users == 1..NUsers
NoUser == 0

VARIABLES
    owner,      \* the User the Player is possessed by, or NoUser
    closed,     \* connections that ended
    gated,      \* _packetQueue
    free,       \* _packetQueueForNotCheckBusy
    busy,       \* _busyState of each user
    loop,       \* where Player::update is, and for which User
    txs,        \* CacheTx objects alive
    memory,     \* the originals
    rows,       \* the database
    applied,    \* the changes the database committed: what must survive
    sent        \* packets sent, bounded by MaxRequests

vars == <<owner, closed, gated, free, busy, loop, txs, memory, rows, applied,
          sent>>

\* `writes': the objects a handler acquires and changes; `chains': a quest
\* completion, whose success callback starts another CacheTx; `updater': the
\* handler calls addBusyUpdater.
Packet == [writes : SUBSET Objects, chains : BOOLEAN, updater : BOOLEAN]

GatedPackets == {p \in Packet : p.updater}

\* Ping, version, move and object control change no ORM object; a chat is a
\* cheat command when cheats are on, with an updater or without one.
FreePackets ==
    {p \in Packet : ~ p.chains /\ (Cheats \/ (p.writes = {} /\ ~ p.updater))}

Idle == [at |-> "idle", user |-> NoUser]

Init ==
    /\ owner = NoUser /\ closed = {}
    /\ gated = [u \in Users |-> <<>>]
    /\ free = [u \in Users |-> <<>>]
    /\ busy = [u \in Users |-> 0]
    /\ loop = Idle
    /\ txs = {}
    /\ memory = [o \in Objects |-> 0]
    /\ rows = memory /\ applied = memory
    /\ sent = 0

-----------------------------------------------------------------------------
(* Connections.                                                            *)

\* User::possess of a new connection; the previous one was closed first.
possess(u) ==
    /\ owner = NoUser
    /\ u \notin closed /\ \A v \in Users : v < u => v \in closed
    /\ owner' = u
    /\ UNCHANGED <<closed, gated, free, busy, loop, txs, memory, rows,
                   applied, sent>>

\* User::_closeProcess: unPossess leaves the Player without a User.
close(u) ==
    /\ owner = u
    /\ owner' = NoUser
    /\ closed' = closed \cup {u}
    /\ UNCHANGED <<gated, free, busy, loop, txs, memory, rows, applied, sent>>

\* ~User, once the update that held it is over.
release(u) ==
    /\ u \in closed /\ loop.user # u
    /\ gated[u] # <<>> \/ free[u] # <<>>
    /\ gated' = [gated EXCEPT ![u] = <<>>]
    /\ free' = [free EXCEPT ![u] = <<>>]
    /\ UNCHANGED <<owner, closed, busy, loop, txs, memory, rows, applied, sent>>

-----------------------------------------------------------------------------
(* The network thread: User::_onPacketDispatchInRoom.                      *)

dispatchGated(u, p) ==
    /\ owner = u /\ sent < MaxRequests
    /\ Len(gated[u]) < Capacity
    /\ gated' = [gated EXCEPT ![u] = Append(@, p)]
    /\ sent' = sent + 1
    /\ UNCHANGED <<owner, closed, free, busy, loop, txs, memory, rows, applied>>

dispatchFree(u, p) ==
    /\ owner = u /\ sent < MaxRequests
    /\ Len(free[u]) < Capacity
    /\ free' = [free EXCEPT ![u] = Append(@, p)]
    /\ sent' = sent + 1
    /\ UNCHANGED <<owner, closed, gated, busy, loop, txs, memory, rows, applied>>

\* User::_onPacketDispatch: a packet without a header, or out of number,
\* closes the socket and reaches no queue.
kickout(u) ==
    /\ owner = u /\ sent < MaxRequests
    /\ sent' = sent + 1
    /\ owner' = NoUser /\ closed' = closed \cup {u}
    /\ UNCHANGED <<gated, free, busy, loop, txs, memory, rows, applied>>

\* A push that fails for ten seconds closes the socket.
pushTimeout(u) ==
    /\ Len(gated[u]) = Capacity \/ Len(free[u]) = Capacity
    /\ sent < MaxRequests
    /\ close(u)

-----------------------------------------------------------------------------
(* The room thread: Player::update and User::consumePacketQueue.           *)

update ==
    /\ loop.at = "idle" /\ owner # NoUser
    /\ loop' = [at |-> "free", user |-> owner]
    /\ UNCHANGED <<owner, closed, gated, free, busy, txs, memory, rows,
                   applied, sent>>

\* A new transaction over `objects': it clones them, changes the clones, and
\* holds the busy state of `holder' until it ends.
NewTx(objects, chains, holder, from, others) ==
    [id |-> CHOOSE n \in 1..Cardinality(others) + 1 :
                \A t \in others : t.id # n,
     holder |-> holder, chains |-> chains, stage |-> "db",
     clone |-> [o \in objects |-> from[o] + 1]]


\* Player::createBusyUpdater asks the User the player has now.
createBusyUpdater == owner

\* A handler answers with an error before it runs a transaction, or finds no
\* player left.
handle(u, p) ==
    \/ UNCHANGED <<txs, busy>>
    \/ /\ owner = u /\ p.writes # {}
       /\ LET holder == IF p.updater THEN createBusyUpdater ELSE NoUser
          IN  /\ txs' = txs \cup
                    {NewTx(p.writes, p.chains, holder, memory, txs)}
              /\ busy' = [v \in Users |-> busy[v] + IF v = holder THEN 1 ELSE 0]

consumeFree ==
    LET u == loop.user IN
    /\ loop.at = "free"
    /\ free[u] # <<>>
    /\ handle(u, Head(free[u]))
    /\ free' = [free EXCEPT ![u] = Tail(@)]
    /\ UNCHANGED <<owner, closed, gated, loop, memory, rows, applied, sent>>

endFree ==
    /\ loop.at = "free" /\ free[loop.user] = <<>>
    /\ loop' = [loop EXCEPT !.at = "gated"]
    /\ UNCHANGED <<owner, closed, gated, free, busy, txs, memory, rows,
                   applied, sent>>


\* Mutant of consumeGated: the busy state is not looked at.
consumeGatedBusy ==
    LET u == loop.user IN
    /\ loop.at = "gated"
    /\ gated[u] # <<>>
    /\ handle(u, Head(gated[u]))
    /\ gated' = [gated EXCEPT ![u] = Tail(@)]
    /\ UNCHANGED <<owner, closed, free, loop, memory, rows, applied, sent>>

consumeGated ==
    LET u == loop.user IN
    /\ loop.at = "gated"
    /\ busy[u] = 0
    /\ gated[u] # <<>>
    /\ handle(u, Head(gated[u]))
    /\ gated' = [gated EXCEPT ![u] = Tail(@)]
    /\ UNCHANGED <<owner, closed, free, loop, memory, rows, applied, sent>>

endGated ==
    /\ loop.at = "gated"
    /\ busy[loop.user] > 0 \/ gated[loop.user] = <<>>
    /\ loop' = Idle
    /\ UNCHANGED <<owner, closed, gated, free, busy, txs, memory, rows,
                   applied, sent>>

-----------------------------------------------------------------------------
(* The transactions.                                                       *)

dbCommit(t) ==
    /\ t.stage = "db"
    /\ txs' = (txs \ {t}) \cup {[t EXCEPT !.stage = "ok"]}
    /\ rows' = [o \in Objects |->
                    IF o \in DOMAIN t.clone THEN t.clone[o] ELSE rows[o]]
    /\ applied' = [o \in Objects |->
                    applied[o] + IF o \in DOMAIN t.clone THEN 1 ELSE 0]
    /\ UNCHANGED <<owner, closed, gated, free, busy, loop, memory, sent>>


Release(t) == [u \in Users |-> busy[u] - IF u = t.holder THEN 1 ELSE 0]


\* Mutant of dbFail: a failed transaction keeps its updaters.
dbFailBusy(t) ==
    /\ t.stage = "db"
    /\ txs' = txs \ {t}
    /\ UNCHANGED <<owner, closed, gated, free, busy, loop, memory, rows,
                   applied, sent>>

\* The failure callbacks send the error; the clones are dropped.
dbFail(t) ==
    /\ t.stage = "db"
    /\ txs' = txs \ {t}
    /\ busy' = Release(t)
    /\ UNCHANGED <<owner, closed, gated, free, loop, memory, rows, applied, sent>>

Written(t) == [o \in Objects |->
                  IF o \in DOMAIN t.clone THEN t.clone[o] ELSE memory[o]]

\* The success callback of a quest completion starts the CacheTx of
\* onQuestComplete, which inserts new quests and touches no object that
\* exists, or finds no quest to enable.
Chained(others) ==
    \/ txs' = others /\ UNCHANGED busy
    \/ /\ txs' = others \cup {NewTx({}, FALSE, createBusyUpdater, memory, others)}
       /\ busy' = [u \in Users |->
                     busy[u] + IF u = createBusyUpdater THEN 1 ELSE 0]

\* CacheTx::_runPost on the room thread, between two updates: copyMember into
\* every original, then the success callback and the end of the CacheTx.  The
\* CacheTx may end before the callback: the closure in the manager's queue
\* holds the callbacks, not the CacheTx.
writeBack(t) ==
    /\ t.stage = "ok" /\ loop.at = "idle"
    /\ memory' = Written(t)
    /\ IF t.chains
       THEN /\ txs' = (txs \ {t}) \cup {[t EXCEPT !.stage = "written"]}
            /\ UNCHANGED busy
       ELSE /\ txs' = txs \ {t}
            /\ busy' = Release(t)
    /\ UNCHANGED <<owner, closed, gated, free, loop, rows, applied, sent>>

\* The CacheTx of a quest completion ends, before its callback or after.
endTx(t) ==
    /\ t.stage \in {"written", "told"} /\ t.holder # NoUser
    /\ txs' = (txs \ {t}) \cup
                (IF t.stage = "told" THEN {} ELSE {[t EXCEPT !.holder = NoUser]})
    /\ busy' = Release(t)
    /\ UNCHANGED <<owner, closed, gated, free, loop, memory, rows, applied, sent>>

\* Its callback, while the CacheTx still holds the gate or after.
chain(t) ==
    /\ t.stage = "written" /\ loop.at = "idle"
    /\ Chained((txs \ {t}) \cup
               (IF t.holder = NoUser THEN {} ELSE {[t EXCEPT !.stage = "told"]}))
    /\ UNCHANGED <<owner, closed, gated, free, loop, memory, rows, applied, sent>>

-----------------------------------------------------------------------------
Client ==
    \E u \in Users :
        \/ possess(u) \/ close(u) \/ release(u)
        \/ kickout(u) \/ pushTimeout(u)
        \/ \E p \in GatedPackets : dispatchGated(u, p)
        \/ \E p \in FreePackets : dispatchFree(u, p)

Room == update \/ consumeFree \/ endFree \/ consumeGated \/ endGated
WriteBacks == \E t \in txs : writeBack(t) \/ endTx(t) \/ chain(t)
Database == \E t \in txs : dbCommit(t) \/ dbFail(t)

Next == Client \/ Room \/ WriteBacks \/ Database

Spec == Init /\ [][Next]_vars

\* The room thread keeps updating the player and running its tasks, and the
\* database thread keeps answering; clients owe nothing.
FairSpec ==
    /\ Spec
    /\ WF_vars(Room) /\ SF_vars(WriteBacks) /\ WF_vars(Database)

-----------------------------------------------------------------------------
Touching(o) == {t \in txs : o \in DOMAIN t.clone /\ t.stage \in {"db", "ok"}}

\* Once no transaction over an object is alive, memory and database hold
\* every change that was committed to it: no write-back or statement of one
\* transaction has undone another's.
NoLostUpdate ==
    \A o \in Objects :
        Touching(o) = {} => memory[o] = applied[o] /\ rows[o] = applied[o]

\* A packet in the gated queue is consumed, however often the gate is shut:
\* the queue drains or the connection ends.
GateReopens ==
    \A u \in Users : owner = u /\ gated[u] # <<>> ~> gated[u] = <<>> \/ owner # u
=============================================================================
