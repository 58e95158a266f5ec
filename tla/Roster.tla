------------------------------- MODULE Roster -------------------------------
(***************************************************************************)
(* The game database rows of the players of every account, and the two     *)
(* requests of the character screen that create and delete them:           *)
(* PktPlayerCreateReqHandler and PktPlayerDeleteReqHandler.                *)
(*                                                                         *)
(* Both run as database tasks that ask for no transaction (CacheTx does,   *)
(* CacheTx.cpp:199), so a statement is a step and what it wrote stays when *)
(* the next one fails.  How many players the account has is then stored in *)
(* the login database by a task of its own, which nothing here reads back. *)
(***************************************************************************)
EXTENDS Integers, FiniteSets

CONSTANTS
    Users,          \* accounts
    Nicks,          \* player names
    MaxPlayers,     \* bound: player ids Core::IdFactory hands out
    MaxChars,       \* bound: character ids it hands out
    Slots,          \* ECharacterSlot without Max
    StartPoints,    \* the Remain column of a new character
    Worlds,         \* world info ids
    Villages,       \* those whose info says getIsVillage
    StartVillage,   \* getDefaultStartVilliageInfoId
    MaxOrders       \* bound: create and delete requests of a behaviour

PlayerIds == 1..MaxPlayers
CharIds == 1..MaxChars
NoId == 0

ASSUME RosterAssumption ==
    /\ MaxPlayers \in Nat /\ MaxChars \in Nat /\ MaxOrders \in Nat
    /\ Slots \subseteq Nat /\ 0 \in Slots
    /\ StartPoints \in Nat
    /\ Villages \subseteq Worlds /\ StartVillage \in Villages

VARIABLES
    playerRows,     \* Player table
    charRows,       \* PlayerCharacter table
    deckRows,       \* CharacterDeck table, deck 0
    itemRows,       \* players with a row of the start item
    equipRows,      \* players with an Equipment row
    creates,        \* database tasks of PlayerCreateReq
    deletes,        \* database tasks of PlayerDeleteReq
    issued,         \* ids Core::IdFactory has handed out, of either kind
    orders          \* requests so far, for MaxOrders

rowVars == <<playerRows, charRows, deckRows, itemRows, equipRows>>
rosterVars == <<rowVars, creates, deletes, issued, orders>>

NoRow == [none |-> TRUE]
NoDeck == [s \in {} |-> NoId]

\* What points are spent on.
Stats == {"Str", "Dex", "Intellect"}

Fresh == [spent |-> [s \in Stats |-> 0], remain |-> StartPoints]

RosterInit ==
    /\ playerRows = [p \in PlayerIds |-> NoRow]
    /\ charRows = [c \in CharIds |-> NoRow]
    /\ deckRows = [p \in PlayerIds |-> NoDeck]
    /\ itemRows = {} /\ equipRows = {}
    /\ creates = {} /\ deletes = {}
    /\ issued = [players |-> 0, chars |-> 0]
    /\ orders = 0

-----------------------------------------------------------------------------
\* DBOrm::Player::SelectListByUserId.
PlayersOf(u) == {p \in PlayerIds : playerRows[p] # NoRow /\ playerRows[p].user = u}

\* DBOrm::Player::SelectByNick.
NickExists(nick) ==
    \E p \in PlayerIds : playerRows[p] # NoRow /\ playerRows[p].nick = nick

Goto(t, at) == creates' = (creates \ {t}) \cup {[t EXCEPT !.at = at]}

\* The last step of the task: the login task is queued.
createDone(t) == creates' = creates \ {t}

createReq(u, nick) ==
    /\ orders < MaxOrders /\ orders' = orders + 1
    /\ creates' = creates \cup
         {[order |-> orders + 1, user |-> u, nick |-> nick, at |-> "check",
           pid |-> NoId, cid |-> NoId]}
    /\ UNCHANGED <<rowVars, deletes, issued>>

\* The nick is free and both ids are drawn.
\* Character ids are also drawn by the cheat that adds characters (Growth).
createCheck(t) ==
    /\ t.at = "check" /\ ~NickExists(t.nick)
    /\ issued.players < MaxPlayers /\ issued.chars < MaxChars
    /\ issued' = [players |-> issued.players + 1, chars |-> issued.chars + 1]
    /\ creates' = (creates \ {t}) \cup
         {[t EXCEPT !.at = "character", !.pid = issued.players + 1,
                    !.cid = issued.chars + 1]}
    /\ UNCHANGED <<rowVars, deletes, orders>>

\* The nick is taken, or an info the handler needs does not exist.
createRefuse(t) ==
    /\ t.at = "check"
    /\ creates' = creates \ {t}
    /\ UNCHANGED <<rowVars, deletes, issued, orders>>

\* Mutant of createCharacter: the player is inserted before its deck.
createCharacterNoDeck(t) ==
    /\ t.at = "character"
    /\ charRows' = [charRows EXCEPT ![t.cid] = [owner |-> t.pid, points |-> Fresh]]
    /\ Goto(t, "player")
    /\ UNCHANGED <<playerRows, deckRows, itemRows, equipRows, deletes, issued, orders>>

createCharacter(t) ==
    /\ t.at = "character"
    /\ charRows' = [charRows EXCEPT ![t.cid] = [owner |-> t.pid, points |-> Fresh]]
    /\ Goto(t, "deck")
    /\ UNCHANGED <<playerRows, deckRows, itemRows, equipRows,
                   deletes, issued, orders>>

createDeck(t) ==
    /\ t.at = "deck"
    /\ deckRows' = [deckRows EXCEPT ![t.pid] =
                      [s \in Slots |-> IF s = 0 THEN t.cid ELSE NoId]]
    /\ Goto(t, "player")
    /\ UNCHANGED <<playerRows, charRows, itemRows, equipRows,
                   deletes, issued, orders>>

\* A place is the world and the location in it; the location is told by the
\* world it belongs to.
createPlayer(t) ==
    /\ t.at = "player"
    /\ playerRows' = [playerRows EXCEPT ![t.pid] =
                        [user |-> t.user, nick |-> t.nick, rep |-> t.cid,
                         place |-> [world |-> StartVillage, loc |-> StartVillage]]]
    /\ Goto(t, "item")
    /\ UNCHANGED <<charRows, deckRows, itemRows, equipRows,
                   deletes, issued, orders>>

\* The start item, if its info exists; an equipment needs the item inserted.
createItem(t) ==
    /\ t.at = "item"
    /\ \/ itemRows' = itemRows \cup {t.pid} /\ Goto(t, "equip")
       \/ UNCHANGED itemRows /\ createDone(t)
    /\ UNCHANGED <<playerRows, charRows, deckRows, equipRows,
                   deletes, issued, orders>>

createEquip(t) ==
    /\ t.at = "equip"
    /\ \/ equipRows' = equipRows \cup {t.pid}
       \/ UNCHANGED equipRows
    /\ createDone(t)
    /\ UNCHANGED <<playerRows, charRows, deckRows, itemRows,
                   deletes, issued, orders>>

\* An insert that fails ends the task and takes nothing back.
createFail(t) ==
    /\ t.at \in {"character", "deck", "player", "item", "equip"}
    /\ creates' = creates \ {t}
    /\ UNCHANGED <<rowVars, deletes, issued, orders>>

-----------------------------------------------------------------------------
deleteReq(u, p) ==
    /\ orders < MaxOrders /\ orders' = orders + 1
    /\ p \in PlayersOf(u)
    /\ deletes' = deletes \cup {[order |-> orders + 1, pid |-> p]}
    /\ UNCHANGED <<rowVars, creates, issued>>

\* Only the Player row goes: the rows that name it stay.
deleteRow(t) ==
    /\ playerRows[t.pid] # NoRow
    /\ playerRows' = [playerRows EXCEPT ![t.pid] = NoRow]
    /\ deletes' = deletes \ {t}
    /\ UNCHANGED <<charRows, deckRows, itemRows, equipRows,
                   creates, issued, orders>>

\* The row is gone already, or the database refuses to delete it.
deleteRefuse(t) ==
    /\ deletes' = deletes \ {t}
    /\ UNCHANGED <<rowVars, creates, issued, orders>>

RosterNext ==
    \/ \E u \in Users : \/ \E nick \in Nicks : createReq(u, nick)
                        \/ \E p \in PlayerIds : deleteReq(u, p)
    \/ \E t \in creates : \/ createCheck(t) \/ createRefuse(t)
                          \/ createCharacter(t) \/ createDeck(t)
                          \/ createPlayer(t) \/ createItem(t) \/ createEquip(t)
                          \/ createFail(t)
    \/ \E t \in deletes : deleteRow(t) \/ deleteRefuse(t)
=============================================================================
