------------------------------- MODULE Growth -------------------------------
(***************************************************************************)
(* A loaded Player: its characters, its deck and the place it stands in    *)
(* (CharacterComponent, PlayerDB), the requests that change them           *)
(* (PktCharacterSlotChangeReq, PktStatPointModifyReq, the chat command     *)
(* "character addall"), the saves of a player whose user is gone           *)
(* (Player::disconnnectSave, reconnectOldPlayerProcess), and the rows all  *)
(* of that is written to.                                                  *)
(*                                                                         *)
(* A transaction is CacheTx seen from outside: one step writes its rows    *)
(* (CacheTx checks how), a later one copies it to memory.  The two packets *)
(* take a busy updater and are not read while one is held (PlayerTx checks *)
(* how); the chat command and the saves take none.                         *)
(***************************************************************************)
EXTENDS Roster

CONSTANTS
    CharacterInfos, \* how many characters CharacterInfoManager knows
    MaxTxs          \* bound: transactions of a behaviour

ASSUME GrowthAssumption == CharacterInfos \in Nat /\ MaxTxs \in Nat

VARIABLES
    mem,        \* Player objects: chars, deck, place (_playerDb)
    listed,     \* players in PlayerManager
    online,     \* players a user possesses
    world,      \* the world a player is in
    last,       \* _lastPublicWorldInfoId and _lastPublicWorldLocation
    txs,        \* transactions not yet settled
    started,    \* transactions so far, for MaxTxs
    rushed      \* history: players taken over while points of theirs were
                \* in flight

growthVars == <<mem, listed, online, world, last, txs, started, rushed>>

Nowhere == "nowhere"
NoPoints == [c \in {} |-> Fresh]

GrowthInit ==
    /\ mem = [p \in PlayerIds |-> NoRow]
    /\ listed = {} /\ online = {}
    /\ world = [p \in PlayerIds |-> Nowhere]
    /\ last = [p \in PlayerIds |-> Nowhere]
    /\ txs = {} /\ started = 0 /\ rushed = {}

-----------------------------------------------------------------------------
\* CharacterComponent::initializeDB: the characters that name the owner.
OwnedRows(p) == {c \in CharIds : charRows[c] # NoRow /\ charRows[c].owner = p}
LoadedChars(p) == [c \in OwnedRows(p) |-> charRows[c].points]

\* CharacterComponent::insertCharacterSlot: the deck of its rows, only once.
LoadedDeck(p) == deckRows[p]

\* What p has in flight when its next user gets it.  The busy updater is the
\* previous User's, and a new Player is not the object t was begun on.
TakenOver(p) == {IF t.pid = p THEN [t EXCEPT !.gated = FALSE] ELSE t : t \in txs}
Replaced(p) ==
    {IF t.pid = p THEN [t EXCEPT !.gated = FALSE, !.old = TRUE] ELSE t : t \in txs}

\* Points of p that its next user does not see.
Unseen(p) == {t \in txs : t.pid = p /\ DOMAIN t.points # {}}

\* Player::initializeDB and the insert into PlayerManager: a new object,
\* whatever is still in flight for the one before it.
load(p) ==
    /\ p \notin listed /\ playerRows[p] # NoRow
    /\ mem' = [mem EXCEPT ![p] = [chars |-> LoadedChars(p), deck |-> LoadedDeck(p),
                                  place |-> playerRows[p].place]]
    /\ listed' = listed \cup {p} /\ online' = online \cup {p}
    /\ world' = [world EXCEPT ![p] = Nowhere] /\ last' = [last EXCEPT ![p] = Nowhere]
    /\ txs' = Replaced(p)
    /\ rushed' = IF \E t \in Unseen(p) : t.at = "db" THEN rushed \cup {p} ELSE rushed
    /\ UNCHANGED <<rosterVars, started>>

\* A user finds the player of its account still listed.
possess(p) ==
    /\ p \in listed \ online
    /\ online' = online \cup {p}
    /\ txs' = TakenOver(p)
    /\ rushed' = IF Unseen(p) # {} THEN rushed \cup {p} ELSE rushed
    /\ UNCHANGED <<rosterVars, mem, listed, world, last, started>>

\* Player::enterWorld: first the world its row names, later any.
enterWorld(p, w) ==
    /\ p \in online /\ world[p] = Nowhere
    /\ last[p] = Nowhere => w = mem[p].place.world
    /\ world' = [world EXCEPT ![p] = w]
    /\ UNCHANGED <<rosterVars, mem, listed, online, last, txs, started, rushed>>

\* Mutant of LastAfterLeaving: any world counts as public.
LastWherever(p) == [last EXCEPT ![p] = world[p]]

\* Player::endPlay.
LastAfterLeaving(p) ==
    IF world[p] \in Villages THEN [last EXCEPT ![p] = world[p]] ELSE last

\* Player::leaveWorld on the way to another world.
leaveWorld(p) ==
    /\ p \in online /\ world[p] # Nowhere
    /\ world' = [world EXCEPT ![p] = Nowhere]
    /\ last' = LastAfterLeaving(p)
    /\ UNCHANGED <<rosterVars, mem, listed, online, txs, started, rushed>>

-----------------------------------------------------------------------------
Begin(t) ==
    /\ started < MaxTxs /\ started' = started + 1
    /\ txs' = txs \cup {[t EXCEPT !.order = started]}

\* A transaction that changes nothing yet; the requests fill in their part.
Tx(p) == [order |-> 0, at |-> "db", pid |-> p, gated |-> FALSE, adds |-> {},
          points |-> NoPoints, deck |-> NoDeck, place |-> NoRow, leaves |-> FALSE,
          old |-> FALSE]

\* Mutant of Ready: the packets take no busy updater.
ReadyAnyway(p) == p \in online

\* The packet queue is not read while a busy updater is held.
Ready(p) == p \in online /\ \A t \in txs : t.pid = p => ~t.gated

\* has_duplicates over the slots that name a character.
HasDuplicates(deck) ==
    \E s1, s2 \in DOMAIN deck : s1 # s2 /\ deck[s1] # NoId /\ deck[s1] = deck[s2]

\* CharacterDeck::exportTo: the slots and who is in them.
CurSlots(p) == mem[p].deck

\* What req names, as it says; the rest as it was.
Overlaid(deck, req) ==
    [s \in DOMAIN deck \cup DOMAIN req |-> IF s \in DOMAIN req THEN req[s] ELSE deck[s]]

\* CharacterComponent::changeSlot of the slots in req; the deck is copied
\* from memory the first time (CacheTx::acquireObject).
changeSlot(tx, p, req) ==
    IF DOMAIN req = {} THEN tx
    ELSE [tx EXCEPT !.deck = Overlaid(IF @ = NoDeck THEN CurSlots(p) ELSE @, req)]

\* Mutant of SlotsAllowed: only the request itself is looked at.
SlotsAllowedAlone(deck, req) == ~HasDuplicates(req)

\* Neither the request nor what the deck becomes holds a character twice.
SlotsAllowed(deck, req) == ~HasDuplicates(req) /\ ~HasDuplicates(Overlaid(deck, req))

slotChangeReq(p, req) ==
    /\ Ready(p)
    /\ SlotsAllowed(CurSlots(p), req)
    /\ Begin(changeSlot([Tx(p) EXCEPT !.gated = TRUE], p, req))
    /\ UNCHANGED <<rosterVars, mem, listed, online, world, last, rushed>>

Spent(points) == points.spent["Str"] + points.spent["Dex"]
                   + points.spent["Intellect"]
Total(points) == Spent(points) + points.remain

\* A request that spends anything may take no point back; one that spends
\* nothing takes all of them back.
StatAllowed(cur, req) ==
    /\ Spent(req) > 0 => /\ \A s \in Stats : req.spent[s] >= cur.spent[s]
                         /\ req.remain <= cur.remain
    /\ Total(req) = Total(cur)

\* CharacterComponent::exportTo: the points of one character as it has them.
CurDistribute(p, c) == mem[p].chars[c]

\* CharacterComponent::change: all the columns of the points.
change(tx, c, points) == [tx EXCEPT !.points = [n \in {c} |-> points]]

statModifyReq(p, c, req) ==
    /\ Ready(p) /\ world[p] # Nowhere
    /\ c \in DOMAIN mem[p].chars
    /\ StatAllowed(CurDistribute(p, c), req)
    /\ Begin(change([Tx(p) EXCEPT !.gated = TRUE], c, req))
    /\ UNCHANGED <<rosterVars, mem, listed, online, world, last, rushed>>

\* CharacterDeck::getCharacterSlot and CharacterComponent::findEmptySlots.
getCharacterSlot(deck, s) == deck[s]
findEmptySlots(p) == {s \in Slots : getCharacterSlot(CurSlots(p), s) = NoId}

\* CharacterComponent::insertCharacter: each with an id of its own.
insertCharacter(tx, ids) == [tx EXCEPT !.adds = @ \cup ids]

\* How many of S come before x.
Rank(x, S) == Cardinality({e \in S : e < x})

\* The nth new character goes to the nth empty slot, while there is one.
Placed(p, ids) ==
    LET empty == findEmptySlots(p)
        Nth(s) == {c \in ids : Rank(c, ids) = Rank(s, empty)}
    IN [s \in {e \in empty : Nth(e) # {}} |-> CHOOSE c \in Nth(s) : TRUE]

\* The command asks for a character by its INFO id, so it never finds one and
\* adds a character of every info each time.
addAll(p) ==
    LET ids == (issued.chars + 1)..(issued.chars + CharacterInfos)
    IN /\ p \in online
       /\ ids \subseteq CharIds
       /\ issued' = [issued EXCEPT !.chars = @ + CharacterInfos]
       /\ Begin(changeSlot(insertCharacter(Tx(p), ids), p, Placed(p, ids)))
       /\ UNCHANGED <<rowVars, creates, deletes, orders,
                      mem, listed, online, world, last, rushed>>

\* The place a player is saved at: where it stands in a village, else the
\* last village it left, else what its row said.
SavedPlace(p) ==
    IF world[p] \in Villages THEN [world |-> world[p], loc |-> world[p]]
    ELSE IF world[p] # Nowhere /\ last[p] # Nowhere
         THEN [world |-> last[p], loc |-> last[p]]
         ELSE mem[p].place

\* User::_closeProcess of a player in a world.
disconnnectSave(p) ==
    /\ p \in online /\ world[p] # Nowhere
    /\ online' = online \ {p}
    /\ Begin([Tx(p) EXCEPT !.place = SavedPlace(p)])
    /\ UNCHANGED <<rosterVars, mem, listed, world, last, rushed>>

\* User::_closeProcess of a player in no world: PlayerManager is asked to
\* remove the id of the USER, so the player stays listed.
closeRoomless(p) ==
    /\ p \in online /\ world[p] = Nowhere
    /\ online' = online \ {p}
    /\ UNCHANGED <<rosterVars, mem, listed, world, last, txs, started, rushed>>

\* The account plays another player: this one is saved and leaves.
reconnectOldPlayerProcess(p) ==
    /\ p \in listed \ online /\ world[p] # Nowhere
    /\ listed' = listed \ {p}
    /\ Begin([Tx(p) EXCEPT !.place = SavedPlace(p), !.leaves = TRUE])
    /\ UNCHANGED <<rosterVars, mem, online, world, last, rushed>>

\* CloseComponent::update: nobody came back in time.
closeTimeout(p) ==
    /\ p \in listed \ online /\ world[p] # Nowhere
    /\ listed' = listed \ {p}
    /\ world' = [world EXCEPT ![p] = Nowhere]
    /\ last' = LastAfterLeaving(p)
    /\ UNCHANGED <<rosterVars, mem, online, txs, started, rushed>>

\* Nothing refers to the object any more; its transactions do (CacheTx).
unload(p) ==
    /\ p \notin listed /\ mem[p] # NoRow /\ world[p] = Nowhere
    /\ \A t \in txs : t.pid = p => t.old
    /\ mem' = [mem EXCEPT ![p] = NoRow]
    /\ UNCHANGED <<rosterVars, listed, online, world, last, txs, started, rushed>>

-----------------------------------------------------------------------------
\* One database transaction; an update of a row that is gone changes nothing.
dbCommit(t) ==
    /\ t.at = "db"
    /\ charRows' = [c \in CharIds |->
          IF c \in t.adds THEN [owner |-> t.pid, points |-> Fresh]
          ELSE IF c \in DOMAIN t.points /\ charRows[c] # NoRow
               THEN [charRows[c] EXCEPT !.points = t.points[c]]
               ELSE charRows[c]]
    /\ deckRows' = IF t.deck = NoDeck THEN deckRows
                   ELSE [deckRows EXCEPT ![t.pid] = t.deck]
    /\ playerRows' = IF t.place = NoRow \/ playerRows[t.pid] = NoRow THEN playerRows
                     ELSE [playerRows EXCEPT ![t.pid].place = t.place]
    /\ txs' = (txs \ {t}) \cup {[t EXCEPT !.at = "post"]}
    /\ UNCHANGED <<itemRows, equipRows, creates, deletes, 
                   issued, orders, mem, listed, online, world, last, started, rushed>>

\* A player that was to leave does so whether its save succeeded or not; an
\* object that was replaced leaves, and nobody sees it go.
Leave(t) ==
    IF t.leaves /\ ~t.old THEN /\ world' = [world EXCEPT ![t.pid] = Nowhere]
                               /\ last' = LastAfterLeaving(t.pid)
                          ELSE UNCHANGED <<world, last>>

dbFail(t) ==
    /\ t.at = "db"
    /\ txs' = txs \ {t}
    /\ Leave(t)
    /\ UNCHANGED <<rosterVars, mem, listed, online, started, rushed>>

\* What was updated is copied to the objects it was read from.
Copied(t, m) ==
    IF t.old THEN m
    ELSE [chars |-> Overlaid(m.chars, t.points),
          deck |-> IF t.deck = NoDeck THEN m.deck ELSE t.deck,
          place |-> IF t.place = NoRow THEN m.place ELSE t.place]

\* A new character joins the player of that id that PlayerManager lists, a
\* replaced one or not, unless it has the character (PlayerCharacter::applyCache).
Joined(t, m) ==
    IF t.pid \in listed
    THEN [m EXCEPT !.chars = Overlaid([c \in t.adds |-> Fresh], @)] ELSE m

writeBack(t) ==
    /\ t.at = "post"
    /\ mem' = [mem EXCEPT ![t.pid] = Joined(t, Copied(t, @))]
    /\ txs' = txs \ {t}
    /\ Leave(t)
    /\ UNCHANGED <<rosterVars, listed, online, started, rushed>>

-----------------------------------------------------------------------------
\* What a client sends: slots with any characters there are, nobody asks
\* whose, and any distribution of a character's points.  Bound: no character
\* that is still to come.
SlotRequests ==
    UNION {[S -> 1..issued.chars \cup {NoId}] : S \in SUBSET Slots \ {{}}}
StatRequests == [spent : [Stats -> 0..StartPoints], remain : 0..StartPoints]

GrowthNext ==
    \/ \E p \in PlayerIds :
          \/ load(p) \/ possess(p) \/ leaveWorld(p)
          \/ \E w \in Worlds : enterWorld(p, w)
          \/ p \in online /\ \E req \in SlotRequests : slotChangeReq(p, req)
          \/ \E c \in CharIds, req \in StatRequests : statModifyReq(p, c, req)
          \/ addAll(p) \/ disconnnectSave(p) \/ closeRoomless(p)
          \/ reconnectOldPlayerProcess(p) \/ closeTimeout(p) \/ unload(p)
    \/ \E t \in txs : dbCommit(t) \/ dbFail(t) \/ writeBack(t)
=============================================================================
