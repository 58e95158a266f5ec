---------------------------- MODULE AccountProofs ----------------------------
(***************************************************************************)
(* Players stay whole and are saved in villages, and their decks and points*)
(* stay right, for any accounts, characters, slots, worlds and bounds.     *)
(*                                                                         *)
(* PlayerIsWhole depends on where each creation is: the five inserts of    *)
(* one come one by one, and those of others, of deletions and of           *)
(* transactions, between them.  Nothing overwrites a character because an  *)
(* id is drawn once, by a creation or by the command that adds characters. *)
(* RowNamesVillage depends on every place a village can be copied from:    *)
(* memory, the last public world, and the transactions in flight.          *)
(*                                                                         *)
(* NobodyTwice and NoPartialRefund depend on what a transaction was begun  *)
(* on, which is memory, and on how far memory can be from the tables: by   *)
(* what is in flight, and for the points of a player that was taken over   *)
(* meanwhile by anything (`rushed`).                                       *)
(***************************************************************************)
EXTENDS Account, FiniteSetTheorems, TLAPS

VillagePlaces == {[world |-> v, loc |-> v] : v \in Villages}

PlayerRow == [user : Users, nick : Nicks, rep : CharIds, place : VillagePlaces]

Inserts == {"character", "deck", "player", "item", "equip"}

CreateTask == [order : Nat, user : Users, nick : Nicks, at : Inserts \cup {"check"},
               pid : 0..MaxPlayers, cid : 0..MaxChars]

IsChar(r) == r = [owner |-> r.owner, points |-> r.points]

IsTx(t) == t = [order |-> t.order, at |-> t.at, pid |-> t.pid,
                gated |-> t.gated, adds |-> t.adds, points |-> t.points,
                deck |-> t.deck, place |-> t.place, leaves |-> t.leaves, old |-> t.old]

IsMem(m) == m = [chars |-> m.chars, deck |-> m.deck, place |-> m.place]

HasIds(t) == t.at # "check"

\* What the tables hold.
RowsOK ==
    /\ playerRows \in [PlayerIds -> PlayerRow \cup {NoRow}]
    /\ charRows = [c \in CharIds |-> charRows[c]]
    /\ \A c \in CharIds : charRows[c] = NoRow \/ IsChar(charRows[c])
    /\ deckRows = [p \in PlayerIds |-> deckRows[p]]

\* Ids are drawn once: nothing is stored under one that is still to come.
IdsOK ==
    /\ issued \in [players : 0..MaxPlayers, chars : 0..MaxChars]
    /\ orders \in Nat
    /\ \A c \in CharIds : c > issued.chars => charRows[c] = NoRow

TasksOK ==
    /\ creates \subseteq CreateTask
    /\ \A t \in creates : HasIds(t) =>
          t.pid \in 1..issued.players /\ t.cid \in 1..issued.chars
    /\ \A t, u \in creates : t # u /\ HasIds(t) /\ HasIds(u) =>
          t.pid # u.pid /\ t.cid # u.cid

\* How far each creation is.
Progress ==
    \A t \in creates :
       /\ t.at = "character" => charRows[t.cid] = NoRow
       /\ t.at \in {"deck", "player"} => t.cid \in OwnedRows(t.pid)
       /\ t.at = "player" => deckRows[t.pid] # NoDeck
       /\ t.at = "equip" => t.pid \in itemRows

RosterInv == RowsOK /\ IdsOK /\ TasksOK /\ Progress /\ PlayerIsWhole

\* The transactions in flight.
TxsOK ==
    /\ \A t \in txs :
          /\ IsTx(t)
          /\ t.pid \in PlayerIds
          /\ t.adds \subseteq 1..issued.chars
          /\ t.place = NoRow \/ t.place \in VillagePlaces
          /\ t.old \/ mem[t.pid] # NoRow
          /\ t.at = "db" => \A c \in t.adds : charRows[c] = NoRow
          /\ \A u \in creates : HasIds(u) => u.cid \notin t.adds
    /\ \A t, u \in txs : t # u => t.adds \cap u.adds = {}

\* The loaded players.
LoadedOK ==
    /\ mem = [p \in PlayerIds |-> mem[p]]
    /\ last = [p \in PlayerIds |-> last[p]]
    /\ online \subseteq listed /\ listed \subseteq PlayerIds
    /\ \A p \in listed : mem[p] # NoRow
    /\ \A p \in PlayerIds :
          /\ mem[p] # NoRow => IsMem(mem[p]) /\ mem[p].place \in VillagePlaces
          /\ last[p] \in Villages \cup {Nowhere}

IInv == RosterInv /\ TxsOK /\ LoadedOK

-----------------------------------------------------------------------------
(* Records.                                                                *)

\* A character is a row.
LEMMA CharIsRow == ASSUME NEW a, NEW b PROVE [owner |-> a, points |-> b] # NoRow
  BY DEF NoRow

\* A loaded player is not an absent one.
LEMMA LoadedIsRow ==
    ASSUME NEW a, NEW b, NEW c
    PROVE  [chars |-> a, deck |-> b, place |-> c] # NoRow
  BY DEF NoRow

\* A deck over the slots is not the absent deck.
LEMMA DeckIsDeck ==
    ASSUME NEW D, D = [s \in Slots |-> D[s]] PROVE D # NoDeck
  <1>1. DOMAIN D # DOMAIN NoDeck
    BY RosterAssumption DEF NoDeck
  <1> QED BY <1>1

\* A new character has a character's columns.
LEMMA FreshIsChar ==
    ASSUME NEW a, NEW b PROVE IsChar([owner |-> a, points |-> b])
  BY DEF IsChar

\* New points leave a character its owner.
LEMMA PointsOfChar ==
    ASSUME NEW r, IsChar(r), NEW x
    PROVE  /\ IsChar([r EXCEPT !.points = x])
           /\ [r EXCEPT !.points = x].owner = r.owner
           /\ [r EXCEPT !.points = x] # NoRow
  <1>1. [r EXCEPT !.points = x] = [owner |-> r.owner, points |-> x]
    BY DEF IsChar
  <1> QED BY <1>1, CharIsRow, FreshIsChar

\* A player's row that moves is still its row.
LEMMA PlaceOfPlayer ==
    ASSUME NEW r \in PlayerRow, NEW x \in VillagePlaces
    PROVE  /\ [r EXCEPT !.place = x] \in PlayerRow
           /\ [r EXCEPT !.place = x].rep = r.rep
  BY DEF PlayerRow

\* What a step does to its own task.
LEMMA MovedTask ==
    ASSUME NEW t \in CreateTask, NEW at \in Inserts
    PROVE  LET m == [t EXCEPT !.at = at] IN
           /\ m \in CreateTask /\ m.at = at /\ m.pid = t.pid /\ m.cid = t.cid
  BY DEF CreateTask

Checked(t, p, c) == [t EXCEPT !.at = "character", !.pid = p, !.cid = c]

\* The task that has drawn its ids.
LEMMA CheckedTask ==
    ASSUME NEW t \in CreateTask, NEW p \in 0..MaxPlayers, NEW c \in 0..MaxChars
    PROVE  /\ Checked(t, p, c) \in CreateTask
           /\ Checked(t, p, c).at = "character"
           /\ Checked(t, p, c).pid = p
           /\ Checked(t, p, c).cid = c
  <1>1. Checked(t, p, c) \in CreateTask
    BY DEF Checked, CreateTask, Inserts
  <1>2. Checked(t, p, c).at = "character"
    BY DEF Checked, CreateTask
  <1>3. Checked(t, p, c).pid = p
    BY DEF Checked, CreateTask
  <1>4. Checked(t, p, c).cid = c
    BY DEF Checked, CreateTask
  <1> QED BY <1>1, <1>2, <1>3, <1>4

\* A committed transaction keeps what it wrote.
LEMMA PostedTx ==
    ASSUME NEW t, IsTx(t)
    PROVE  LET m == [t EXCEPT !.at = "post"] IN
           /\ IsTx(m) /\ m.at = "post" /\ m.pid = t.pid /\ m.adds = t.adds
           /\ m.place = t.place /\ m.deck = t.deck
           /\ m.gated = t.gated /\ m.points = t.points /\ m.old = t.old
  BY DEF IsTx

\* The order of a transaction is all that Begin gives it.
LEMMA NumberedTx ==
    ASSUME NEW t, IsTx(t), NEW n
    PROVE  LET m == [t EXCEPT !.order = n] IN
           /\ IsTx(m) /\ m.at = t.at /\ m.pid = t.pid /\ m.adds = t.adds
           /\ m.place = t.place /\ m.deck = t.deck
           /\ m.gated = t.gated /\ m.points = t.points /\ m.old = t.old
  BY DEF IsTx

\* A transaction whose player goes to its next user stores what it stored.
LEMMA HandedTx ==
    ASSUME NEW t, IsTx(t), NEW x,
           x \in {[t EXCEPT !.gated = FALSE], [t EXCEPT !.gated = FALSE, !.old = TRUE]}
    PROVE  /\ IsTx(x) /\ x.at = t.at /\ x.pid = t.pid /\ x.adds = t.adds
           /\ x.place = t.place /\ x.deck = t.deck /\ x.points = t.points
           /\ x.gated = FALSE /\ x.old \in {t.old, TRUE}
  <1>1. CASE x = [t EXCEPT !.gated = FALSE]
    BY <1>1 DEF IsTx
  <1>2. CASE x = [t EXCEPT !.gated = FALSE, !.old = TRUE]
    <2>1. x = [order |-> t.order, at |-> t.at, pid |-> t.pid,
               gated |-> FALSE, adds |-> t.adds, points |-> t.points,
               deck |-> t.deck, place |-> t.place, leaves |-> t.leaves, old |-> TRUE]
      BY <1>2 DEF IsTx
    <2> QED BY <2>1 DEF IsTx
  <1> QED BY <1>1, <1>2

\* What is written back to an object makes an object of it.
LEMMA WrittenMem ==
    ASSUME NEW t, NEW m, IsMem(m)
    PROVE  LET r == Joined(t, Copied(t, m))
               chars == IF t.old THEN m.chars ELSE Overlaid(m.chars, t.points)
           IN /\ IsMem(r) /\ r # NoRow
              /\ r.chars = IF t.pid \in listed
                           THEN Overlaid([c \in t.adds |-> Fresh], chars) ELSE chars
              /\ r.deck = IF t.old \/ t.deck = NoDeck THEN m.deck ELSE t.deck
              /\ r.place = IF t.old \/ t.place = NoRow THEN m.place ELSE t.place
  <1> DEFINE k == Copied(t, m)
             r == Joined(t, k)
             chars == IF t.old THEN m.chars ELSE Overlaid(m.chars, t.points)
             joined == Overlaid([c \in t.adds |-> Fresh], chars)
             deck == IF t.old \/ t.deck = NoDeck THEN m.deck ELSE t.deck
             place == IF t.old \/ t.place = NoRow THEN m.place ELSE t.place
  <1>1. k = [chars |-> chars, deck |-> deck, place |-> place]
    BY DEF Copied, IsMem
  <1>2. k.chars = chars
    BY <1>1
  <1>3. r = IF t.pid \in listed
            THEN [k EXCEPT !.chars = Overlaid([c \in t.adds |-> Fresh], k.chars)] ELSE k
    BY DEF Joined
  <1>4. r = IF t.pid \in listed THEN [k EXCEPT !.chars = joined] ELSE k
    BY <1>2, <1>3
  <1> HIDE DEF k, r, chars, joined, deck, place
  <1>5. r = [chars |-> IF t.pid \in listed THEN joined ELSE chars,
             deck |-> deck, place |-> place]
    BY <1>1, <1>4
  <1>6. IsMem(r) /\ r # NoRow
    BY <1>5, LoadedIsRow DEF IsMem
  <1>7. /\ r.chars = IF t.pid \in listed THEN joined ELSE chars
        /\ r.deck = deck /\ r.place = place
    BY <1>5
  <1> QED BY <1>6, <1>7 DEF k, r, chars, joined, deck, place

-----------------------------------------------------------------------------
(* The requests of the character screen.                                   *)

\* A task that goes on keeps its ids, which stay its own.
LEMMA GotoKeeps ==
    ASSUME TasksOK, NEW t \in creates, HasIds(t), UNCHANGED issued,
           NEW at \in Inserts, Goto(t, at)
    PROVE  TasksOK'
  <1> DEFINE m == [t EXCEPT !.at = at]
  <1>1. t \in CreateTask
    BY DEF TasksOK
  <1>2. m \in CreateTask /\ m.pid = t.pid /\ m.cid = t.cid
    BY <1>1, MovedTask
  <1>3. creates' = (creates \ {t}) \cup {m}
    BY DEF Goto
  <1> HIDE DEF m
  <1>4. creates' \subseteq CreateTask
    BY <1>2, <1>3 DEF TasksOK
  <1>5. \A u \in creates' : HasIds(u) =>
           u.pid \in 1..issued'.players /\ u.cid \in 1..issued'.chars
    BY <1>2, <1>3 DEF TasksOK
  <1>6. \A u, w \in creates' : u # w /\ HasIds(u) /\ HasIds(w) =>
           u.pid # w.pid /\ u.cid # w.cid
    BY <1>2, <1>3 DEF TasksOK
  <1> QED BY <1>4, <1>5, <1>6 DEF TasksOK, HasIds

\* A task that ends frees no id.
LEMMA DoneKeeps ==
    ASSUME TasksOK, NEW t, createDone(t), UNCHANGED issued
    PROVE  TasksOK'
  BY DEF TasksOK, createDone, HasIds

\* What a step of a roster owes the transactions in flight.
LEMMA TxsKept ==
    ASSUME TxsOK, UNCHANGED <<txs, mem>>,
           IdsOK, IdsOK', issued.chars <= issued'.chars,
           \A t \in txs, c \in CharIds :
              t.at = "db" /\ c \in t.adds => charRows'[c] = NoRow,
           \A u \in creates' : HasIds(u)' =>
              \A t \in txs : u.cid \notin t.adds
    PROVE  TxsOK'
  <1>1. issued.chars \in 0..MaxChars /\ issued'.chars \in 0..MaxChars
    BY DEF IdsOK
  <1>2. \A t \in txs : t.adds \subseteq 1..issued'.chars /\ t.adds \subseteq CharIds
    BY <1>1, RosterAssumption DEF TxsOK, CharIds
  <1>3. \A t \in txs : t.at = "db" => \A c \in t.adds : charRows'[c] = NoRow
    BY <1>2
  <1>4. \A t \in txs : IsTx(t)' <=> IsTx(t)
    BY DEF IsTx
  <1> QED BY <1>2, <1>3, <1>4 DEF TxsOK

\* Ids of creations in progress name rows.
LEMMA IdsAreIds ==
    ASSUME IdsOK, TasksOK, NEW t \in creates, HasIds(t)
    PROVE  /\ t \in CreateTask /\ t.pid \in PlayerIds /\ t.cid \in CharIds
           /\ t.pid \in Nat /\ t.cid \in Nat /\ t.cid <= issued.chars
           /\ t.user \in Users /\ t.nick \in Nicks
  <1>1. issued.players \in 0..MaxPlayers /\ issued.chars \in 0..MaxChars
    BY DEF IdsOK
  <1>2. t \in CreateTask /\ t.pid \in 1..issued.players /\ t.cid \in 1..issued.chars
    BY DEF TasksOK
  <1> QED BY <1>1, <1>2, RosterAssumption DEF PlayerIds, CharIds, CreateTask

\* Steps that write no row.
LEMMA RowsKept ==
    ASSUME RowsOK, PlayerIsWhole, UNCHANGED rowVars
    PROVE  RowsOK' /\ PlayerIsWhole'
  BY DEF RowsOK, PlayerIsWhole, rowVars, OwnedRows, IsChar

\* A new task has no ids yet.
LEMMA RequestKeeps ==
    ASSUME IInv, NEW u \in Users, NEW nick \in Nicks, createReq(u, nick),
           UNCHANGED growthVars
    PROVE  RosterInv' /\ TxsOK'
  <1> DEFINE m == [order |-> orders + 1, user |-> u, nick |-> nick,
                   at |-> "check", pid |-> NoId, cid |-> NoId]
  <1> USE DEF IInv, RosterInv
  <1>1. orders + 1 \in Nat /\ 0 \in 0..MaxPlayers /\ 0 \in 0..MaxChars
    BY RosterAssumption DEF IdsOK
  <1>2. m \in CreateTask /\ m.at = "check"
    BY <1>1 DEF CreateTask, Inserts, NoId
  <1>3. creates' = creates \cup {m} /\ UNCHANGED <<rowVars, issued>>
        /\ orders' = orders + 1
    BY DEF createReq
  <1> HIDE DEF m
  <1>4. TasksOK'
    BY <1>2, <1>3 DEF TasksOK, HasIds
  <1>5. IdsOK'
    BY <1>1, <1>3 DEF IdsOK, rowVars
  <1>6. Progress'
    BY <1>2, <1>3 DEF Progress, OwnedRows, rowVars, Inserts
  <1>7. RowsOK' /\ PlayerIsWhole'
    BY <1>3, RowsKept
  <1>8. TxsOK'
    <2>1. issued.chars <= issued'.chars
      BY <1>3 DEF IdsOK
    <2>2. \A w \in creates' : HasIds(w)' => \A x \in txs : w.cid \notin x.adds
      BY <1>2, <1>3 DEF TxsOK, HasIds
    <2>3. \A x \in txs, c \in CharIds :
             x.at = "db" /\ c \in x.adds => charRows'[c] = NoRow
      BY <1>3 DEF TxsOK, rowVars
    <2> QED BY <1>5, <2>1, <2>2, <2>3, TxsKept DEF growthVars
  <1> QED BY <1>4, <1>5, <1>6, <1>7, <1>8

\* The ids a task draws are beyond every id in use.
LEMMA CheckKeeps ==
    ASSUME IInv, NEW t \in creates, createCheck(t), UNCHANGED growthVars
    PROVE  RosterInv' /\ TxsOK'
  <1> DEFINE m == Checked(t, issued.players + 1, issued.chars + 1)
  <1> USE DEF IInv, RosterInv
  <1>1. /\ issued.players \in Nat /\ issued.players < MaxPlayers
        /\ issued.chars \in Nat /\ issued.chars < MaxChars
        /\ MaxPlayers \in Nat /\ MaxChars \in Nat
    BY RosterAssumption DEF IdsOK, createCheck
  <1>2. t \in CreateTask
    BY DEF TasksOK
  <1>3. /\ m \in CreateTask /\ m.at = "character"
        /\ m.pid = issued.players + 1 /\ m.cid = issued.chars + 1
    <2>1. issued.players + 1 \in 0..MaxPlayers /\ issued.chars + 1 \in 0..MaxChars
      BY <1>1
    <2> QED BY <1>2, <2>1, CheckedTask
  <1>4. /\ creates' = (creates \ {t}) \cup {m} /\ UNCHANGED <<rowVars, orders>>
        /\ issued' = [players |-> issued.players + 1, chars |-> issued.chars + 1]
    BY DEF createCheck, Checked
  <1> HIDE DEF m
  <1>5. IdsOK'
    BY <1>1, <1>4 DEF IdsOK, rowVars, CharIds
  <1>6. TasksOK'
    <2>1. creates' \subseteq CreateTask
      BY <1>3, <1>4 DEF TasksOK
    <2>2. \A w \in creates \ {t} : HasIds(w) =>
             w.pid \in 1..issued.players /\ w.cid \in 1..issued.chars
      BY DEF TasksOK
    <2>3. \A w \in creates' : HasIds(w) =>
             w.pid \in 1..issued'.players /\ w.cid \in 1..issued'.chars
      BY <1>1, <1>3, <1>4, <2>2
    <2>4. \A w \in creates \ {t} : HasIds(w) => w.pid # m.pid /\ w.cid # m.cid
      BY <1>1, <1>3, <2>2
    <2>5. \A w, x \in creates' : w # x /\ HasIds(w) /\ HasIds(x) =>
             w.pid # x.pid /\ w.cid # x.cid
      BY <1>4, <2>4 DEF TasksOK
    <2> QED BY <2>1, <2>3, <2>5 DEF TasksOK, HasIds
  <1>7. Progress'
    <2>1. charRows[m.cid] = NoRow
      BY <1>1, <1>3 DEF IdsOK, CharIds
    <2>2. UNCHANGED <<charRows, deckRows, itemRows>>
      BY <1>4 DEF rowVars
    <2> QED BY <1>3, <1>4, <2>1, <2>2 DEF Progress, OwnedRows
  <1>8. RowsOK' /\ PlayerIsWhole'
    BY <1>4, RowsKept
  <1>9. TxsOK'
    <2>1. issued.chars <= issued'.chars
      BY <1>1, <1>4
    <2>2. \A x \in txs : m.cid \notin x.adds
      BY <1>1, <1>3 DEF TxsOK
    <2>3. \A w \in creates' : HasIds(w)' => \A x \in txs : w.cid \notin x.adds
      BY <1>4, <2>2 DEF TxsOK, HasIds
    <2>4. \A x \in txs, c \in CharIds :
             x.at = "db" /\ c \in x.adds => charRows'[c] = NoRow
      BY <1>4 DEF TxsOK, rowVars
    <2> QED BY <1>5, <2>1, <2>3, <2>4, TxsKept DEF growthVars
  <1> QED BY <1>5, <1>6, <1>7, <1>8, <1>9

\* A task that ends, and requests and deletions that leave creations alone.
LEMMA FewerTasks ==
    ASSUME IInv, creates' \subseteq creates, UNCHANGED <<rowVars, issued>>,
           orders' \in Nat, UNCHANGED growthVars
    PROVE  RosterInv' /\ TxsOK'
  <1> USE DEF IInv, RosterInv
  <1>1. IdsOK'
    BY DEF IdsOK, rowVars
  <1>2. TasksOK'
    BY DEF TasksOK, HasIds
  <1>3. Progress'
    BY DEF Progress, OwnedRows, rowVars
  <1>4. RowsOK' /\ PlayerIsWhole'
    BY RowsKept
  <1>5. TxsOK'
    <2>1. issued.chars <= issued'.chars
      BY DEF IdsOK
    <2>2. \A w \in creates' : HasIds(w)' => \A x \in txs : w.cid \notin x.adds
      BY DEF TxsOK, HasIds
    <2>3. \A x \in txs, c \in CharIds :
             x.at = "db" /\ c \in x.adds => charRows'[c] = NoRow
      BY DEF TxsOK, rowVars
    <2> QED BY <1>1, <2>1, <2>2, <2>3, TxsKept DEF growthVars
  <1> QED BY <1>1, <1>2, <1>3, <1>4, <1>5

\* The first insert writes a row that was not there.
LEMMA CharacterKeeps ==
    ASSUME IInv, NEW t \in creates, createCharacter(t), UNCHANGED growthVars
    PROVE  RosterInv' /\ TxsOK'
  <1> DEFINE m == [t EXCEPT !.at = "deck"]
             r == [owner |-> t.pid, points |-> Fresh]
  <1> USE DEF IInv, RosterInv
  <1>1. t.at = "character" /\ HasIds(t) /\ "deck" \in Inserts
    BY DEF createCharacter, HasIds, Inserts
  <1>2. /\ t \in CreateTask /\ t.pid \in PlayerIds /\ t.cid \in CharIds
        /\ t.cid \in Nat /\ t.cid <= issued.chars
    BY <1>1, IdsAreIds
  <1>3. m.at = "deck" /\ m.pid = t.pid /\ m.cid = t.cid
    BY <1>1, <1>2, MovedTask
  <1>4. /\ creates' = (creates \ {t}) \cup {m} /\ Goto(t, "deck")
        /\ charRows' = [charRows EXCEPT ![t.cid] = r]
        /\ UNCHANGED <<playerRows, deckRows, itemRows, equipRows, issued, orders>>
    BY DEF createCharacter, Goto
  <1>5. IsChar(r) /\ r # NoRow /\ r.owner = t.pid
    BY FreshIsChar, CharIsRow
  <1> HIDE DEF m, r
  <1>6. charRows' = [c \in CharIds |-> IF c = t.cid THEN r ELSE charRows[c]]
    BY <1>4 DEF RowsOK
  <1>7. \A c \in CharIds : charRows'[c] = IF c = t.cid THEN r ELSE charRows[c]
    BY <1>6
  <1>8. charRows[t.cid] = NoRow
    BY <1>1 DEF Progress
  <1>9. RowsOK'
    BY <1>4, <1>5, <1>6, <1>7 DEF RowsOK, IsChar
  <1>10. IdsOK'
    BY <1>2, <1>4, <1>7 DEF IdsOK
  <1>11. TasksOK'
    BY <1>1, <1>4, GotoKeeps
  <1>12. \A p \in PlayerIds : OwnedRows(p) \subseteq OwnedRows(p)'
    BY <1>7, <1>8 DEF OwnedRows
  <1>13. PlayerIsWhole'
    BY <1>4, <1>12 DEF PlayerIsWhole
  <1>14. Progress'
    <2>1. t.cid \in OwnedRows(t.pid)'
      BY <1>2, <1>5, <1>7 DEF OwnedRows
    <2>2. \A w \in creates \ {t} : HasIds(w) =>
             w.cid # t.cid /\ w.cid \in CharIds /\ w.pid \in PlayerIds
      BY <1>1, IdsAreIds DEF TasksOK
    <2>3. \A w \in creates \ {t} :
            /\ w.at = "character" => charRows'[w.cid] = NoRow
            /\ w.at \in {"deck", "player"} => w.cid \in OwnedRows(w.pid)'
      BY <1>7, <1>12, <2>2 DEF Progress, HasIds
    <2> QED BY <1>3, <1>4, <2>1, <2>3 DEF Progress
  <1>15. TxsOK'
    <2>1. issued.chars <= issued'.chars
      BY <1>4 DEF IdsOK
    <2>2. \A w \in creates' : HasIds(w)' => \A x \in txs : w.cid \notin x.adds
      BY <1>1, <1>3, <1>4 DEF TxsOK, HasIds
    <2>3. \A x \in txs, c \in CharIds :
             x.at = "db" /\ c \in x.adds => charRows'[c] = NoRow
      BY <1>1, <1>7 DEF TxsOK
    <2> QED BY <1>10, <2>1, <2>2, <2>3, TxsKept DEF growthVars
  <1> QED BY <1>9, <1>10, <1>11, <1>13, <1>14, <1>15

\* The inserts after the first one store no character.
LEMMA InsertKeeps ==
    ASSUME IInv, NEW t \in creates, HasIds(t), UNCHANGED growthVars,
           NEW at \in Inserts, Goto(t, at) \/ createDone(t),
           UNCHANGED <<charRows, issued, orders>>
    PROVE  IdsOK' /\ TasksOK' /\ TxsOK'
  <1> USE DEF IInv, RosterInv
  <1>1. IdsOK'
    BY DEF IdsOK
  <1>2. TasksOK'
    BY GotoKeeps, DoneKeeps
  <1>3. t \in CreateTask
    BY IdsAreIds
  <1>4. \A w \in creates' : HasIds(w)' => \E x \in creates : HasIds(x) /\ x.cid = w.cid
    <2> DEFINE m == [t EXCEPT !.at = at]
    <2>1. m.cid = t.cid
      BY <1>3, MovedTask
    <2>2. creates' \subseteq creates \cup {m}
      BY DEF Goto, createDone
    <2> HIDE DEF m
    <2> QED BY <2>1, <2>2 DEF HasIds
  <1>5. TxsOK'
    <2>1. issued.chars <= issued'.chars
      BY DEF IdsOK
    <2>2. \A w \in creates' : HasIds(w)' => \A x \in txs : w.cid \notin x.adds
      BY <1>4 DEF TxsOK
    <2>3. \A x \in txs, c \in CharIds :
             x.at = "db" /\ c \in x.adds => charRows'[c] = NoRow
      BY DEF TxsOK
    <2> QED BY <1>1, <2>1, <2>2, <2>3, TxsKept DEF growthVars
  <1> QED BY <1>1, <1>2, <1>5

\* The deck is stored after its character.
LEMMA DeckKeeps ==
    ASSUME IInv, NEW t \in creates, createDeck(t), UNCHANGED growthVars
    PROVE  RosterInv' /\ TxsOK'
  <1> DEFINE m == [t EXCEPT !.at = "player"]
             d == [s \in Slots |-> IF s = 0 THEN t.cid ELSE NoId]
  <1> USE DEF IInv, RosterInv
  <1>1. t.at = "deck" /\ HasIds(t) /\ "player" \in Inserts
    BY DEF createDeck, HasIds, Inserts
  <1>2. t \in CreateTask /\ t.pid \in PlayerIds
    BY <1>1, IdsAreIds
  <1>3. m.at = "player" /\ m.pid = t.pid /\ m.cid = t.cid
    BY <1>1, <1>2, MovedTask
  <1>4. /\ creates' = (creates \ {t}) \cup {m} /\ Goto(t, "player")
        /\ deckRows' = [deckRows EXCEPT ![t.pid] = d]
        /\ UNCHANGED <<playerRows, charRows, itemRows, equipRows, issued, orders>>
    BY DEF createDeck, Goto
  <1>5. d # NoDeck
    <2>1. d = [s \in Slots |-> d[s]]
      OBVIOUS
    <2> HIDE DEF d
    <2> QED BY <2>1, DeckIsDeck
  <1> HIDE DEF m, d
  <1>6. deckRows' = [p \in PlayerIds |-> IF p = t.pid THEN d ELSE deckRows[p]]
    BY <1>4 DEF RowsOK
  <1>7. \A p \in PlayerIds : deckRows[p] # NoDeck => deckRows'[p] # NoDeck
    BY <1>5, <1>6
  <1>8. RowsOK'
    BY <1>4, <1>6 DEF RowsOK, IsChar
  <1>9. PlayerIsWhole'
    BY <1>4, <1>7 DEF PlayerIsWhole, OwnedRows
  <1>10. Progress'
    <2>1. t.cid \in OwnedRows(t.pid)
      BY <1>1 DEF Progress
    <2>2. deckRows'[t.pid] # NoDeck
      BY <1>2, <1>5, <1>6
    <2>3. \A w \in creates : w.at = "player" => w.pid \in PlayerIds
      BY IdsAreIds DEF HasIds
    <2>4. \A w \in creates : w.at = "player" => deckRows'[w.pid] # NoDeck
      BY <1>7, <2>3 DEF Progress
    <2>5. \A p : OwnedRows(p)' = OwnedRows(p)
      BY <1>4 DEF OwnedRows
    <2> QED BY <1>3, <1>4, <2>1, <2>2, <2>4, <2>5 DEF Progress
  <1> QED BY <1>1, <1>4, <1>8, <1>9, <1>10, InsertKeeps

\* The player is stored after its deck and character.
LEMMA PlayerKeeps ==
    ASSUME IInv, NEW t \in creates, createPlayer(t), UNCHANGED growthVars
    PROVE  RosterInv' /\ TxsOK'
  <1> DEFINE m == [t EXCEPT !.at = "item"]
             r == [user |-> t.user, nick |-> t.nick, rep |-> t.cid,
                   place |-> [world |-> StartVillage, loc |-> StartVillage]]
  <1> USE DEF IInv, RosterInv
  <1>1. t.at = "player" /\ HasIds(t) /\ "item" \in Inserts
    BY DEF createPlayer, HasIds, Inserts
  <1>2. /\ t \in CreateTask /\ t.pid \in PlayerIds /\ t.cid \in CharIds
        /\ t.user \in Users /\ t.nick \in Nicks
    BY <1>1, IdsAreIds
  <1>3. m.at = "item" /\ m.pid = t.pid
    BY <1>1, <1>2, MovedTask
  <1>4. /\ creates' = (creates \ {t}) \cup {m} /\ Goto(t, "item")
        /\ playerRows' = [playerRows EXCEPT ![t.pid] = r]
        /\ UNCHANGED <<charRows, deckRows, itemRows, equipRows, issued, orders>>
    BY DEF createPlayer, Goto
  <1>5. r \in PlayerRow /\ r.rep = t.cid
    <2>1. [world |-> StartVillage, loc |-> StartVillage] \in VillagePlaces
      BY RosterAssumption DEF VillagePlaces
    <2> QED BY <1>2, <2>1 DEF PlayerRow
  <1> HIDE DEF m, r
  <1>6. \A p \in PlayerIds : playerRows'[p] = IF p = t.pid THEN r ELSE playerRows[p]
    BY <1>4 DEF RowsOK
  <1>7. RowsOK'
    <2>1. playerRows' \in [PlayerIds -> PlayerRow \cup {NoRow}]
      BY <1>4, <1>5 DEF RowsOK
    <2> QED BY <1>4, <2>1 DEF RowsOK, IsChar
  <1>8. PlayerIsWhole'
    <2>1. deckRows[t.pid] # NoDeck /\ t.cid \in OwnedRows(t.pid)
      BY <1>1 DEF Progress
    <2>2. \A p : OwnedRows(p)' = OwnedRows(p)
      BY <1>4 DEF OwnedRows
    <2> QED BY <1>4, <1>5, <1>6, <2>1, <2>2 DEF PlayerIsWhole
  <1>9. Progress'
    BY <1>3, <1>4 DEF Progress, OwnedRows
  <1> QED BY <1>1, <1>4, <1>7, <1>8, <1>9, InsertKeeps

\* The item is stored before the equipment that names it.
LEMMA ItemKeeps ==
    ASSUME IInv, NEW t \in creates, createItem(t), UNCHANGED growthVars
    PROVE  RosterInv' /\ TxsOK'
  <1> DEFINE m == [t EXCEPT !.at = "equip"]
  <1> USE DEF IInv, RosterInv
  <1>1. t.at = "item" /\ HasIds(t) /\ "equip" \in Inserts
    BY DEF createItem, HasIds, Inserts
  <1>2. m.at = "equip" /\ m.pid = t.pid
    BY <1>1, IdsAreIds, MovedTask
  <1>3. /\ \/ Goto(t, "equip") /\ creates' = (creates \ {t}) \cup {m}
              /\ itemRows' = itemRows \cup {t.pid}
           \/ createDone(t) /\ creates' = creates \ {t} /\ UNCHANGED itemRows
        /\ UNCHANGED <<playerRows, charRows, deckRows, equipRows, issued, orders>>
    BY DEF createItem, Goto, createDone
  <1> HIDE DEF m
  <1>4. RowsOK'
    BY <1>3 DEF RowsOK, IsChar
  <1>5. PlayerIsWhole'
    BY <1>3 DEF PlayerIsWhole, OwnedRows
  <1>6. Progress'
    BY <1>2, <1>3 DEF Progress, OwnedRows
  <1> QED BY <1>1, <1>3, <1>4, <1>5, <1>6, InsertKeeps

\* The equipment names an item that is stored.
LEMMA EquipKeeps ==
    ASSUME IInv, NEW t \in creates, createEquip(t), UNCHANGED growthVars
    PROVE  RosterInv' /\ TxsOK'
  <1> USE DEF IInv, RosterInv
  <1>1. t.at = "equip" /\ HasIds(t) /\ "equip" \in Inserts /\ t.pid \in itemRows
    BY DEF createEquip, HasIds, Inserts, Progress
  <1>2. /\ createDone(t) /\ creates' = creates \ {t}
        /\ equipRows' \subseteq equipRows \cup {t.pid}
        /\ UNCHANGED <<playerRows, charRows, deckRows, itemRows, issued, orders>>
    BY DEF createEquip, createDone
  <1>3. RowsOK'
    BY <1>2 DEF RowsOK, IsChar
  <1>4. PlayerIsWhole'
    BY <1>1, <1>2 DEF PlayerIsWhole, OwnedRows
  <1>5. Progress'
    BY <1>2 DEF Progress, OwnedRows
  <1> QED BY <1>1, <1>2, <1>3, <1>4, <1>5, InsertKeeps

\* Only the Player row goes, and with it the claim about it.
LEMMA DeleteKeeps ==
    ASSUME IInv, NEW t \in deletes, deleteRow(t), UNCHANGED growthVars
    PROVE  RosterInv' /\ TxsOK'
  <1> USE DEF IInv, RosterInv
  <1>1. /\ playerRows' = [playerRows EXCEPT ![t.pid] = NoRow]
        /\ UNCHANGED <<charRows, deckRows, itemRows, equipRows,
                       creates, issued, orders>>
    BY DEF deleteRow
  <1>2. \A p \in PlayerIds : playerRows'[p] \in {playerRows[p], NoRow}
    BY <1>1 DEF RowsOK
  <1>3. RowsOK'
    <2>1. playerRows' \in [PlayerIds -> PlayerRow \cup {NoRow}]
      BY <1>1 DEF RowsOK
    <2> QED BY <1>1, <2>1 DEF RowsOK, IsChar
  <1>4. IdsOK' /\ TasksOK'
    BY <1>1 DEF IdsOK, TasksOK, HasIds
  <1>5. Progress'
    BY <1>1 DEF Progress, OwnedRows
  <1>6. PlayerIsWhole'
    BY <1>1, <1>2 DEF PlayerIsWhole, OwnedRows
  <1>7. TxsOK'
    BY <1>1 DEF TxsOK, IsTx, HasIds, growthVars
  <1> QED BY <1>3, <1>4, <1>5, <1>6, <1>7

\* Every step of the character screen.
LEMMA RosterKeeps ==
    ASSUME IInv, RosterNext, UNCHANGED growthVars
    PROVE  IInv'
  <1>1. LoadedOK'
    BY DEF IInv, LoadedOK, growthVars
  <1>2. orders \in Nat /\ orders + 1 \in Nat
    BY DEF IInv, RosterInv, IdsOK
  <1>3. ASSUME NEW u \in Users, NEW nick \in Nicks, createReq(u, nick)
        PROVE  RosterInv' /\ TxsOK'
    BY <1>3, RequestKeeps
  <1>4. ASSUME NEW u \in Users, NEW p \in PlayerIds, deleteReq(u, p)
        PROVE  RosterInv' /\ TxsOK'
    BY <1>2, <1>4, FewerTasks DEF deleteReq
  <1>5. ASSUME NEW t \in creates,
               \/ createCheck(t) \/ createRefuse(t)
               \/ createCharacter(t) \/ createDeck(t)
               \/ createPlayer(t) \/ createItem(t) \/ createEquip(t)
               \/ createFail(t)
        PROVE  RosterInv' /\ TxsOK'
    <2>1. CASE createCheck(t)
      BY <2>1, CheckKeeps
    <2>2. CASE createRefuse(t)
      BY <1>2, <2>2, FewerTasks DEF createRefuse
    <2>3. CASE createCharacter(t)
      BY <2>3, CharacterKeeps
    <2>4. CASE createDeck(t)
      BY <2>4, DeckKeeps
    <2>5. CASE createPlayer(t)
      BY <2>5, PlayerKeeps
    <2>6. CASE createItem(t)
      BY <2>6, ItemKeeps
    <2>7. CASE createEquip(t)
      BY <2>7, EquipKeeps
    <2>8. CASE createFail(t)
      BY <1>2, <2>8, FewerTasks DEF createFail
    <2> QED BY <1>5, <2>1, <2>2, <2>3, <2>4, <2>5, <2>6, <2>7, <2>8
  <1>6. ASSUME NEW t \in deletes, deleteRow(t) \/ deleteRefuse(t)
        PROVE  RosterInv' /\ TxsOK'
    <2>1. CASE deleteRow(t)
      BY <2>1, DeleteKeeps
    <2>2. CASE deleteRefuse(t)
      BY <1>2, <2>2, FewerTasks DEF deleteRefuse
    <2> QED BY <1>6, <2>1, <2>2
  <1>7. RosterInv' /\ TxsOK'
    BY <1>3, <1>4, <1>5, <1>6 DEF RosterNext
  <1> QED BY <1>1, <1>7 DEF IInv

-----------------------------------------------------------------------------
(* Loaded players and their transactions.                                  *)

\* Steps that leave the rows and the tasks alone.
LEMMA RosterKept ==
    ASSUME RosterInv, UNCHANGED rosterVars
    PROVE  RosterInv'
  <1>1. UNCHANGED <<playerRows, charRows, deckRows, itemRows, equipRows,
                    creates, issued, orders>>
    BY DEF rosterVars, rowVars
  <1>2. RowsOK' /\ PlayerIsWhole'
    BY <1>1, RowsKept DEF RosterInv, rowVars
  <1>3. IdsOK' /\ TasksOK' /\ Progress'
    BY <1>1 DEF RosterInv, IdsOK, TasksOK, Progress, OwnedRows, HasIds
  <1> QED BY <1>2, <1>3 DEF RosterInv

\* A place a player can be saved at is in a village.
LEMMA SavedInVillage ==
    ASSUME LoadedOK, NEW p \in listed
    PROVE  SavedPlace(p) \in VillagePlaces
  <1>1. p \in PlayerIds /\ mem[p].place \in VillagePlaces
    BY DEF LoadedOK
  <1>2. last[p] # Nowhere => last[p] \in Villages
    BY <1>1 DEF LoadedOK
  <1> QED BY <1>1, <1>2 DEF SavedPlace, VillagePlaces

\* The last public world is a village.
LEMMA LastIsVillage ==
    ASSUME LoadedOK, NEW p,
           last' = LastAfterLeaving(p) \/ last' = last
    PROVE  /\ last' = [q \in PlayerIds |-> last'[q]]
           /\ \A q \in PlayerIds : last'[q] \in Villages \cup {Nowhere}
  BY DEF LoadedOK, LastAfterLeaving

\* A transaction that begins.
LEMMA BeginKeeps ==
    ASSUME TxsOK, IdsOK, NEW t, Begin(t),
           IsTx(t), t.pid \in PlayerIds, mem[t.pid] # NoRow, t.at = "db",
           t.place = NoRow \/ t.place \in VillagePlaces,
           t.adds \subseteq (issued.chars + 1)..issued'.chars,
           issued'.chars \in Nat, issued.chars <= issued'.chars,
           \A c \in t.adds : charRows[c] = NoRow,
           \A u \in creates : HasIds(u) => u.cid \in 1..issued.chars,
           UNCHANGED <<charRows, creates, mem>>
    PROVE  TxsOK'
  <1> DEFINE m == [t EXCEPT !.order = started]
  <1>1. /\ IsTx(m) /\ m.at = t.at /\ m.pid = t.pid /\ m.adds = t.adds
        /\ m.place = t.place
    BY NumberedTx
  <1>2. txs' = txs \cup {m}
    BY DEF Begin
  <1> HIDE DEF m
  <1>3. issued.chars \in Nat
    BY RosterAssumption DEF IdsOK
  <1>4. \A x \in txs : x.adds \cap m.adds = {} /\ x.adds \subseteq 1..issued'.chars
    BY <1>1, <1>3 DEF TxsOK
  <1>5. m.adds \subseteq 1..issued'.chars
    BY <1>1, <1>3
  <1>6. \A u \in creates : HasIds(u) => u.cid \notin m.adds
    BY <1>1, <1>3
  <1>7. \A x \in txs' :
          /\ IsTx(x)
          /\ x.pid \in PlayerIds
          /\ x.adds \subseteq 1..issued'.chars
          /\ x.place = NoRow \/ x.place \in VillagePlaces
          /\ x.old \/ mem[x.pid] # NoRow
          /\ x.at = "db" => \A c \in x.adds : charRows[c] = NoRow
          /\ \A u \in creates : HasIds(u) => u.cid \notin x.adds
    BY <1>1, <1>2, <1>4, <1>5, <1>6 DEF TxsOK
  <1>8. \A x, y \in txs' : x # y => x.adds \cap y.adds = {}
    BY <1>2, <1>4 DEF TxsOK
  <1> QED BY <1>7, <1>8 DEF TxsOK, IsTx, HasIds

\* What a transaction starts as.
LEMMA EmptyTx ==
    ASSUME NEW p
    PROVE  /\ IsTx(Tx(p)) /\ Tx(p).pid = p /\ Tx(p).at = "db"
           /\ Tx(p).adds = {} /\ Tx(p).place = NoRow
  <1>1. ASSUME NEW g, NEW l
        PROVE  IsTx([order |-> 0, at |-> "db", pid |-> p, gated |-> g, adds |-> {},
                     points |-> NoPoints, deck |-> NoDeck, place |-> NoRow,
                     leaves |-> l, old |-> FALSE])
    BY DEF IsTx
  <1>2. Tx(p).pid = p /\ Tx(p).at = "db"
    BY DEF Tx
  <1>3. Tx(p).adds = {} /\ Tx(p).place = NoRow
    BY DEF Tx
  <1> QED BY <1>1, <1>2, <1>3 DEF Tx

\* What a transaction starts without.
LEMMA EmptyTxLacks ==
    ASSUME NEW p
    PROVE  /\ Tx(p).gated = FALSE /\ Tx(p).old = FALSE
           /\ Tx(p).points = NoPoints /\ Tx(p).deck = NoDeck
  BY DEF Tx

\* A slot change stores a deck and takes the gate.
LEMMA SlotFields ==
    ASSUME NEW p, NEW req
    PROVE  LET t == changeSlot([Tx(p) EXCEPT !.gated = TRUE], p, req) IN
           /\ IsTx(t) /\ t.pid = p /\ t.at = "db" /\ t.adds = {} /\ t.gated
           /\ t.place = NoRow /\ DOMAIN t.points = {}
           /\ t.deck \in {NoDeck, Overlaid(CurSlots(p), req)}
  <1> DEFINE g == [Tx(p) EXCEPT !.gated = TRUE]
  <1>1. /\ IsTx(g) /\ g.pid = p /\ g.at = "db" /\ g.adds = {} /\ g.gated
        /\ g.points = NoPoints /\ g.deck = NoDeck /\ g.place = NoRow
    <2> DEFINE e == Tx(p)
    <2>1. /\ IsTx(e) /\ e.pid = p /\ e.at = "db" /\ e.adds = {}
          /\ e.points = NoPoints /\ e.deck = NoDeck /\ e.place = NoRow
      BY EmptyTx, EmptyTxLacks
    <2>2. g = [e EXCEPT !.gated = TRUE]
      OBVIOUS
    <2> HIDE DEF e, g
    <2> QED BY <2>1, <2>2 DEF IsTx
  <1> HIDE DEF g
  <1>2. CASE DOMAIN req = {}
    BY <1>1, <1>2 DEF changeSlot, NoPoints, g
  <1>3. CASE DOMAIN req # {}
    <2> DEFINE d == Overlaid(CurSlots(p), req)
    <2>1. changeSlot(g, p, req) = [g EXCEPT !.deck = d]
      BY <1>1, <1>3 DEF changeSlot
    <2> HIDE DEF d
    <2>2. LET t == [g EXCEPT !.deck = d] IN
          /\ IsTx(t) /\ t.pid = p /\ t.at = "db" /\ t.adds = {} /\ t.gated
          /\ t.points = NoPoints /\ t.deck = d /\ t.place = NoRow
      BY <1>1 DEF IsTx
    <2> QED BY <2>1, <2>2 DEF NoPoints, d, g
  <1> QED BY <1>2, <1>3

\* A request for points stores those of one character and takes the gate.
LEMMA PointsFields ==
    ASSUME NEW p, NEW c, NEW req
    PROVE  LET t == change([Tx(p) EXCEPT !.gated = TRUE], c, req) IN
           /\ IsTx(t) /\ t.pid = p /\ t.at = "db" /\ t.adds = {} /\ t.gated
           /\ t.place = NoRow /\ t.deck = NoDeck
           /\ DOMAIN t.points = {c} /\ t.points[c] = req /\ ~t.old
  <1> DEFINE e == Tx(p)
             g == [e EXCEPT !.gated = TRUE]
             f == [n \in {c} |-> req]
             t == change(g, c, req)
  <1>1. /\ IsTx(e) /\ e.pid = p /\ e.at = "db" /\ e.adds = {}
        /\ e.deck = NoDeck /\ e.place = NoRow /\ ~e.old
    BY EmptyTx, EmptyTxLacks
  <1> HIDE DEF e
  <1>2. /\ IsTx(g) /\ g.pid = p /\ g.at = "db" /\ g.adds = {} /\ g.gated
        /\ g.deck = NoDeck /\ g.place = NoRow /\ ~g.old
    <2>1. g = [e EXCEPT !.gated = TRUE]
      OBVIOUS
    <2> HIDE DEF g
    <2> QED BY <1>1, <2>1 DEF IsTx
  <1>3. t = [g EXCEPT !.points = f]
    BY DEF change
  <1>4. DOMAIN f = {c} /\ f[c] = req
    OBVIOUS
  <1> HIDE DEF g, f, t
  <1>5. /\ IsTx(t) /\ t.pid = p /\ t.at = "db" /\ t.adds = {} /\ t.gated
        /\ t.deck = NoDeck /\ t.place = NoRow /\ t.points = f /\ ~t.old
    BY <1>2, <1>3 DEF IsTx
  <1>6. t = change([Tx(p) EXCEPT !.gated = TRUE], c, req)
    BY DEF t, g, e
  <1> QED BY <1>4, <1>5, <1>6

\* The command stores characters and a deck and takes no gate.
LEMMA AddFields ==
    ASSUME NEW p, NEW ids, NEW req
    PROVE  LET t == changeSlot(insertCharacter(Tx(p), ids), p, req) IN
           /\ IsTx(t) /\ t.pid = p /\ t.at = "db" /\ t.adds = ids /\ ~t.gated
           /\ t.place = NoRow /\ DOMAIN t.points = {}
           /\ t.deck \in {NoDeck, Overlaid(CurSlots(p), req)}
  <1> DEFINE e == Tx(p)
             i == insertCharacter(e, ids)
             t == changeSlot(i, p, req)
             d == Overlaid(CurSlots(p), req)
  <1>1. /\ IsTx(e) /\ e.pid = p /\ e.at = "db" /\ e.adds = {} /\ ~e.gated
        /\ e.deck = NoDeck /\ e.points = NoPoints /\ e.place = NoRow
    BY EmptyTx, EmptyTxLacks
  <1> HIDE DEF e
  <1>2. i = [e EXCEPT !.adds = ids]
    BY <1>1 DEF insertCharacter
  <1> HIDE DEF i
  <1>3. /\ IsTx(i) /\ i.pid = p /\ i.at = "db" /\ i.adds = ids /\ ~i.gated
        /\ i.deck = NoDeck /\ i.points = NoPoints /\ i.place = NoRow
    BY <1>1, <1>2 DEF IsTx
  <1>4. t = i \/ t = [i EXCEPT !.deck = d]
    BY <1>3 DEF changeSlot
  <1> HIDE DEF d, t
  <1>5. /\ IsTx(t) /\ t.pid = p /\ t.at = "db" /\ t.adds = ids /\ ~t.gated
        /\ t.deck \in {NoDeck, d} /\ t.points = NoPoints /\ t.place = NoRow
    BY <1>3, <1>4 DEF IsTx
  <1>6. t = changeSlot(insertCharacter(Tx(p), ids), p, req)
    BY DEF t, i, e
  <1> QED BY <1>5, <1>6 DEF NoPoints, d

\* A save stores a place.
LEMMA SaveFields ==
    ASSUME NEW p, NEW x
    PROVE  LET t == [Tx(p) EXCEPT !.place = x] IN
           /\ IsTx(t) /\ t.pid = p /\ t.at = "db" /\ t.adds = {} /\ ~t.gated
           /\ t.deck = NoDeck /\ DOMAIN t.points = {} /\ t.place = x
  <1> DEFINE e == Tx(p)
             s == [e EXCEPT !.place = x]
  <1>1. /\ IsTx(e) /\ e.pid = p /\ e.at = "db" /\ e.adds = {} /\ ~e.gated
        /\ e.deck = NoDeck /\ DOMAIN e.points = {}
    BY EmptyTx, EmptyTxLacks DEF NoPoints
  <1> HIDE DEF e
  <1>2. /\ IsTx(s) /\ s.pid = p /\ s.at = "db" /\ s.adds = {} /\ ~s.gated
        /\ s.deck = NoDeck /\ DOMAIN s.points = {} /\ s.place = x
    BY <1>1 DEF IsTx
  <1> QED BY <1>2 DEF e

\* That of a player that leaves stores no more.
LEMMA LeaveFields ==
    ASSUME NEW s, IsTx(s), NEW l
    PROVE  LET t == [s EXCEPT !.leaves = l] IN
           /\ IsTx(t) /\ t.pid = s.pid /\ t.at = s.at /\ t.adds = s.adds
           /\ t.gated = s.gated /\ t.deck = s.deck /\ t.points = s.points
           /\ t.place = s.place
  <1> DEFINE t == [s EXCEPT !.leaves = l]
  <1>1. IsTx(t)
    BY DEF IsTx
  <1>2. t.pid = s.pid /\ t.at = s.at /\ t.adds = s.adds /\ t.place = s.place
    BY DEF IsTx
  <1>3. t.gated = s.gated /\ t.deck = s.deck /\ t.points = s.points
    BY DEF IsTx
  <1> QED BY <1>1, <1>2, <1>3

\* Requests that draw no id.
LEMMA PlainBegin ==
    ASSUME IInv, NEW t, Begin(t), IsTx(t), t.pid \in listed, t.at = "db",
           t.place = NoRow \/ t.place \in VillagePlaces, t.adds = {},
           UNCHANGED <<rosterVars, mem>>
    PROVE  RosterInv' /\ TxsOK'
  <1>1. RosterInv'
    BY RosterKept DEF IInv
  <1>2. issued.chars \in Nat /\ UNCHANGED <<charRows, creates, issued>>
    BY RosterAssumption DEF IInv, RosterInv, IdsOK, rosterVars, rowVars
  <1>3. t.pid \in PlayerIds /\ mem[t.pid] # NoRow
    BY DEF IInv, LoadedOK
  <1>4. \A u \in creates : HasIds(u) => u.cid \in 1..issued.chars
    BY DEF IInv, RosterInv, TasksOK
  <1>5. issued'.chars \in Nat /\ issued.chars <= issued'.chars
    BY <1>2
  <1>6. /\ t.adds \subseteq (issued.chars + 1)..issued'.chars
        /\ \A c \in t.adds : charRows[c] = NoRow
    OBVIOUS
  <1>7. TxsOK /\ IdsOK
    BY DEF IInv, RosterInv
  <1>8. TxsOK'
    BY <1>2, <1>3, <1>4, <1>5, <1>6, <1>7, BeginKeeps
  <1> QED BY <1>1, <1>8

\* The packets and the saves.
LEMMA RequestsKeep ==
    ASSUME IInv, NEW p \in PlayerIds,
           \/ \E req \in SlotRequests : slotChangeReq(p, req)
           \/ \E c \in CharIds, req \in StatRequests : statModifyReq(p, c, req)
           \/ disconnnectSave(p) \/ reconnectOldPlayerProcess(p)
    PROVE  RosterInv' /\ TxsOK'
  <1>1. online \subseteq listed
    BY DEF IInv, LoadedOK
  <1>2. CASE \E req \in SlotRequests : slotChangeReq(p, req)
    <2> PICK req : slotChangeReq(p, req)
      BY <1>2
    <2> DEFINE t == changeSlot([Tx(p) EXCEPT !.gated = TRUE], p, req)
    <2>1. Begin(t) /\ p \in listed /\ UNCHANGED <<rosterVars, mem>>
      BY <1>1 DEF slotChangeReq, Ready
    <2>2. IsTx(t) /\ t.pid = p /\ t.at = "db" /\ t.adds = {} /\ t.place = NoRow
      BY SlotFields
    <2> HIDE DEF t
    <2> QED BY <2>1, <2>2, PlainBegin
  <1>3. CASE \E c \in CharIds, req \in StatRequests : statModifyReq(p, c, req)
    <2> PICK c, req : statModifyReq(p, c, req)
      BY <1>3
    <2> DEFINE t == change([Tx(p) EXCEPT !.gated = TRUE], c, req)
    <2>1. Begin(t) /\ p \in listed /\ UNCHANGED <<rosterVars, mem>>
      BY <1>1 DEF statModifyReq, Ready
    <2>2. IsTx(t) /\ t.pid = p /\ t.at = "db" /\ t.adds = {} /\ t.place = NoRow
      BY PointsFields
    <2> HIDE DEF t
    <2> QED BY <2>1, <2>2, PlainBegin
  <1>4. CASE disconnnectSave(p)
    <2> DEFINE x == SavedPlace(p)
               t == [Tx(p) EXCEPT !.place = x]
    <2>1. Begin(t) /\ p \in listed /\ UNCHANGED <<rosterVars, mem>>
      BY <1>1, <1>4 DEF disconnnectSave
    <2>2. x \in VillagePlaces
      BY <2>1, SavedInVillage DEF IInv
    <2> HIDE DEF x
    <2>3. IsTx(t) /\ t.pid = p /\ t.at = "db" /\ t.adds = {} /\ t.place = x
      BY SaveFields
    <2> HIDE DEF t
    <2> QED BY <2>1, <2>2, <2>3, PlainBegin
  <1>5. CASE reconnectOldPlayerProcess(p)
    <2> DEFINE x == SavedPlace(p)
               s == [Tx(p) EXCEPT !.place = x]
               t == [s EXCEPT !.leaves = TRUE]
    <2>1. Begin(t) /\ p \in listed /\ UNCHANGED <<rosterVars, mem>>
      BY <1>5 DEF reconnectOldPlayerProcess
    <2>2. x \in VillagePlaces
      BY <2>1, SavedInVillage DEF IInv
    <2> HIDE DEF x
    <2>3. IsTx(s) /\ s.pid = p /\ s.at = "db" /\ s.adds = {} /\ s.place = x
      BY SaveFields
    <2> HIDE DEF s
    <2>4. IsTx(t) /\ t.pid = p /\ t.at = "db" /\ t.adds = {} /\ t.place = x
      BY <2>3, LeaveFields
    <2> HIDE DEF t
    <2> QED BY <2>1, <2>2, <2>4, PlainBegin
  <1> QED BY <1>2, <1>3, <1>4, <1>5

\* The ids of the command are beyond every id a row or a task has.
LEMMA AddAllKeeps ==
    ASSUME IInv, NEW p \in PlayerIds, addAll(p)
    PROVE  RosterInv' /\ TxsOK'
  <1> DEFINE ids == (issued.chars + 1)..(issued.chars + CharacterInfos)
             t == changeSlot(insertCharacter(Tx(p), ids), p, Placed(p, ids))
  <1> USE DEF IInv, RosterInv
  <1>1. /\ issued \in [players : 0..MaxPlayers, chars : 0..MaxChars]
        /\ issued.chars \in Nat /\ issued.chars <= MaxChars
        /\ MaxChars \in Nat /\ CharacterInfos \in Nat
    BY RosterAssumption, GrowthAssumption DEF IdsOK
  <1>2. /\ p \in listed /\ ids \subseteq CharIds /\ Begin(t)
        /\ issued' = [issued EXCEPT !.chars = @ + CharacterInfos]
        /\ UNCHANGED <<rowVars, creates, deletes, orders, mem>>
    BY DEF addAll, LoadedOK
  <1>3. issued.chars + CharacterInfos <= MaxChars
    <2>1. CASE CharacterInfos = 0
      BY <1>1, <2>1
    <2>2. CASE CharacterInfos > 0
      <3>1. issued.chars + CharacterInfos \in ids
        BY <1>1, <2>2
      <3> QED BY <1>1, <1>2, <3>1 DEF CharIds
    <2> QED BY <1>1, <2>1, <2>2
  <1> HIDE DEF ids
  <1>4. IsTx(t) /\ t.pid = p /\ t.at = "db" /\ t.adds = ids /\ t.place = NoRow
    BY AddFields
  <1>5. ids = (issued.chars + 1)..(issued.chars + CharacterInfos)
    BY DEF ids
  <1> HIDE DEF t
  <1>6. /\ issued' \in [players : 0..MaxPlayers, chars : 0..MaxChars]
        /\ issued'.chars = issued.chars + CharacterInfos
        /\ issued'.players = issued.players
    BY <1>1, <1>2, <1>3
  <1>7. IdsOK'
    BY <1>1, <1>2, <1>6 DEF IdsOK, rowVars, CharIds
  <1>8. TasksOK'
    <2>1. \A u \in creates : HasIds(u) => u.cid \in 1..issued.chars
      BY DEF TasksOK
    <2>2. \A u \in creates : HasIds(u) => u.cid \in 1..issued'.chars
      BY <1>1, <1>6, <2>1
    <2> QED BY <1>2, <1>6, <2>2 DEF TasksOK, HasIds
  <1>9. Progress'
    BY <1>2 DEF Progress, OwnedRows, rowVars
  <1>10. RowsOK' /\ PlayerIsWhole'
    BY <1>2, RowsKept
  <1>11. TxsOK'
    <2>1. \A c \in t.adds : charRows[c] = NoRow
      BY <1>1, <1>2, <1>4, <1>5 DEF IdsOK
    <2>2. \A u \in creates : HasIds(u) => u.cid \in 1..issued.chars
      BY DEF TasksOK
    <2>3. t.adds \subseteq (issued.chars + 1)..issued'.chars
      BY <1>4, <1>5, <1>6
    <2>4. issued'.chars \in Nat /\ issued.chars <= issued'.chars
      BY <1>1, <1>6
    <2>5. t.pid \in PlayerIds /\ mem[t.pid] # NoRow /\ UNCHANGED <<charRows, creates, mem>>
      BY <1>2, <1>4 DEF LoadedOK, rowVars
    <2> QED BY <1>2, <1>4, <2>1, <2>2, <2>3, <2>4, <2>5, BeginKeeps
  <1> QED BY <1>7, <1>8, <1>9, <1>10, <1>11

\* Steps that store nothing and begin nothing.
Quietly(p) ==
    \/ load(p) \/ possess(p) \/ leaveWorld(p) \/ closeRoomless(p)
    \/ \E w \in Worlds : enterWorld(p, w)
    \/ closeTimeout(p) \/ unload(p)

\* Transactions that go to the next user of their player, and objects that
\* come and go, only those that nothing but replaced ones were begun on.
LEMMA PassedTxs ==
    ASSUME TxsOK, RosterInv, UNCHANGED rosterVars, NEW p,
           txs' \in {txs, TakenOver(p), Replaced(p)},
           \A t \in txs : \/ mem[t.pid] # NoRow => mem'[t.pid] # NoRow
                        \/ t.old
    PROVE  TxsOK'
  <1>1. PICK f : /\ txs' = {f[t] : t \in txs}
                 /\ \A t \in txs : f[t] \in {t, [t EXCEPT !.gated = FALSE],
                                     [t EXCEPT !.gated = FALSE, !.old = TRUE]}
    <2>1. CASE txs' = txs
      <3> DEFINE f == [t \in txs |-> t]
      <3> WITNESS f
      <3> QED BY <2>1
    <2>2. CASE txs' = TakenOver(p)
      <3> DEFINE f == [t \in txs |-> IF t.pid = p THEN [t EXCEPT !.gated = FALSE] ELSE t]
      <3> WITNESS f
      <3> QED BY <2>2 DEF TakenOver
    <2>3. CASE txs' = Replaced(p)
      <3> DEFINE f == [t \in txs |-> IF t.pid = p
                                     THEN [t EXCEPT !.gated = FALSE, !.old = TRUE] ELSE t]
      <3> WITNESS f
      <3> QED BY <2>3 DEF Replaced
    <2> QED BY <2>1, <2>2, <2>3
  <1>2. \A t \in txs : /\ IsTx(f[t]) /\ f[t].at = t.at /\ f[t].pid = t.pid
                      /\ f[t].adds = t.adds /\ f[t].place = t.place
                      /\ f[t].old \in {t.old, TRUE}
    <2> SUFFICES ASSUME NEW t \in txs
                 PROVE  /\ IsTx(f[t]) /\ f[t].at = t.at /\ f[t].pid = t.pid
                        /\ f[t].adds = t.adds /\ f[t].place = t.place
                        /\ f[t].old \in {t.old, TRUE}
      OBVIOUS
    <2>1. IsTx(t) /\ (f[t] = t \/ f[t] \in {[t EXCEPT !.gated = FALSE],
                                         [t EXCEPT !.gated = FALSE, !.old = TRUE]})
      BY <1>1 DEF TxsOK
    <2>2. CASE f[t] = t
      BY <2>1, <2>2
    <2>3. CASE f[t] # t
      <3>1. IsTx(t)
        BY <2>1
      <3>2. PICK x : x = f[t]
        OBVIOUS
      <3>3. x \in {[t EXCEPT !.gated = FALSE], [t EXCEPT !.gated = FALSE, !.old = TRUE]}
        BY <2>1, <2>3, <3>2
      <3>4. /\ IsTx(x) /\ x.at = t.at /\ x.pid = t.pid /\ x.adds = t.adds
            /\ x.place = t.place /\ x.old \in {t.old, TRUE}
        BY <3>1, <3>3, HandedTx
      <3> QED BY <3>2, <3>4
    <2> QED BY <2>2, <2>3
  <1>3. \A x \in txs' : \E t \in txs : x = f[t]
    BY <1>1
  <1>4. ASSUME NEW x \in txs'
        PROVE  /\ IsTx(x)
               /\ x.pid \in PlayerIds
               /\ x.adds \subseteq 1..issued.chars
               /\ x.place = NoRow \/ x.place \in VillagePlaces
               /\ x.old \/ mem'[x.pid] # NoRow
               /\ x.at = "db" => \A c \in x.adds : charRows[c] = NoRow
               /\ \A u \in creates : HasIds(u) => u.cid \notin x.adds
    <2> PICK t \in txs : x = f[t]
      BY <1>3
    <2>1. t.old \/ mem'[t.pid] # NoRow
      BY DEF TxsOK
    <2>2. x.old \/ mem'[x.pid] # NoRow
      BY <1>2, <2>1
    <2> QED BY <1>2, <2>2 DEF TxsOK
  <1>5. ASSUME NEW x \in txs', NEW y \in txs', x # y
        PROVE  x.adds \cap y.adds = {}
    <2>1. PICK t \in txs, u \in txs : x = f[t] /\ y = f[u]
      BY <1>3
    <2>2. t # u
      BY <1>5, <2>1
    <2>3. t.adds \cap u.adds = {}
      BY <2>2 DEF TxsOK
    <2> QED BY <1>2, <2>1, <2>3
  <1>6. TxsOK' <=> /\ \A x \in txs' :
                         /\ IsTx(x)
                         /\ x.pid \in PlayerIds
                         /\ x.adds \subseteq 1..issued.chars
                         /\ x.place = NoRow \/ x.place \in VillagePlaces
                         /\ x.old \/ mem'[x.pid] # NoRow
                         /\ x.at = "db" => \A c \in x.adds : charRows[c] = NoRow
                         /\ \A u \in creates : HasIds(u) => u.cid \notin x.adds
                   /\ \A x, y \in txs' : x # y => x.adds \cap y.adds = {}
    BY DEF TxsOK, IsTx, HasIds, rosterVars, rowVars
  <1> QED BY <1>4, <1>5, <1>6

\* A loaded player has the place its row names.
LEMMA LoadKeeps ==
    ASSUME IInv, NEW p \in PlayerIds, load(p)
    PROVE  LoadedOK' /\ \A t \in txs : mem[t.pid] # NoRow => mem'[t.pid] # NoRow
  <1> DEFINE r == [chars |-> LoadedChars(p), deck |-> LoadedDeck(p),
                   place |-> playerRows[p].place]
  <1>1. /\ mem' = [mem EXCEPT ![p] = r] /\ last' = [last EXCEPT ![p] = Nowhere]
        /\ listed' = listed \cup {p} /\ online' = online \cup {p}
        /\ playerRows[p] # NoRow
    BY DEF load
  <1>2. r # NoRow /\ IsMem(r) /\ r.place = playerRows[p].place
    BY LoadedIsRow DEF IsMem
  <1>3. playerRows[p] \in PlayerRow
    BY <1>1 DEF IInv, RosterInv, RowsOK
  <1>4. playerRows[p].place \in VillagePlaces
    BY <1>3 DEF PlayerRow
  <1> HIDE DEF r
  <1>5. \A q \in PlayerIds : mem'[q] = IF q = p THEN r ELSE mem[q]
    BY <1>1 DEF IInv, LoadedOK
  <1>6. \A q \in PlayerIds : last'[q] \in {last[q], Nowhere}
    BY <1>1 DEF IInv, LoadedOK
  <1>7. mem' = [q \in PlayerIds |-> mem'[q]] /\ last' = [q \in PlayerIds |-> last'[q]]
    BY <1>1 DEF IInv, LoadedOK
  <1>8. LoadedOK'
    BY <1>1, <1>2, <1>4, <1>5, <1>6, <1>7 DEF IInv, LoadedOK, IsMem
  <1>9. \A t \in txs : t.pid \in PlayerIds
    BY DEF IInv, TxsOK
  <1> QED BY <1>2, <1>5, <1>8, <1>9

\* Players that come, go and move between worlds.
LEMMA QuietKeeps ==
    ASSUME IInv, NEW p \in PlayerIds, Quietly(p)
    PROVE  IInv'
  <1>1. UNCHANGED rosterVars /\ txs' \in {txs, TakenOver(p), Replaced(p)}
    BY DEF Quietly, load, possess, leaveWorld, closeRoomless, enterWorld,
           closeTimeout, unload
  <1>2. RosterInv'
    BY <1>1, RosterKept DEF IInv
  <1>3. LoadedOK' /\ \A t \in txs : (mem[t.pid] # NoRow => mem'[t.pid] # NoRow) \/ t.old
    <2> USE DEF IInv
    <2>1. CASE load(p)
      BY <2>1, LoadKeeps
    <2>2. CASE possess(p)
      BY <2>2 DEF possess, LoadedOK, IsMem
    <2>3. CASE leaveWorld(p)
      BY <2>3, LastIsVillage DEF leaveWorld, LoadedOK, IsMem
    <2>4. CASE closeRoomless(p)
      BY <2>4 DEF closeRoomless, LoadedOK, IsMem
    <2>5. CASE \E w \in Worlds : enterWorld(p, w)
      BY <2>5 DEF enterWorld, LoadedOK, IsMem
    <2>6. CASE closeTimeout(p)
      BY <2>6, LastIsVillage DEF closeTimeout, LoadedOK, IsMem
    <2>7. CASE unload(p)
      <3>1. /\ mem' = [mem EXCEPT ![p] = NoRow] /\ p \notin listed
            /\ UNCHANGED <<listed, online, last>> /\ \A t \in txs : t.pid = p => t.old
        BY <2>7 DEF unload
      <3>2. \A q \in PlayerIds : mem'[q] = IF q = p THEN NoRow ELSE mem[q]
        BY <3>1 DEF LoadedOK
      <3>3. LoadedOK'
        BY <3>1, <3>2 DEF LoadedOK, IsMem
      <3>4. \A t \in txs : mem'[t.pid] = mem[t.pid] \/ t.old
        BY <3>1, <3>2 DEF TxsOK
      <3> QED BY <3>3, <3>4
    <2> QED BY <2>1, <2>2, <2>3, <2>4, <2>5, <2>6, <2>7 DEF Quietly
  <1>4. TxsOK'
    BY <1>1, <1>3, PassedTxs DEF IInv
  <1> QED BY <1>2, <1>3, <1>4 DEF IInv

-----------------------------------------------------------------------------
(* The end of a transaction.                                               *)

\* Of a character that exists the columns of its points are written, of the
\* others only those the transaction drew the ids of.
LEMMA CommittedChars ==
    ASSUME IInv, NEW t \in txs, dbCommit(t)
    PROVE  /\ charRows' = [c \in CharIds |-> charRows'[c]]
           /\ \A c \in CharIds :
                 /\ charRows'[c] = NoRow \/ IsChar(charRows'[c])
                 /\ charRows[c] # NoRow =>
                       charRows'[c] # NoRow /\ charRows'[c].owner = charRows[c].owner
                 /\ charRows[c] = NoRow /\ c \notin t.adds => charRows'[c] = NoRow
  <1>1. /\ t.at = "db"
        /\ charRows' = [c \in CharIds |->
              IF c \in t.adds THEN [owner |-> t.pid, points |-> Fresh]
              ELSE IF c \in DOMAIN t.points /\ charRows[c] # NoRow
                   THEN [charRows[c] EXCEPT !.points = t.points[c]]
                   ELSE charRows[c]]
    BY DEF dbCommit
  <1>2. SUFFICES ASSUME NEW c \in CharIds
                 PROVE  /\ charRows'[c] = NoRow \/ IsChar(charRows'[c])
                        /\ charRows[c] # NoRow =>
                              /\ charRows'[c] # NoRow
                              /\ charRows'[c].owner = charRows[c].owner
                        /\ charRows[c] = NoRow /\ c \notin t.adds => charRows'[c] = NoRow
    BY <1>1
  <1>3. charRows[c] = NoRow \/ IsChar(charRows[c])
    BY DEF IInv, RosterInv, RowsOK
  <1>4. CASE c \in t.adds
    <2>1. charRows'[c] = [owner |-> t.pid, points |-> Fresh] /\ charRows[c] = NoRow
      BY <1>1, <1>4 DEF IInv, TxsOK
    <2> QED BY <1>4, <2>1, FreshIsChar
  <1>5. CASE c \notin t.adds /\ c \in DOMAIN t.points /\ charRows[c] # NoRow
    <2>1. charRows'[c] = [charRows[c] EXCEPT !.points = t.points[c]]
      BY <1>1, <1>5
    <2>2. IsChar(charRows[c])
      BY <1>3, <1>5
    <2> QED BY <1>5, <2>1, <2>2, PointsOfChar
  <1>6. CASE c \notin t.adds /\ ~(c \in DOMAIN t.points /\ charRows[c] # NoRow)
    <2>1. charRows'[c] = charRows[c]
      BY <1>1, <1>6
    <2> QED BY <1>3, <1>6, <2>1
  <1> QED BY <1>4, <1>5, <1>6

\* The place is all a transaction writes of a player's row.
LEMMA CommittedPlayers ==
    ASSUME IInv, NEW t \in txs, dbCommit(t)
    PROVE  /\ playerRows' \in [PlayerIds -> PlayerRow \cup {NoRow}]
           /\ \A p \in PlayerIds : playerRows'[p] # NoRow =>
                 playerRows[p] # NoRow /\ playerRows'[p].rep = playerRows[p].rep
  <1> USE DEF IInv, RosterInv, RowsOK
  <1>1. t.pid \in PlayerIds /\ (t.place = NoRow \/ t.place \in VillagePlaces)
    BY DEF TxsOK
  <1>2. CASE t.place = NoRow \/ playerRows[t.pid] = NoRow
    <2>1. playerRows' = playerRows
      BY <1>2 DEF dbCommit
    <2> QED BY <2>1
  <1>3. CASE ~(t.place = NoRow \/ playerRows[t.pid] = NoRow)
    <2> DEFINE r == [playerRows[t.pid] EXCEPT !.place = t.place]
    <2>1. playerRows' = [playerRows EXCEPT ![t.pid] = r]
      BY <1>3 DEF dbCommit
    <2>2. playerRows[t.pid] \in PlayerRow /\ t.place \in VillagePlaces
      BY <1>1, <1>3
    <2>3. r \in PlayerRow /\ r.rep = playerRows[t.pid].rep
      BY <2>2, PlaceOfPlayer
    <2> HIDE DEF r
    <2> QED BY <1>1, <1>3, <2>1, <2>3
  <1> QED BY <1>2, <1>3

\* A commit takes nothing from a player and nothing from a creation.
LEMMA CommitKeeps ==
    ASSUME IInv, NEW t \in txs, dbCommit(t)
    PROVE  IInv'
  <1> DEFINE m == [t EXCEPT !.at = "post"]
  <1> USE DEF IInv, RosterInv
  <1>1. t.at = "db" /\ txs' = (txs \ {t}) \cup {m}
        /\ UNCHANGED <<itemRows, equipRows, creates, issued, orders,
                       mem, listed, online, last>>
    BY DEF dbCommit
  <1>2. /\ IsTx(m) /\ m.at = "post" /\ m.pid = t.pid /\ m.adds = t.adds
        /\ m.place = t.place /\ m.old = t.old
    BY PostedTx DEF TxsOK
  <1> HIDE DEF m
  <1>3. /\ deckRows' = [p \in PlayerIds |-> deckRows'[p]]
        /\ \A p \in PlayerIds : deckRows[p] # NoDeck => deckRows'[p] # NoDeck
    BY DEF dbCommit, RowsOK
  <1>4. RowsOK'
    BY <1>3, CommittedChars, CommittedPlayers DEF RowsOK, IsChar
  <1>5. \A p : OwnedRows(p) \subseteq OwnedRows(p)'
    BY CommittedChars DEF OwnedRows
  <1>6. PlayerIsWhole'
    BY <1>1, <1>3, <1>5, CommittedPlayers DEF PlayerIsWhole
  <1>7. IdsOK'
    <2>1. \A c \in t.adds : c \in 1..issued.chars /\ issued.chars \in Int
      BY DEF TxsOK, IdsOK
    <2>2. \A c \in CharIds : c > issued.chars => c \notin t.adds
      BY <2>1, RosterAssumption DEF CharIds
    <2> QED BY <1>1, <2>2, CommittedChars DEF IdsOK
  <1>8. TasksOK'
    BY <1>1 DEF TasksOK, HasIds
  <1>9. Progress'
    <2>1. \A u \in creates : HasIds(u) =>
             u.cid \notin t.adds /\ u.cid \in CharIds /\ u.pid \in PlayerIds
      BY IdsAreIds DEF TxsOK
    <2>2. \A u \in creates : u.at \in Inserts => HasIds(u)
      BY DEF HasIds, Inserts
    <2>3. \A u \in creates : u.at = "character" => charRows'[u.cid] = NoRow
      BY <2>1, <2>2, CommittedChars DEF Progress, Inserts
    <2>4. \A u \in creates : u.at = "player" => deckRows'[u.pid] # NoDeck
      BY <1>3, <2>1, <2>2 DEF Progress, Inserts
    <2> QED BY <1>1, <1>5, <2>3, <2>4 DEF Progress
  <1>10. TxsOK'
    <2>1. \A x \in txs \ {t} : x.at = "db" => \A c \in x.adds : charRows'[c] = NoRow
      <3>1. \A x \in txs : x.adds \subseteq CharIds
        BY RosterAssumption DEF TxsOK, IdsOK, CharIds
      <3> QED BY <3>1, CommittedChars DEF TxsOK
    <2>2. \A x \in txs' :
            /\ IsTx(x)
            /\ x.pid \in PlayerIds
            /\ x.adds \subseteq 1..issued.chars
            /\ x.place = NoRow \/ x.place \in VillagePlaces
            /\ x.old \/ mem[x.pid] # NoRow
            /\ x.at = "db" => \A c \in x.adds : charRows'[c] = NoRow
            /\ \A u \in creates : HasIds(u) => u.cid \notin x.adds
      BY <1>1, <1>2, <2>1 DEF TxsOK
    <2>3. \A x, y \in txs' : x # y => x.adds \cap y.adds = {}
      BY <1>1, <1>2 DEF TxsOK
    <2> QED BY <1>1, <2>2, <2>3 DEF TxsOK, IsTx, HasIds
  <1>11. LoadedOK'
    BY <1>1 DEF LoadedOK
  <1> QED BY <1>4, <1>6, <1>7, <1>8, <1>9, <1>10, <1>11

\* Transactions that are over leave the others as they are.
LEMMA FewerTxs ==
    ASSUME TxsOK, RosterInv, UNCHANGED rosterVars, txs' \subseteq txs,
           \A t \in txs' : mem[t.pid] # NoRow => mem'[t.pid] # NoRow
    PROVE  TxsOK'
  BY DEF TxsOK, IsTx, HasIds, rosterVars, rowVars

\* A transaction that fails.
LEMMA FailKeeps ==
    ASSUME IInv, NEW t \in txs, dbFail(t)
    PROVE  IInv'
  <1>1. txs' \subseteq txs /\ UNCHANGED <<rosterVars, mem, listed, online>> /\ Leave(t)
    BY DEF dbFail
  <1>2. RosterInv' /\ TxsOK'
    BY <1>1, RosterKept, FewerTxs DEF IInv
  <1>3. last' = LastAfterLeaving(t.pid) \/ last' = last
    BY <1>1 DEF Leave
  <1>4. LoadedOK'
    BY <1>1, <1>3, LastIsVillage DEF IInv, LoadedOK
  <1> QED BY <1>2, <1>4 DEF IInv

\* What is copied back to memory is what was stored; nothing is copied to an
\* object that is gone.
LEMMA WriteBackKeeps ==
    ASSUME IInv, NEW t \in txs, writeBack(t)
    PROVE  IInv'
  <1> DEFINE m == mem[t.pid]
             r == Joined(t, Copied(t, m))
  <1>1. /\ mem' = [mem EXCEPT ![t.pid] = r] /\ txs' \subseteq txs
        /\ UNCHANGED <<rosterVars, listed, online>> /\ Leave(t)
    BY DEF writeBack
  <1>2. /\ t.pid \in PlayerIds /\ (t.place = NoRow \/ t.place \in VillagePlaces)
        /\ m # NoRow => IsMem(m) /\ m.place \in VillagePlaces
        /\ t.old \/ m # NoRow
        /\ t.pid \in listed => m # NoRow
    BY DEF IInv, TxsOK, LoadedOK
  <1>3. IF m = NoRow THEN r = NoRow
        ELSE r # NoRow /\ IsMem(r) /\ r.place \in VillagePlaces
    <2>1. CASE m # NoRow
      BY <1>2, <2>1, WrittenMem
    <2>2. CASE m = NoRow
      BY <1>2, <2>2 DEF Joined, Copied
    <2> QED BY <2>1, <2>2
  <1> HIDE DEF r
  <1>4. /\ mem' = [q \in PlayerIds |-> mem'[q]]
        /\ \A q \in PlayerIds : mem'[q] = IF q = t.pid THEN r ELSE mem[q]
    BY <1>1 DEF IInv, LoadedOK
  <1>5. RosterInv' /\ TxsOK'
    <2>1. \A x \in txs' : mem[x.pid] # NoRow => mem'[x.pid] # NoRow
      BY <1>1, <1>3, <1>4 DEF IInv, TxsOK
    <2> QED BY <1>1, <2>1, RosterKept, FewerTxs DEF IInv
  <1>6. last' = LastAfterLeaving(t.pid) \/ last' = last
    BY <1>1 DEF Leave
  <1>7. /\ last' = [q \in PlayerIds |-> last'[q]]
        /\ \A q \in PlayerIds : last'[q] \in Villages \cup {Nowhere}
    BY <1>6, LastIsVillage DEF IInv
  <1>8. LoadedOK'
    BY <1>1, <1>2, <1>3, <1>4, <1>7 DEF IInv, LoadedOK, IsMem
  <1> QED BY <1>5, <1>8 DEF IInv

\* Every step of the loaded players and their transactions.
LEMMA GrowthKeeps ==
    ASSUME IInv, GrowthNext
    PROVE  IInv'
  <1>1. ASSUME NEW p \in PlayerIds, Quietly(p)
        PROVE  IInv'
    BY <1>1, QuietKeeps
  <1>2. ASSUME NEW p \in PlayerIds,
               \/ \E req \in SlotRequests : slotChangeReq(p, req)
               \/ \E c \in CharIds, req \in StatRequests : statModifyReq(p, c, req)
               \/ addAll(p) \/ disconnnectSave(p) \/ reconnectOldPlayerProcess(p)
        PROVE  IInv'
    <2>1. RosterInv' /\ TxsOK'
      BY <1>2, RequestsKeep, AddAllKeeps
    <2>2. UNCHANGED <<mem, last>> /\ online' \subseteq online /\ listed' \subseteq listed
          /\ online' \subseteq listed'
      BY <1>2 DEF slotChangeReq, statModifyReq, addAll, disconnnectSave,
                  reconnectOldPlayerProcess, IInv, LoadedOK
    <2>3. LoadedOK'
      BY <2>2 DEF IInv, LoadedOK
    <2> QED BY <2>1, <2>3 DEF IInv
  <1>3. ASSUME NEW t \in txs, dbCommit(t) \/ dbFail(t) \/ writeBack(t)
        PROVE  IInv'
    BY <1>3, CommitKeeps, FailKeeps, WriteBackKeeps
  <1> QED BY <1>1, <1>2, <1>3 DEF GrowthNext, Quietly

-----------------------------------------------------------------------------
\* The empty tables.
LEMMA InitIInv == Init => IInv
  <1> SUFFICES ASSUME Init PROVE IInv
    OBVIOUS
  <1> USE DEF Init, RosterInit, GrowthInit
  <1>1. RowsOK
    BY DEF RowsOK
  <1>2. IdsOK
    BY RosterAssumption DEF IdsOK
  <1>3. TasksOK /\ Progress /\ TxsOK
    BY DEF TasksOK, Progress, TxsOK
  <1>4. PlayerIsWhole
    BY DEF PlayerIsWhole
  <1>5. LoadedOK
    BY DEF LoadedOK
  <1> QED BY <1>1, <1>2, <1>3, <1>4, <1>5 DEF IInv, RosterInv

\* Every step keeps IInv.
LEMMA NextIInv == IInv /\ [Next]_vars => IInv'
  <1> SUFFICES ASSUME IInv, [Next]_vars PROVE IInv'
    OBVIOUS
  <1>1. ASSUME UNCHANGED <<rosterVars, growthVars>>
        PROVE  IInv'
    <2>1. RosterInv'
      BY <1>1, RosterKept DEF IInv
    <2>2. TxsOK'
      BY <1>1, FewerTxs DEF IInv, growthVars
    <2>3. LoadedOK'
      BY <1>1 DEF IInv, LoadedOK, growthVars
    <2> QED BY <2>1, <2>2, <2>3 DEF IInv
  <1>2. CASE opened /\ RosterNext /\ UNCHANGED <<linkVars, growthVars>>
    BY <1>2, RosterKeeps
  <1>3. CASE opened /\ GrowthNext /\ UNCHANGED linkVars
    BY <1>3, GrowthKeeps
  <1> QED BY <1>1, <1>2, <1>3 DEF Next, vars

\* IInv holds in every behaviour.
THEOREM Invariance == Spec => []IInv
  BY InitIInv, NextIInv, PTL DEF Spec

\* A player of the list has its deck, its character and the item of its
\* equipment, wherever a creation stopped (PktPlayerCreateReqHandler.cpp:80).
THEOREM WholePlayers == Spec => []PlayerIsWhole
  <1>1. IInv => PlayerIsWhole
    BY DEF IInv, RosterInv
  <1> QED BY <1>1, Invariance, PTL

\* A player's row names a village and a location in it, however the player
\* left (Player.cpp:351).
THEOREM VillageRows == Spec => []RowNamesVillage
  <1>1. IInv => RowNamesVillage
    BY DEF IInv, RosterInv, RowsOK, RowNamesVillage, PlayerRow, VillagePlaces
  <1> QED BY <1>1, Invariance, PTL

-----------------------------------------------------------------------------
(* A deck.                                                                 *)

\* A deck over the slots that holds some of ids, and none of them twice.
WholeDeck(D, ids) == D \in [Slots -> ids \cup {NoId}] /\ ~HasDuplicates(D)

\* A deck that was changed to one without duplicates.
LEMMA ChangedDeck ==
    ASSUME NEW D, NEW ids, WholeDeck(D, ids),
           NEW S \in SUBSET Slots, NEW req \in [S -> ids \cup {NoId}],
           ~HasDuplicates(Overlaid(D, req))
    PROVE  WholeDeck(Overlaid(D, req), ids)
  <1>1. Overlaid(D, req) \in [Slots -> ids \cup {NoId}]
    BY DEF WholeDeck, Overlaid
  <1> QED BY <1>1 DEF WholeDeck

\* No two of a set have the same rank in it.
LEMMA RankTells ==
    ASSUME NEW S \in SUBSET Nat, NEW x \in S, NEW y \in S, Rank(x, S) = Rank(y, S)
    PROVE  x = y
  <1>0. \A e \in S : e \in Nat /\ e \in Int
    OBVIOUS
  <1>1. ASSUME NEW a \in S, NEW b \in S, a < b
        PROVE  Rank(a, S) < Rank(b, S)
    <2> DEFINE A == {e \in S : e < a}
               B == {e \in S : e < b}
    <2>1. IsFiniteSet(B)
      <3>1. b \in Int /\ 0 \in Int /\ b \in Nat
        BY <1>0
      <3>2. IsFiniteSet(0..b)
        BY <3>1, FS_Interval
      <3>3. ASSUME NEW e \in B PROVE e \in 0..b
        <4>1. e \in Nat /\ e < b
          BY <1>0
        <4> QED BY ONLY <3>1, <4>1
      <3> QED BY <3>2, <3>3, FS_Subset
    <2>2. A \subseteq B /\ a \in B /\ a \notin A
      <3>1. a \in Int /\ b \in Int /\ a < b
        BY <1>0, <1>1
      <3>2. ~(a < a)
        BY ONLY <3>1
      <3>3. ASSUME NEW e \in A PROVE e \in B
        <4>1. e \in Int /\ e < a /\ e \in S
          BY <1>0
        <4>2. e < b
          BY ONLY <3>1, <4>1
        <4> QED BY <4>1, <4>2
      <3> QED BY <3>1, <3>2, <3>3
    <2>3. A \subseteq B \ {a} /\ IsFiniteSet(B \ {a})
      BY <2>1, <2>2, FS_RemoveElement
    <2>4. Cardinality(A) <= Cardinality(B \ {a})
      BY <2>3, FS_Subset
    <2>5. Cardinality(B \ {a}) = Cardinality(B) - 1
      BY <2>1, <2>2, FS_RemoveElement
    <2>6. Cardinality(A) \in Nat /\ Cardinality(B) \in Nat
      BY <2>1, <2>2, FS_Subset, FS_CardinalityType
    <2>7. Cardinality(A) < Cardinality(B)
      BY <2>4, <2>5, <2>6
    <2> QED BY <2>7 DEF Rank
  <1>2. ASSUME NEW a \in S PROVE Rank(a, S) \in Nat
    <2> DEFINE A == {e \in S : e < a}
    <2>1. a \in Int /\ 0 \in Int /\ a \in Nat
      BY <1>0
    <2>2. IsFiniteSet(0..a)
      BY <2>1, FS_Interval
    <2>3. ASSUME NEW e \in A PROVE e \in 0..a
      <3>1. e \in Nat /\ e < a
        BY <1>0
      <3> QED BY ONLY <2>1, <3>1
    <2> QED BY <2>2, <2>3, FS_Subset, FS_CardinalityType DEF Rank
  <1>3. x \in Nat /\ y \in Nat
    OBVIOUS
  <1>4. ~(x < y) /\ ~(y < x)
    BY <1>1, <1>2
  <1> QED BY <1>3, <1>4

\* Each new character goes to one slot, which was empty.
LEMMA PlacedIs ==
    ASSUME NEW p, NEW ids \in SUBSET Nat
    PROVE  LET req == Placed(p, ids) IN
           /\ req \in [DOMAIN req -> ids]
           /\ \A s \in DOMAIN req : s \in Slots /\ CurSlots(p)[s] = NoId
           /\ \A s1, s2 \in DOMAIN req : req[s1] = req[s2] => s1 = s2
  <1> DEFINE empty == findEmptySlots(p)
             Nth(s) == {c \in ids : Rank(c, ids) = Rank(s, empty)}
             D == {e \in empty : Nth(e) # {}}
             req == [s \in D |-> CHOOSE c \in Nth(s) : TRUE]
  <1>1. Placed(p, ids) = req
    BY DEF Placed
  <1>2. empty \in SUBSET Nat
    BY RosterAssumption DEF findEmptySlots
  <1>3. \A s \in empty : s \in Slots /\ CurSlots(p)[s] = NoId
    BY DEF findEmptySlots, getCharacterSlot
  <1>4. \A s \in D : req[s] \in Nth(s)
    OBVIOUS
  <1>5. \A s \in D : s \in empty /\ req[s] \in ids /\ Rank(req[s], ids) = Rank(s, empty)
    BY <1>4
  <1>6. req \in [D -> ids] /\ DOMAIN req = D
    BY <1>5
  <1> HIDE DEF D, req, empty
  <1>7. ASSUME NEW s1 \in D, NEW s2 \in D, req[s1] = req[s2] PROVE s1 = s2
    <2>1. s1 \in empty /\ s2 \in empty /\ Rank(s1, empty) = Rank(s2, empty)
      BY <1>5, <1>7
    <2> QED BY <1>2, <2>1, RankTells
  <1> QED BY <1>1, <1>3, <1>5, <1>6, <1>7

\* New characters in the empty slots of a deck.
LEMMA FilledDeck ==
    ASSUME NEW p, NEW A, WholeDeck(CurSlots(p), A),
           NEW ids \in SUBSET Nat, NoId \notin ids, ids \cap A = {}
    PROVE  WholeDeck(Overlaid(CurSlots(p), Placed(p, ids)), A \cup ids)
  <1> DEFINE D == CurSlots(p)
             req == Placed(p, ids)
             E == Overlaid(D, req)
  <1>1. /\ req \in [DOMAIN req -> ids]
        /\ \A s \in DOMAIN req : s \in Slots /\ D[s] = NoId
        /\ \A s1, s2 \in DOMAIN req : req[s1] = req[s2] => s1 = s2
    BY PlacedIs
  <1>2. D \in [Slots -> A \cup {NoId}] /\ ~HasDuplicates(D)
    BY DEF WholeDeck
  <1> HIDE DEF D, req
  <1>3. /\ E \in [Slots -> (A \cup ids) \cup {NoId}]
        /\ \A s \in Slots : E[s] = IF s \in DOMAIN req THEN req[s] ELSE D[s]
    BY <1>1, <1>2 DEF Overlaid
  <1> HIDE DEF E
  <1>4. ~HasDuplicates(E)
    BY <1>1, <1>2, <1>3 DEF HasDuplicates
  <1> QED BY <1>3, <1>4 DEF WholeDeck, D, req, E

-----------------------------------------------------------------------------
(* Decks of tables, memory and transactions.                               *)

\* The characters there are.
Given == 1..issued.chars

RowDecks ==
    \A p \in PlayerIds : deckRows[p] = NoDeck \/ WholeDeck(deckRows[p], Given)

MemDecks == \A p \in listed : WholeDeck(mem[p].deck, Given)

TxDecks == \A t \in txs : t.deck = NoDeck \/ WholeDeck(t.deck, Given)

DecksInv == RowDecks /\ MemDecks /\ TxDecks

\* Ids are given out, and none comes back.
LEMMA GivenGrows ==
    ASSUME IInv, [Next]_vars PROVE Given \subseteq Given'
  <1>1. /\ issued \in [players : 0..MaxPlayers, chars : 0..MaxChars]
        /\ issued.chars \in Nat /\ CharacterInfos \in Nat
    BY RosterAssumption, GrowthAssumption DEF IInv, RosterInv, IdsOK
  <1>2. \/ issued' = issued
        \/ \E t \in creates : createCheck(t)
        \/ \E p \in PlayerIds : addAll(p)
    BY DEF Next, vars, RosterNext, GrowthNext, createReq, deleteReq, createRefuse,
           createCharacter, createDeck, createPlayer, createItem, createEquip,
           createFail, deleteRow, deleteRefuse, load, possess, enterWorld, leaveWorld,
           slotChangeReq, statModifyReq, disconnnectSave, closeRoomless,
           reconnectOldPlayerProcess, closeTimeout, unload, dbCommit, dbFail, writeBack,
           rosterVars, growthVars
  <1>3. issued'.chars \in Nat /\ issued.chars <= issued'.chars
    <2>1. CASE issued' = issued
      BY <1>1, <2>1
    <2>2. CASE \E t \in creates : createCheck(t)
      BY <1>1, <2>2 DEF createCheck
    <2>3. CASE \E p \in PlayerIds : addAll(p)
      BY <1>1, <2>3 DEF addAll
    <2> QED BY <1>2, <2>1, <2>2, <2>3
  <1> QED BY <1>1, <1>3 DEF Given

\* A step that begins no transaction makes no deck.
LEMMA PassedTx ==
    ASSUME TxsOK, NEW p, txs' \in {txs, TakenOver(p), Replaced(p)}
    PROVE  \A x \in txs' : \E t \in txs : x.deck = t.deck
  <1> SUFFICES ASSUME NEW x \in txs' PROVE \E t \in txs : x.deck = t.deck
    OBVIOUS
  <1>1. \E t \in txs : x \in {t, [t EXCEPT !.gated = FALSE],
                            [t EXCEPT !.gated = FALSE, !.old = TRUE]}
    <2>1. CASE txs' = txs
      BY <2>1
    <2>2. CASE txs' = TakenOver(p)
      <3>1. PICK t \in txs : x = IF t.pid = p THEN [t EXCEPT !.gated = FALSE] ELSE t
        BY <2>2 DEF TakenOver
      <3> QED BY <3>1
    <2>3. CASE txs' = Replaced(p)
      <3>1. PICK t \in txs : x = IF t.pid = p
                                 THEN [t EXCEPT !.gated = FALSE, !.old = TRUE] ELSE t
        BY <2>3 DEF Replaced
      <3> QED BY <3>1
    <2> QED BY <2>1, <2>2, <2>3
  <1>2. PICK t \in txs : x \in {t, [t EXCEPT !.gated = FALSE],
                                [t EXCEPT !.gated = FALSE, !.old = TRUE]}
    BY <1>1
  <1>3. IsTx(t)
    BY DEF TxsOK
  <1>4. x.deck = t.deck
    <2>1. CASE x = t
      BY <1>3, <2>1
    <2>2. CASE x # t
      <3>1. x \in {[t EXCEPT !.gated = FALSE], [t EXCEPT !.gated = FALSE, !.old = TRUE]}
        BY <1>2, <2>2
      <3> QED BY <1>3, <3>1, HandedTx
    <2> QED BY <2>1, <2>2
  <1> QED BY <1>4

\* A deck is stored by a creation or a transaction.
LEMMA RowDeckFrom ==
    ASSUME IInv, DecksInv, [Next]_vars, NEW p \in PlayerIds
    PROVE  deckRows'[p] = NoDeck \/ WholeDeck(deckRows'[p], Given)
  <1> USE DEF DecksInv
  <1>1. CASE UNCHANGED deckRows
    BY <1>1 DEF RowDecks
  <1>2. ASSUME NEW t \in creates, createDeck(t)
        PROVE  deckRows'[p] = NoDeck \/ WholeDeck(deckRows'[p], Given)
    <2> DEFINE D == [s \in Slots |-> IF s = 0 THEN t.cid ELSE NoId]
    <2>1. deckRows'[p] \in {D, deckRows[p]}
      BY <1>2 DEF createDeck, IInv, RosterInv, RowsOK
    <2>2. t.cid \in Given
      BY <1>2 DEF createDeck, IInv, RosterInv, TasksOK, HasIds, Given
    <2>3. WholeDeck(D, Given)
      BY <2>2 DEF WholeDeck, HasDuplicates
    <2> HIDE DEF D
    <2> QED BY <2>1, <2>3 DEF RowDecks
  <1>3. ASSUME NEW t \in txs, dbCommit(t)
        PROVE  deckRows'[p] = NoDeck \/ WholeDeck(deckRows'[p], Given)
    <2>1. deckRows'[p] = deckRows[p] \/ deckRows'[p] = t.deck
      BY <1>3 DEF dbCommit, IInv, RosterInv, RowsOK
    <2> QED BY <2>1 DEF RowDecks, TxDecks
  <1>4. \/ UNCHANGED deckRows
        \/ \E t \in creates : createDeck(t)
        \/ \E t \in txs : dbCommit(t)
    BY DEF Next, vars, RosterNext, GrowthNext, createReq, deleteReq, createRefuse,
           createCheck, createCharacter, createPlayer, createItem, createEquip,
           createFail, deleteRow, deleteRefuse, load, possess, enterWorld, leaveWorld,
           slotChangeReq, statModifyReq, addAll, disconnnectSave, closeRoomless,
           reconnectOldPlayerProcess, closeTimeout, unload, dbFail, writeBack,
           rosterVars, growthVars, rowVars
  <1> QED BY <1>1, <1>2, <1>3, <1>4

\* Memory gets a deck from its row, or from a transaction.
LEMMA MemDeckFrom ==
    ASSUME IInv, DecksInv, [Next]_vars, NEW p \in listed'
    PROVE  WholeDeck(mem'[p].deck, Given)
  <1> USE DEF DecksInv
  <1>1. CASE p \in listed /\ mem'[p] = mem[p]
    BY <1>1 DEF MemDecks
  <1>2. ASSUME NEW q \in PlayerIds, load(q)
        PROVE  WholeDeck(mem'[p].deck, Given)
    <2>1. CASE p = q
      <3>1. mem'[p].deck = deckRows[p] /\ deckRows[p] # NoDeck
        BY <1>2, <2>1 DEF load, LoadedDeck, IInv, LoadedOK, RosterInv, PlayerIsWhole
      <3> QED BY <2>1, <3>1 DEF RowDecks
    <2>2. CASE p # q
      BY <1>1, <1>2, <2>2 DEF load, IInv, LoadedOK
    <2> QED BY <2>1, <2>2
  <1>3. ASSUME NEW t \in txs, writeBack(t)
        PROVE  WholeDeck(mem'[p].deck, Given)
    <2>1. p \in listed /\ listed \subseteq PlayerIds
          /\ mem' = [mem EXCEPT ![t.pid] = Joined(t, Copied(t, mem[t.pid]))]
      BY <1>3 DEF writeBack, IInv, LoadedOK
    <2>2. CASE p = t.pid
      <3> DEFINE r == Joined(t, Copied(t, mem[p]))
      <3>1. IsMem(mem[p]) /\ mem'[p] = r
        BY <2>1, <2>2 DEF IInv, LoadedOK
      <3>2. r.deck = IF t.old \/ t.deck = NoDeck THEN mem[p].deck ELSE t.deck
        BY <3>1, WrittenMem
      <3> HIDE DEF r
      <3>3. mem'[p].deck \in {mem[p].deck, t.deck}
            /\ (t.deck = NoDeck => mem'[p].deck = mem[p].deck)
        BY <3>1, <3>2
      <3> QED BY <2>1, <3>3 DEF MemDecks, TxDecks
    <2>3. CASE p # t.pid
      BY <1>1, <2>1, <2>3 DEF IInv, LoadedOK
    <2> QED BY <2>2, <2>3
  <1>4. ASSUME NEW q \in PlayerIds, unload(q)
        PROVE  WholeDeck(mem'[p].deck, Given)
    <2>1. p \in listed /\ p # q /\ p \in PlayerIds
      BY <1>4 DEF unload, IInv, LoadedOK
    <2> QED BY <1>1, <1>4, <2>1 DEF unload, IInv, LoadedOK
  <1>5. \/ p \in listed /\ mem'[p] = mem[p]
        \/ \E q \in PlayerIds : load(q) \/ unload(q)
        \/ \E t \in txs : writeBack(t)
    BY DEF Next, vars, GrowthNext, possess, enterWorld, leaveWorld,
           slotChangeReq, statModifyReq, addAll, disconnnectSave, closeRoomless,
           reconnectOldPlayerProcess, closeTimeout, dbCommit, dbFail, growthVars
  <1> QED BY <1>1, <1>2, <1>3, <1>4, <1>5

\* A transaction that begins.
LEMMA BegunTx ==
    ASSUME NEW t, IsTx(t), Begin(t), NEW x \in txs'
    PROVE  \/ x \in txs
           \/ /\ IsTx(x) /\ x.at = t.at /\ x.pid = t.pid /\ x.adds = t.adds
              /\ x.deck = t.deck /\ x.points = t.points
              /\ x.gated = t.gated /\ x.old = t.old
  <1> DEFINE m == [t EXCEPT !.order = started]
  <1>1. /\ IsTx(m) /\ m.at = t.at /\ m.pid = t.pid /\ m.adds = t.adds
        /\ m.deck = t.deck /\ m.points = t.points /\ m.gated = t.gated /\ m.old = t.old
    BY NumberedTx
  <1>2. x \in txs \/ x = m
    BY DEF Begin
  <1> HIDE DEF m
  <1> QED BY <1>1, <1>2

\* The deck of a transaction is what it makes of the deck in memory.
LEMMA TxDeckFrom ==
    ASSUME IInv, DecksInv, [Next]_vars, NEW x \in txs'
    PROVE  x.deck = NoDeck \/ WholeDeck(x.deck, Given')
  <1> USE DEF DecksInv
  <1>1. \A t \in txs : t.deck = NoDeck \/ WholeDeck(t.deck, Given')
    BY GivenGrows DEF TxDecks, WholeDeck
  <1>2. online \subseteq listed
    BY DEF IInv, LoadedOK
  <1>3. ASSUME NEW p \in PlayerIds, NEW req \in SlotRequests, slotChangeReq(p, req)
        PROVE  x.deck = NoDeck \/ WholeDeck(x.deck, Given')
    <2> DEFINE t == changeSlot([Tx(p) EXCEPT !.gated = TRUE], p, req)
    <2>1. IsTx(t) /\ t.deck \in {NoDeck, Overlaid(CurSlots(p), req)}
      BY SlotFields
    <2>2. Begin(t) /\ p \in listed /\ ~HasDuplicates(Overlaid(CurSlots(p), req))
          /\ issued' = issued
      BY <1>2, <1>3 DEF slotChangeReq, Ready, SlotsAllowed, rosterVars
    <2> HIDE DEF t
    <2>3. PICK S \in SUBSET Slots : req \in [S -> Given \cup {NoId}]
      BY DEF SlotRequests, Given
    <2>4. WholeDeck(CurSlots(p), Given)
      BY <2>2 DEF MemDecks, CurSlots
    <2>5. WholeDeck(Overlaid(CurSlots(p), req), Given')
      <3>1. WholeDeck(Overlaid(CurSlots(p), req), Given)
        BY <2>2, <2>3, <2>4, ChangedDeck
      <3> QED BY <2>2, <3>1 DEF Given
    <2> QED BY <1>1, <2>1, <2>2, <2>5, BegunTx
  <1>4. ASSUME NEW p \in PlayerIds, addAll(p)
        PROVE  x.deck = NoDeck \/ WholeDeck(x.deck, Given')
    <2> DEFINE ids == (issued.chars + 1)..(issued.chars + CharacterInfos)
               req == Placed(p, ids)
               t == changeSlot(insertCharacter(Tx(p), ids), p, req)
    <2>1. /\ p \in listed /\ Begin(t)
          /\ issued' = [issued EXCEPT !.chars = @ + CharacterInfos]
      BY <1>2, <1>4 DEF addAll
    <2>2. /\ issued.chars \in Nat /\ CharacterInfos \in Nat
          /\ issued \in [players : 0..MaxPlayers, chars : 0..MaxChars]
      BY RosterAssumption, GrowthAssumption DEF IInv, RosterInv, IdsOK
    <2>3. ids \in SUBSET Nat /\ NoId \notin ids /\ ids \cap Given = {}
      BY <2>2 DEF NoId, Given
    <2>4. Given \cup ids \subseteq Given'
      BY <2>1, <2>2 DEF Given
    <2> HIDE DEF ids
    <2>5. IsTx(t) /\ t.deck \in {NoDeck, Overlaid(CurSlots(p), req)}
      BY AddFields
    <2> HIDE DEF t
    <2>6. WholeDeck(CurSlots(p), Given)
      BY <2>1 DEF MemDecks, CurSlots
    <2>7. WholeDeck(Overlaid(CurSlots(p), req), Given \cup ids)
      BY <2>3, <2>6, FilledDeck
    <2>8. WholeDeck(Overlaid(CurSlots(p), req), Given')
      BY <2>4, <2>7 DEF WholeDeck
    <2> QED BY <1>1, <2>1, <2>5, <2>8, BegunTx
  <1>5. ASSUME NEW p \in PlayerIds, NEW c \in CharIds, NEW req \in StatRequests,
               statModifyReq(p, c, req)
        PROVE  x.deck = NoDeck \/ WholeDeck(x.deck, Given')
    <2> DEFINE t == change([Tx(p) EXCEPT !.gated = TRUE], c, req)
    <2>1. IsTx(t) /\ t.deck = NoDeck
      BY PointsFields
    <2>2. Begin(t)
      BY <1>5 DEF statModifyReq
    <2> HIDE DEF t
    <2> QED BY <1>1, <2>1, <2>2, BegunTx
  <1>6. ASSUME NEW p \in PlayerIds, disconnnectSave(p) \/ reconnectOldPlayerProcess(p)
        PROVE  x.deck = NoDeck \/ WholeDeck(x.deck, Given')
    <2> DEFINE y == SavedPlace(p)
               s == [Tx(p) EXCEPT !.place = y]
               l == [s EXCEPT !.leaves = TRUE]
    <2>1. Begin(s) \/ Begin([Tx(p) EXCEPT !.place = y, !.leaves = TRUE])
      BY <1>6 DEF disconnnectSave, reconnectOldPlayerProcess
    <2>2. Begin(s) \/ Begin(l)
      BY <2>1
    <2> HIDE DEF y
    <2>3. IsTx(s) /\ s.deck = NoDeck
      BY SaveFields
    <2> HIDE DEF s
    <2>4. IsTx(l) /\ l.deck = NoDeck
      BY <2>3, LeaveFields
    <2> HIDE DEF l
    <2> QED BY <1>1, <2>2, <2>3, <2>4, BegunTx
  <1>7. ASSUME NEW p \in PlayerIds, Quietly(p)
        PROVE  x.deck = NoDeck \/ WholeDeck(x.deck, Given')
    <2>1. txs' \in {txs, TakenOver(p), Replaced(p)}
      BY <1>7 DEF Quietly, load, possess, leaveWorld, closeRoomless, enterWorld,
                  closeTimeout, unload
    <2>2. TxsOK
      BY DEF IInv
    <2>3. PICK t \in txs : x.deck = t.deck
      BY <2>1, <2>2, PassedTx
    <2> QED BY <1>1, <2>3
  <1>8. ASSUME NEW t \in txs, dbCommit(t) \/ dbFail(t) \/ writeBack(t)
        PROVE  x.deck = NoDeck \/ WholeDeck(x.deck, Given')
    <2>1. [t EXCEPT !.at = "post"].deck = t.deck
      BY PostedTx DEF IInv, TxsOK
    <2> QED BY <1>1, <1>8, <2>1 DEF dbCommit, dbFail, writeBack
  <1>9. CASE UNCHANGED txs
    BY <1>1, <1>9
  <1> QED BY <1>3, <1>4, <1>5, <1>6, <1>7, <1>8, <1>9
          DEF Next, vars, growthVars, GrowthNext, Quietly

\* DecksInv holds in every behaviour.
THEOREM DecksInvariance == Spec => []DecksInv
  <1>1. Init => DecksInv
    BY DEF Init, RosterInit, GrowthInit, DecksInv, RowDecks, MemDecks, TxDecks
  <1>2. IInv /\ DecksInv /\ [Next]_vars => DecksInv'
    <2> SUFFICES ASSUME IInv, DecksInv, [Next]_vars PROVE DecksInv'
      OBVIOUS
    <2>1. RowDecks'
      <3>1. \A p \in PlayerIds : deckRows'[p] = NoDeck \/ WholeDeck(deckRows'[p], Given')
        BY RowDeckFrom, GivenGrows DEF WholeDeck
      <3> QED BY <3>1 DEF RowDecks, WholeDeck, HasDuplicates
    <2>2. MemDecks'
      <3>1. \A p \in listed' : WholeDeck(mem'[p].deck, Given')
        BY MemDeckFrom, GivenGrows DEF WholeDeck
      <3> QED BY <3>1 DEF MemDecks, WholeDeck, HasDuplicates
    <2>3. TxDecks'
      BY TxDeckFrom DEF TxDecks, WholeDeck, HasDuplicates
    <2> QED BY <2>1, <2>2, <2>3 DEF DecksInv
  <1> QED BY <1>1, <1>2, Invariance, PTL DEF Spec

\* No deck, stored or in memory, holds a character twice, though the command
\* that adds characters waits for no slot change (CheatCharacter.cpp:85) and
\* the next user for none of the one before (PktPlayerDataReqHandler.cpp:63).
THEOREM DecksDistinct == Spec => []NobodyTwice
  <1>1. DecksInv => NobodyTwice
    <2>1. ~HasDuplicates(NoDeck)
      BY DEF HasDuplicates, NoDeck
    <2> QED BY <2>1 DEF DecksInv, RowDecks, MemDecks, WholeDeck, NobodyTwice
  <1> QED BY <1>1, DecksInvariance, PTL

\* What a request spends is a number.
LEMMA RequestPoints ==
    ASSUME NEW req \in StatRequests PROVE Spent(req) \in Nat
  <1>1. \A s \in Stats : req.spent[s] \in Nat
    BY RosterAssumption DEF StatRequests
  <1>2. Stats = {"Str", "Dex", "Intellect"}
    BY DEF Stats
  <1> QED BY <1>1, <1>2 DEF Spent

\* A new character has its start points and has spent none.
LEMMA FreshPoints == Fresh \in StatRequests /\ Total(Fresh) = StartPoints
  <1>1. Fresh.spent = [s \in Stats |-> 0] /\ Fresh.remain = StartPoints
    BY DEF Fresh
  <1>2. Fresh \in StatRequests
    BY RosterAssumption DEF Fresh, StatRequests
  <1>3. Spent(Fresh) = 0
    BY <1>1 DEF Spent, Stats
  <1> QED BY <1>1, <1>2, <1>3, RosterAssumption DEF Total

-----------------------------------------------------------------------------
(* What is played: the points of tables, memory and transactions.          *)

\* Points as a request may name them, all of them there.
Sound(points) == points \in StatRequests /\ Total(points) = StartPoints

RowPoints ==
    \A c \in CharIds : charRows[c] # NoRow => Sound(charRows[c].points)

TxPhase == \A t \in txs : t.at \in {"db", "post"}

\* A transaction is about characters of its player; what was not begun on an
\* object that is replaced is about those it has.
TxChars ==
    \A t \in txs :
       /\ t.at = "post" => t.adds \subseteq OwnedRows(t.pid)
       /\ \A c \in DOMAIN t.points : c \in OwnedRows(t.pid) /\ Sound(t.points[c])
       /\ ~t.old /\ t.pid \in listed => DOMAIN t.points \subseteq DOMAIN mem[t.pid].chars

MemChars ==
    \A p \in listed :
       /\ DOMAIN mem[p].chars \subseteq OwnedRows(p)
       /\ \A c \in DOMAIN mem[p].chars : Sound(mem[p].chars[c])

\* One transaction of a connection is gated.  What is in flight for the points
\* of a player that was not taken over meanwhile is gated, or written.
OneGate ==
    /\ \A t, u \in txs : t.gated /\ u.gated /\ t.pid = u.pid => t = u
    /\ \A t \in txs : t.pid \notin rushed /\ DOMAIN t.points # {} =>
          IF t.old THEN t.at = "post" ELSE t.gated

\* Until it commits, what it was allowed against is what is stored.
TxPoints ==
    \A t \in txs : ~t.old /\ t.pid \notin rushed =>
       \A c \in DOMAIN t.points :
          /\ t.at = "db" => StatAllowed(charRows[c].points, t.points[c])
          /\ t.at = "post" => charRows[c].points = t.points[c]

\* Memory differs from the table only by what is to be written back.
MemPoints ==
    /\ \A p \in listed \ rushed : \A c \in DOMAIN mem[p].chars :
          \/ mem[p].chars[c] = charRows[c].points
          \/ \E t \in txs : t.pid = p /\ ~t.old /\ t.at = "post" /\ c \in DOMAIN t.points
    /\ \A t \in txs : t.pid \in listed \ rushed /\ t.at = "post" =>
          \A c \in t.adds : c \in DOMAIN mem[t.pid].chars \/ charRows[c].points = Fresh

PointsInv ==
    /\ RowPoints /\ TxPhase /\ TxChars /\ MemChars
    /\ OneGate /\ TxPoints /\ MemPoints

\* A character that is stored stays as it is, and one that comes is new.
CharsKept ==
    \A c \in CharIds :
       IF charRows[c] # NoRow THEN charRows'[c] = charRows[c]
       ELSE charRows'[c] # NoRow => charRows'[c].points = Fresh

\* A player keeps its characters.
LEMMA OwnedKept == ASSUME CharsKept PROVE \A p : OwnedRows(p) \subseteq OwnedRows(p)'
  BY DEF CharsKept, OwnedRows

\* Characters a player owns are stored.
LEMMA OwnedAre == \A p : \A c \in OwnedRows(p) : c \in CharIds /\ charRows[c] # NoRow
  BY DEF OwnedRows

\* A character has one owner.
LEMMA OneOwner ==
    ASSUME NEW p, NEW q, NEW c, c \in OwnedRows(p), c \in OwnedRows(q) PROVE p = q
  BY DEF OwnedRows

\* New rows, players that leave and transactions that are dropped.
LEMMA PointsStay ==
    ASSUME PointsInv, CharsKept, UNCHANGED rushed,
           txs' \subseteq txs, \A t \in txs : t.at = "post" => t \in txs',
           listed' \subseteq listed, \A p \in listed' : mem'[p] = mem[p]
    PROVE  PointsInv'
  <1> USE DEF PointsInv
  <1>1. \A p : OwnedRows(p) \subseteq OwnedRows(p)'
    BY OwnedKept
  <1>2. \A p : \A c \in OwnedRows(p) : charRows'[c] = charRows[c]
    BY OwnedAre DEF CharsKept
  <1>3. MemChars'
    BY <1>1 DEF MemChars, Sound, Total, Spent, StatRequests
  <1>4. TxChars'
    <2>1. \A t \in txs' :
            /\ t.at = "post" => t.adds \subseteq OwnedRows(t.pid)'
            /\ \A c \in DOMAIN t.points : c \in OwnedRows(t.pid)' /\ Sound(t.points[c])
            /\ ~t.old /\ t.pid \in listed' => DOMAIN t.points \subseteq DOMAIN mem'[t.pid].chars
      BY <1>1 DEF TxChars
    <2> QED BY <2>1 DEF TxChars, Sound, Total, Spent, StatRequests
  <1>5. RowPoints'
    <2>1. \A c \in CharIds : charRows'[c] # NoRow => Sound(charRows'[c].points)
      <3> SUFFICES ASSUME NEW c \in CharIds, charRows'[c] # NoRow
                   PROVE  Sound(charRows'[c].points)
        OBVIOUS
      <3>1. CASE charRows[c] # NoRow
        BY <3>1 DEF CharsKept, RowPoints
      <3>2. CASE charRows[c] = NoRow
        BY <3>2, FreshPoints DEF CharsKept, Sound
      <3> QED BY <3>1, <3>2
    <2> QED BY <2>1 DEF RowPoints, Sound, Total, Spent, StatRequests
  <1>6. OneGate'
    BY DEF OneGate
  <1>7. TxPoints'
    <2>1. \A t \in txs : \A c \in DOMAIN t.points : charRows'[c] = charRows[c]
      BY <1>2 DEF TxChars
    <2> QED BY <2>1 DEF TxPoints, StatAllowed, Total, Spent, StatRequests
  <1>8. MemPoints'
    <2>1. \A p \in listed : \A c \in DOMAIN mem[p].chars : charRows'[c] = charRows[c]
      BY <1>2 DEF MemChars
    <2>2. \A t \in txs : t.at = "post" => \A c \in t.adds : charRows'[c] = charRows[c]
      BY <1>2 DEF TxChars
    <2> QED BY <2>1, <2>2 DEF MemPoints, Fresh
  <1>9. TxPhase'
    BY DEF TxPhase
  <1> QED BY <1>3, <1>4, <1>5, <1>6, <1>7, <1>8, <1>9

\* A user that takes a player over finds its points as stored, or is rushed.
LEMMA PossessPoints ==
    ASSUME IInv, PointsInv, NEW p \in PlayerIds, possess(p)
    PROVE  PointsInv'
  <1> USE DEF PointsInv
  <1>1. /\ txs' = TakenOver(p) /\ UNCHANGED <<charRows, mem, listed>>
        /\ rushed' = IF Unseen(p) # {} THEN rushed \cup {p} ELSE rushed
    BY DEF possess, rosterVars, rowVars
  <1>2. \A q : OwnedRows(q)' = OwnedRows(q)
    BY <1>1 DEF OwnedRows
  <1>3. ASSUME NEW x \in txs'
        PROVE  \E t \in txs : /\ x.pid = t.pid /\ x.at = t.at /\ x.adds = t.adds
                              /\ x.points = t.points /\ x.old = t.old
                              /\ IF t.pid = p THEN x.gated = FALSE ELSE x = t
    <2> PICK t \in txs : x = IF t.pid = p THEN [t EXCEPT !.gated = FALSE] ELSE t
      BY <1>1 DEF TakenOver
    <2>1. IsTx(t)
      BY DEF IInv, TxsOK
    <2>2. CASE t.pid = p
      BY <2>1, <2>2 DEF IsTx
    <2>3. CASE t.pid # p
      BY <2>3
    <2> QED BY <2>2, <2>3
  <1>4. \A t \in txs : t.pid # p => t \in txs'
    BY <1>1 DEF TakenOver
  <1>5. p \notin rushed' => rushed' = rushed /\ \A t \in txs : t.pid = p => DOMAIN t.points = {}
    BY <1>1 DEF Unseen
  <1>6. rushed \subseteq rushed' /\ rushed' \subseteq rushed \cup {p}
    BY <1>1
  <1>7. RowPoints' /\ MemChars'
    BY <1>1, <1>2 DEF RowPoints, MemChars, Sound, Total, Spent, StatRequests
  <1>8. TxChars'
    <2>1. ASSUME NEW x \in txs'
          PROVE  /\ x.at = "post" => x.adds \subseteq OwnedRows(x.pid)
                 /\ \A c \in DOMAIN x.points : c \in OwnedRows(x.pid) /\ Sound(x.points[c])
                 /\ ~x.old /\ x.pid \in listed =>
                       DOMAIN x.points \subseteq DOMAIN mem[x.pid].chars
      <3> PICK t \in txs : /\ x.pid = t.pid /\ x.at = t.at /\ x.adds = t.adds
                           /\ x.points = t.points /\ x.old = t.old
        BY <1>3
      <3> QED BY DEF TxChars
    <2> QED BY <1>1, <1>2, <2>1 DEF TxChars, Sound, Total, Spent, StatRequests
  <1>9. OneGate'
    <2>1. ASSUME NEW x \in txs', NEW y \in txs', x.gated, y.gated, x.pid = y.pid
          PROVE  x = y
      <3>1. PICK t \in txs : IF t.pid = p THEN x.gated = FALSE ELSE x = t
        BY <1>3
      <3>2. PICK u \in txs : IF u.pid = p THEN y.gated = FALSE ELSE y = u
        BY <1>3
      <3>3. x \in txs /\ y \in txs
        BY <2>1, <3>1, <3>2
      <3> QED BY <2>1, <3>3 DEF OneGate
    <2>2. ASSUME NEW x \in txs', x.pid \notin rushed', DOMAIN x.points # {}
          PROVE  IF x.old THEN x.at = "post" ELSE x.gated
      <3> PICK t \in txs : /\ x.pid = t.pid /\ x.points = t.points
                           /\ IF t.pid = p THEN x.gated = FALSE ELSE x = t
        BY <1>3
      <3>1. t.pid # p
        BY <1>5, <2>2
      <3>2. x \in txs /\ x.pid \notin rushed
        BY <1>6, <2>2, <3>1
      <3> QED BY <2>2, <3>2 DEF OneGate
    <2> QED BY <2>1, <2>2 DEF OneGate
  <1>10. TxPoints'
    <2>1. ASSUME NEW x \in txs', ~x.old, x.pid \notin rushed', NEW c \in DOMAIN x.points
          PROVE  /\ x.at = "db" => StatAllowed(charRows[c].points, x.points[c])
                 /\ x.at = "post" => charRows[c].points = x.points[c]
      <3> PICK t \in txs : /\ x.pid = t.pid /\ x.points = t.points
                           /\ IF t.pid = p THEN x.gated = FALSE ELSE x = t
        BY <1>3
      <3>1. t.pid # p
        BY <1>5, <2>1
      <3>2. x \in txs /\ x.pid \notin rushed
        BY <1>6, <2>1, <3>1
      <3> QED BY <2>1, <3>2 DEF TxPoints
    <2> QED BY <1>1, <2>1 DEF TxPoints, StatAllowed, Total, Spent, StatRequests
  <1>11. MemPoints'
    <2>1. ASSUME NEW q \in listed \ rushed', NEW c \in DOMAIN mem[q].chars
          PROVE  \/ mem[q].chars[c] = charRows[c].points
                 \/ \E t \in txs' : t.pid = q /\ ~t.old /\ t.at = "post" /\ c \in DOMAIN t.points
      <3>1. q \notin rushed
        BY <1>6, <2>1
      <3>2. CASE q = p
        <4>1. ~\E t \in txs : t.pid = q /\ ~t.old /\ t.at = "post" /\ c \in DOMAIN t.points
          BY <1>5, <2>1, <3>2
        <4> QED BY <2>1, <3>1, <4>1 DEF MemPoints
      <3>3. CASE q # p
        BY <1>4, <2>1, <3>1, <3>3 DEF MemPoints
      <3> QED BY <3>2, <3>3
    <2>2. ASSUME NEW x \in txs', x.pid \in listed \ rushed', x.at = "post", NEW c \in x.adds
          PROVE  c \in DOMAIN mem[x.pid].chars \/ charRows[c].points = Fresh
      <3> PICK t \in txs : x.pid = t.pid /\ x.at = t.at /\ x.adds = t.adds
        BY <1>3
      <3>1. t.pid \in listed \ rushed
        BY <1>6, <2>2
      <3> QED BY <2>2, <3>1 DEF MemPoints
    <2> QED BY <1>1, <2>1, <2>2 DEF MemPoints, Fresh
  <1>12. TxPhase'
    BY <1>3 DEF TxPhase
  <1> QED BY <1>7, <1>8, <1>9, <1>10, <1>11, <1>12

\* A player that is loaded has what is stored, and what is still to be stored
\* makes it rushed.
LEMMA LoadPoints ==
    ASSUME IInv, PointsInv, NEW p \in PlayerIds, load(p)
    PROVE  PointsInv'
  <1> USE DEF PointsInv
  <1>1. /\ txs' = Replaced(p) /\ UNCHANGED charRows /\ listed' = listed \cup {p}
        /\ rushed' = IF \E t \in Unseen(p) : t.at = "db" THEN rushed \cup {p} ELSE rushed
        /\ mem' = [mem EXCEPT ![p] = [chars |-> LoadedChars(p), deck |-> LoadedDeck(p),
                                      place |-> playerRows[p].place]]
    BY DEF load, rosterVars, rowVars
  <1>2. /\ \A q : OwnedRows(q)' = OwnedRows(q)
        /\ listed \subseteq PlayerIds
    BY <1>1 DEF OwnedRows, IInv, LoadedOK
  <1>3. /\ mem'[p].chars = LoadedChars(p)
        /\ \A q \in PlayerIds \ {p} : mem'[q] = mem[q]
    BY <1>1 DEF IInv, LoadedOK
  <1>4. DOMAIN LoadedChars(p) = OwnedRows(p)
        /\ \A c \in OwnedRows(p) : LoadedChars(p)[c] = charRows[c].points
    BY DEF LoadedChars
  <1>5. ASSUME NEW x \in txs'
        PROVE  \E t \in txs : /\ x.pid = t.pid /\ x.at = t.at /\ x.adds = t.adds
                              /\ x.points = t.points
                              /\ IF t.pid = p THEN x.gated = FALSE /\ x.old ELSE x = t
    <2> PICK t \in txs : x = IF t.pid = p THEN [t EXCEPT !.gated = FALSE, !.old = TRUE] ELSE t
      BY <1>1 DEF Replaced
    <2>1. IsTx(t)
      BY DEF IInv, TxsOK
    <2>2. CASE t.pid = p
      <3>1. x = [order |-> t.order, at |-> t.at, pid |-> t.pid,
                 gated |-> FALSE, adds |-> t.adds, points |-> t.points,
                 deck |-> t.deck, place |-> t.place, leaves |-> t.leaves, old |-> TRUE]
        BY <2>1, <2>2 DEF IsTx
      <3> QED BY <2>2, <3>1
    <2>3. CASE t.pid # p
      BY <2>3
    <2> QED BY <2>2, <2>3
  <1>6. \A t \in txs : t.pid # p => t \in txs'
    BY <1>1 DEF Replaced
  <1>7. p \notin rushed' => \A t \in txs : t.pid = p /\ t.at = "db" => DOMAIN t.points = {}
    BY <1>1 DEF Unseen
  <1>8. rushed \subseteq rushed'
    BY <1>1
  <1>9. \A q \in listed' : q # p => q \in listed /\ mem'[q] = mem[q]
    BY <1>1, <1>2, <1>3
  <1>10. RowPoints'
    BY <1>1 DEF RowPoints, Sound, Total, Spent, StatRequests
  <1>11. MemChars'
    <2>1. \A q \in listed' : /\ DOMAIN mem'[q].chars \subseteq OwnedRows(q)
                             /\ \A c \in DOMAIN mem'[q].chars : Sound(mem'[q].chars[c])
      <3> SUFFICES ASSUME NEW q \in listed'
                   PROVE  /\ DOMAIN mem'[q].chars \subseteq OwnedRows(q)
                          /\ \A c \in DOMAIN mem'[q].chars : Sound(mem'[q].chars[c])
        OBVIOUS
      <3>1. CASE q = p
        BY <1>3, <1>4, <3>1, OwnedAre DEF RowPoints
      <3>2. CASE q # p
        BY <1>9, <3>2 DEF MemChars
      <3> QED BY <3>1, <3>2
    <2> QED BY <1>2, <2>1 DEF MemChars, Sound, Total, Spent, StatRequests
  <1>12. TxChars'
    <2>1. ASSUME NEW x \in txs'
          PROVE  /\ x.at = "post" => x.adds \subseteq OwnedRows(x.pid)
                 /\ \A c \in DOMAIN x.points : c \in OwnedRows(x.pid) /\ Sound(x.points[c])
                 /\ ~x.old /\ x.pid \in listed' =>
                       DOMAIN x.points \subseteq DOMAIN mem'[x.pid].chars
      <3>1. /\ x.at = "post" => x.adds \subseteq OwnedRows(x.pid)
            /\ \A c \in DOMAIN x.points : c \in OwnedRows(x.pid) /\ Sound(x.points[c])
        <4> PICK t \in txs : /\ x.pid = t.pid /\ x.at = t.at /\ x.adds = t.adds
                             /\ x.points = t.points
          BY <1>5
        <4> QED BY DEF TxChars
      <3>2. ASSUME ~x.old, x.pid \in listed'
            PROVE  DOMAIN x.points \subseteq DOMAIN mem'[x.pid].chars
        <4>1. x.pid # p /\ x \in txs
          BY <1>5, <3>2
        <4> QED BY <1>9, <3>2, <4>1 DEF TxChars
      <3> QED BY <3>1, <3>2
    <2> QED BY <1>2, <2>1 DEF TxChars, Sound, Total, Spent, StatRequests
  <1>13. OneGate'
    <2>1. ASSUME NEW x \in txs', NEW y \in txs', x.gated, y.gated, x.pid = y.pid
          PROVE  x = y
      <3>1. x \in txs /\ y \in txs
        BY <1>5, <2>1
      <3> QED BY <2>1, <3>1 DEF OneGate
    <2>2. ASSUME NEW x \in txs', x.pid \notin rushed', DOMAIN x.points # {}
          PROVE  IF x.old THEN x.at = "post" ELSE x.gated
      <3> PICK t \in txs : /\ x.pid = t.pid /\ x.at = t.at /\ x.points = t.points
                           /\ IF t.pid = p THEN x.gated = FALSE /\ x.old ELSE x = t
        BY <1>5
      <3>1. t.pid \notin rushed
        BY <1>8, <2>2
      <3>2. CASE t.pid = p
        <4>1. t.at # "db"
          BY <1>7, <2>2, <3>2
        <4>2. t.at = "post"
          BY <2>2, <3>1, <3>2, <4>1 DEF TxPhase
        <4> QED BY <3>2, <4>2
      <3>3. CASE t.pid # p
        BY <2>2, <3>1, <3>3 DEF OneGate
      <3> QED BY <3>2, <3>3
    <2> QED BY <2>1, <2>2 DEF OneGate
  <1>14. TxPoints'
    <2>1. ASSUME NEW x \in txs', ~x.old, x.pid \notin rushed', NEW c \in DOMAIN x.points
          PROVE  /\ x.at = "db" => StatAllowed(charRows[c].points, x.points[c])
                 /\ x.at = "post" => charRows[c].points = x.points[c]
      <3>1. x \in txs /\ x.pid \notin rushed
        BY <1>5, <1>8, <2>1
      <3> QED BY <2>1, <3>1 DEF TxPoints
    <2> QED BY <1>1, <2>1 DEF TxPoints, StatAllowed, Total, Spent, StatRequests
  <1>15. MemPoints'
    <2>1. ASSUME NEW q \in listed' \ rushed', NEW c \in DOMAIN mem'[q].chars
          PROVE  \/ mem'[q].chars[c] = charRows[c].points
                 \/ \E t \in txs' : t.pid = q /\ ~t.old /\ t.at = "post" /\ c \in DOMAIN t.points
      <3>1. CASE q = p
        BY <1>3, <1>4, <2>1, <3>1
      <3>2. CASE q # p
        <4>1. q \in listed \ rushed /\ mem'[q] = mem[q]
          BY <1>8, <1>9, <2>1, <3>2
        <4> QED BY <1>6, <2>1, <3>2, <4>1 DEF MemPoints
      <3> QED BY <3>1, <3>2
    <2>2. ASSUME NEW x \in txs', x.pid \in listed' \ rushed', x.at = "post", NEW c \in x.adds
          PROVE  c \in DOMAIN mem'[x.pid].chars \/ charRows[c].points = Fresh
      <3>1. CASE x.pid = p
        <4>1. c \in OwnedRows(p)
          <5> PICK t \in txs : x.pid = t.pid /\ x.at = t.at /\ x.adds = t.adds
            BY <1>5
          <5> QED BY <2>2, <3>1 DEF TxChars
        <4> QED BY <1>3, <1>4, <3>1, <4>1
      <3>2. CASE x.pid # p
        <4>1. x \in txs /\ x.pid \in listed \ rushed /\ mem'[x.pid] = mem[x.pid]
          BY <1>5, <1>8, <1>9, <2>2, <3>2
        <4> QED BY <2>2, <4>1 DEF MemPoints
      <3> QED BY <3>1, <3>2
    <2> QED BY <1>1, <2>1, <2>2 DEF MemPoints, Fresh
  <1>16. TxPhase'
    BY <1>5 DEF TxPhase
  <1> QED BY <1>10, <1>11, <1>12, <1>13, <1>14, <1>15, <1>16

\* A transaction that begins on what is in memory: nothing of the player is
\* in flight that memory does not have, or the player was rushed.
LEMMA BeginPoints ==
    ASSUME IInv, PointsInv, NEW t, Begin(t), IsTx(t), t.at = "db", t.pid \in listed,
           UNCHANGED <<rowVars, mem, rushed>>, listed' \subseteq listed,
           t.gated => \A u \in txs : u.pid = t.pid => ~u.gated,
           DOMAIN t.points # {} => t.gated /\ ~t.old,
           \A c \in DOMAIN t.points :
              /\ c \in DOMAIN mem[t.pid].chars /\ t.points[c] \in StatRequests
              /\ StatAllowed(mem[t.pid].chars[c], t.points[c])
    PROVE  PointsInv'
  <1> DEFINE m == [t EXCEPT !.order = started]
  <1> USE DEF PointsInv
  <1>1. /\ m.at = "db" /\ m.pid = t.pid /\ m.adds = t.adds
        /\ m.gated = t.gated /\ m.points = t.points /\ m.old = t.old
    BY NumberedTx
  <1>2. txs' = txs \cup {m}
    BY DEF Begin
  <1> HIDE DEF m
  <1>3. UNCHANGED charRows /\ \A q : OwnedRows(q)' = OwnedRows(q)
    BY DEF rowVars, OwnedRows
  <1>4. \A c \in DOMAIN mem[t.pid].chars :
           c \in OwnedRows(t.pid) /\ Sound(mem[t.pid].chars[c])
    BY DEF MemChars
  <1>5. MemChars' /\ RowPoints' /\ TxPhase'
    BY <1>1, <1>2, <1>3 DEF MemChars, RowPoints, TxPhase, Sound, Total, Spent, StatRequests
  <1>6. \A c \in DOMAIN t.points : Sound(t.points[c])
    BY <1>4 DEF Sound, StatAllowed
  <1>7. TxChars'
    <2>1. \A x \in txs' :
            /\ x.at = "post" => x.adds \subseteq OwnedRows(x.pid)
            /\ \A c \in DOMAIN x.points : c \in OwnedRows(x.pid) /\ Sound(x.points[c])
            /\ ~x.old /\ x.pid \in listed => DOMAIN x.points \subseteq DOMAIN mem[x.pid].chars
      <3>1. /\ \A c \in DOMAIN m.points : c \in OwnedRows(m.pid) /\ Sound(m.points[c])
            /\ DOMAIN m.points \subseteq DOMAIN mem[m.pid].chars
        BY <1>1, <1>4, <1>6
      <3> QED BY <1>1, <1>2, <3>1 DEF TxChars
    <2> QED BY <1>3, <2>1 DEF TxChars, Sound, Total, Spent, StatRequests
  <1>8. OneGate'
    <2>1. ASSUME NEW x \in txs', NEW y \in txs', x.gated, y.gated, x.pid = y.pid
          PROVE  x = y
      BY <1>1, <1>2, <2>1 DEF OneGate
    <2>2. ASSUME NEW x \in txs', x.pid \notin rushed, DOMAIN x.points # {}
          PROVE  IF x.old THEN x.at = "post" ELSE x.gated
      BY <1>1, <1>2, <2>2 DEF OneGate
    <2> QED BY <2>1, <2>2 DEF OneGate
  <1>9. TxPoints'
    <2>1. ASSUME m.pid \notin rushed, NEW c \in DOMAIN m.points
          PROVE  StatAllowed(charRows[c].points, m.points[c])
      <3>1. c \in DOMAIN t.points /\ t.gated /\ c \in DOMAIN mem[t.pid].chars
        BY <1>1, <2>1
      <3>2. \A u \in txs : u.pid = t.pid /\ ~u.old => DOMAIN u.points = {}
        BY <1>1, <2>1, <3>1 DEF OneGate
      <3>3. mem[t.pid].chars[c] = charRows[c].points
        BY <1>1, <2>1, <3>1, <3>2 DEF MemPoints
      <3> QED BY <1>1, <3>1, <3>3
    <2>2. \A x \in txs' : ~x.old /\ x.pid \notin rushed =>
             \A c \in DOMAIN x.points :
                /\ x.at = "db" => StatAllowed(charRows[c].points, x.points[c])
                /\ x.at = "post" => charRows[c].points = x.points[c]
      BY <1>1, <1>2, <2>1 DEF TxPoints
    <2> QED BY <1>3, <2>2 DEF TxPoints, StatAllowed, Total, Spent, StatRequests
  <1>10. MemPoints'
    BY <1>1, <1>2, <1>3 DEF MemPoints, Fresh
  <1> QED BY <1>5, <1>7, <1>8, <1>9, <1>10

\* What a commit does to the characters.
LEMMA CommittedPoints ==
    ASSUME IInv, NEW t \in txs, dbCommit(t)
    PROVE  /\ t.adds \subseteq CharIds
           /\ \A c \in t.adds : charRows'[c].points = Fresh /\ c \in OwnedRows(t.pid)'
           /\ \A c \in CharIds \ t.adds : charRows[c] = NoRow => charRows'[c] = NoRow
           /\ \A c \in CharIds : charRows[c] # NoRow =>
                 /\ charRows'[c] # NoRow /\ c \notin t.adds
                 /\ charRows'[c].points = IF c \in DOMAIN t.points THEN t.points[c]
                                          ELSE charRows[c].points
  <1>1. t.adds \subseteq CharIds /\ \A c \in t.adds : charRows[c] = NoRow
    BY RosterAssumption DEF IInv, RosterInv, IdsOK, TxsOK, CharIds, dbCommit
  <1>2. \A c \in CharIds : charRows'[c] =
              IF c \in t.adds THEN [owner |-> t.pid, points |-> Fresh]
              ELSE IF c \in DOMAIN t.points /\ charRows[c] # NoRow
                   THEN [charRows[c] EXCEPT !.points = t.points[c]]
                   ELSE charRows[c]
    BY DEF dbCommit
  <1>3. \A c \in t.adds : /\ charRows'[c] = [owner |-> t.pid, points |-> Fresh]
                          /\ c \in CharIds
    BY <1>1, <1>2
  <1>4. \A c \in t.adds : charRows'[c].points = Fresh /\ c \in OwnedRows(t.pid)'
    BY <1>3, CharIsRow DEF OwnedRows
  <1>5. \A c \in CharIds \ t.adds : charRows[c] = NoRow => charRows'[c] = NoRow
    BY <1>2
  <1>6. ASSUME NEW c \in CharIds, charRows[c] # NoRow
        PROVE  /\ charRows'[c] # NoRow /\ c \notin t.adds
               /\ charRows'[c].points = IF c \in DOMAIN t.points THEN t.points[c]
                                        ELSE charRows[c].points
    <2>1. c \notin t.adds /\ IsChar(charRows[c])
      BY <1>1, <1>6 DEF IInv, RosterInv, RowsOK
    <2>2. CASE c \in DOMAIN t.points
      <3> DEFINE x == t.points[c]
      <3>1. charRows'[c] = [charRows[c] EXCEPT !.points = x]
        BY <1>2, <1>6, <2>1, <2>2
      <3> HIDE DEF x
      <3>2. charRows'[c].points = x
        BY <2>1, <3>1 DEF IsChar
      <3>3. charRows'[c] # NoRow
        BY <2>1, <3>1, PointsOfChar
      <3> QED BY <2>1, <2>2, <3>2, <3>3 DEF x
    <2>3. CASE c \notin DOMAIN t.points
      <3>1. charRows'[c] = charRows[c]
        BY <1>2, <2>1, <2>3
      <3> QED BY <1>6, <2>1, <2>3, <3>1
    <2> QED BY <2>2, <2>3
  <1> QED BY <1>1, <1>4, <1>5, <1>6

\* A commit stores the points it was allowed, and its characters.
LEMMA CommitPoints ==
    ASSUME IInv, PointsInv, NEW t \in txs, dbCommit(t)
    PROVE  PointsInv'
  <1> DEFINE m == [t EXCEPT !.at = "post"]
  <1> USE DEF PointsInv
  <1>1. t.at = "db" /\ txs' = (txs \ {t}) \cup {m} /\ UNCHANGED <<mem, listed, rushed>>
    BY DEF dbCommit
  <1>2. /\ m.at = "post" /\ m.pid = t.pid /\ m.adds = t.adds
        /\ m.gated = t.gated /\ m.points = t.points /\ m.old = t.old
    BY PostedTx DEF IInv, TxsOK
  <1> HIDE DEF m
  <1>3. /\ \A c \in t.adds : charRows'[c].points = Fresh /\ c \in OwnedRows(t.pid)'
        /\ \A c \in CharIds \ t.adds : charRows[c] = NoRow => charRows'[c] = NoRow
        /\ \A c \in CharIds : charRows[c] # NoRow =>
              /\ charRows'[c] # NoRow /\ c \notin t.adds
              /\ charRows'[c].points = IF c \in DOMAIN t.points THEN t.points[c]
                                       ELSE charRows[c].points
    BY CommittedPoints
  <1>4. \A q : OwnedRows(q) \subseteq OwnedRows(q)'
    BY CommittedChars DEF OwnedRows
  <1>5. \A c \in DOMAIN t.points : c \in OwnedRows(t.pid) /\ Sound(t.points[c])
    BY DEF TxChars
  <1>6. RowPoints'
    <2> SUFFICES ASSUME NEW c \in CharIds, charRows'[c] # NoRow
                 PROVE  Sound(charRows'[c].points)
      BY DEF RowPoints, Sound, Total, Spent, StatRequests
    <2>1. CASE charRows[c] = NoRow
      BY <1>3, <2>1, FreshPoints DEF Sound
    <2>2. CASE charRows[c] # NoRow
      BY <1>3, <1>5, <2>2 DEF RowPoints
    <2> QED BY <2>1, <2>2
  <1>7. MemChars' /\ TxPhase'
    BY <1>1, <1>2, <1>4 DEF MemChars, TxPhase, Sound, Total, Spent, StatRequests
  <1>8. TxChars'
    <2>1. \A x \in txs' :
            /\ x.at = "post" => x.adds \subseteq OwnedRows(x.pid)'
            /\ \A c \in DOMAIN x.points : c \in OwnedRows(x.pid)' /\ Sound(x.points[c])
            /\ ~x.old /\ x.pid \in listed => DOMAIN x.points \subseteq DOMAIN mem[x.pid].chars
      <3>1. ASSUME NEW x \in txs
            PROVE  /\ x.at = "post" => x.adds \subseteq OwnedRows(x.pid)'
                   /\ \A c \in DOMAIN x.points : c \in OwnedRows(x.pid)' /\ Sound(x.points[c])
                   /\ ~x.old /\ x.pid \in listed =>
                         DOMAIN x.points \subseteq DOMAIN mem[x.pid].chars
        BY <1>4 DEF TxChars
      <3>2. m.adds \subseteq OwnedRows(m.pid)'
        BY <1>2, <1>3
      <3>3. /\ \A c \in DOMAIN m.points : c \in OwnedRows(m.pid)' /\ Sound(m.points[c])
            /\ ~m.old /\ m.pid \in listed => DOMAIN m.points \subseteq DOMAIN mem[m.pid].chars
        BY <1>2, <3>1
      <3> QED BY <1>1, <3>1, <3>2, <3>3
    <2> QED BY <1>1, <2>1 DEF TxChars, Sound, Total, Spent, StatRequests
  <1>9. OneGate'
    <2>1. ASSUME NEW x \in txs', NEW y \in txs', x.gated, y.gated, x.pid = y.pid
          PROVE  x = y
      BY <1>1, <1>2, <2>1 DEF OneGate
    <2>2. ASSUME NEW x \in txs', x.pid \notin rushed, DOMAIN x.points # {}
          PROVE  IF x.old THEN x.at = "post" ELSE x.gated
      BY <1>1, <1>2, <2>2 DEF OneGate
    <2> QED BY <1>1, <2>1, <2>2 DEF OneGate
  <1>10. ASSUME NEW x \in txs \ {t}, ~x.old, x.pid \notin rushed, NEW c \in DOMAIN x.points
         PROVE  c \notin DOMAIN t.points
    <2> SUFFICES ASSUME c \in DOMAIN t.points PROVE FALSE
      OBVIOUS
    <2>1. c \in OwnedRows(x.pid) /\ c \in OwnedRows(t.pid)
      BY DEF TxChars
    <2>2. x.pid = t.pid
      BY <2>1, OneOwner
    <2>3. x.gated /\ t.gated
      BY <1>1, <1>10, <2>2 DEF OneGate
    <2> QED BY <2>2, <2>3 DEF OneGate
  <1>11. TxPoints'
    <2>1. \A x \in txs \ {t} : ~x.old /\ x.pid \notin rushed =>
             \A c \in DOMAIN x.points : charRows'[c].points = charRows[c].points
      BY <1>3, <1>10, OwnedAre DEF TxChars
    <2>2. \A c \in DOMAIN m.points : charRows'[c].points = m.points[c]
      BY <1>2, <1>3, <1>5, OwnedAre
    <2>3. \A x \in txs' : ~x.old /\ x.pid \notin rushed =>
             \A c \in DOMAIN x.points :
                /\ x.at = "db" => StatAllowed(charRows'[c].points, x.points[c])
                /\ x.at = "post" => charRows'[c].points = x.points[c]
      BY <1>1, <1>2, <2>1, <2>2 DEF TxPoints
    <2> QED BY <1>1, <2>3 DEF TxPoints, StatAllowed, Total, Spent, StatRequests
  <1>12. MemPoints'
    <2>1. ASSUME NEW p \in listed \ rushed, NEW c \in DOMAIN mem[p].chars
          PROVE  \/ mem[p].chars[c] = charRows'[c].points
                 \/ \E x \in txs' : x.pid = p /\ ~x.old /\ x.at = "post" /\ c \in DOMAIN x.points
      <3>1. c \in OwnedRows(p) /\ c \in CharIds /\ charRows[c] # NoRow
        BY OwnedAre DEF MemChars
      <3>2. CASE c \in DOMAIN t.points
        <4>1. p = t.pid
          BY <1>5, <3>1, <3>2, OneOwner
        <4>2. ~t.old
          BY <1>1, <2>1, <3>2, <4>1 DEF OneGate
        <4>3. m \in txs' /\ m.pid = p /\ ~m.old /\ m.at = "post" /\ c \in DOMAIN m.points
          BY <1>1, <1>2, <3>2, <4>1, <4>2
        <4> QED BY <4>3
      <3>3. CASE c \notin DOMAIN t.points
        <4>1. charRows'[c].points = charRows[c].points
          BY <1>3, <3>1, <3>3
        <4>2. \A x \in txs : x.at = "post" => x \in txs'
          BY <1>1
        <4> QED BY <2>1, <4>1, <4>2 DEF MemPoints
      <3> QED BY <3>2, <3>3
    <2>2. ASSUME NEW x \in txs', x.pid \in listed \ rushed, x.at = "post", NEW c \in x.adds
          PROVE  c \in DOMAIN mem[x.pid].chars \/ charRows'[c].points = Fresh
      <3>1. CASE x = m
        BY <1>2, <1>3, <3>1
      <3>2. CASE x # m
        <4>1. /\ x \in txs /\ c \in OwnedRows(x.pid)
              /\ c \in DOMAIN mem[x.pid].chars \/ charRows[c].points = Fresh
          BY <1>1, <2>2, <3>2 DEF TxChars, MemPoints
        <4>2. CASE c \in DOMAIN t.points
          <5>1. t.pid = x.pid
            BY <1>5, <4>1, <4>2, OneOwner
          <5>2. ~t.old
            BY <1>1, <2>2, <4>2, <5>1 DEF OneGate
          <5> QED BY <2>2, <4>2, <5>1, <5>2 DEF TxChars
        <4>3. CASE c \notin DOMAIN t.points
          BY <1>3, <4>1, <4>3, OwnedAre
        <4> QED BY <4>2, <4>3
      <3> QED BY <3>1, <3>2
    <2> QED BY <1>1, <2>1, <2>2 DEF MemPoints, Fresh
  <1> QED BY <1>6, <1>7, <1>8, <1>9, <1>11, <1>12

\* Memory gets the points that were stored and the new characters it lacks;
\* a player that was replaced gets the characters alone.
LEMMA WriteBackPoints ==
    ASSUME IInv, PointsInv, NEW t \in txs, writeBack(t)
    PROVE  PointsInv'
  <1> DEFINE p == t.pid
             r == Joined(t, Copied(t, mem[p]))
  <1> USE DEF PointsInv
  <1>1. /\ t.at = "post" /\ txs' = txs \ {t} /\ UNCHANGED <<rosterVars, listed, rushed>>
        /\ mem' = [mem EXCEPT ![p] = r]
    BY DEF writeBack
  <1>2. UNCHANGED charRows /\ \A q : OwnedRows(q)' = OwnedRows(q)
    BY <1>1 DEF rosterVars, rowVars, OwnedRows
  <1>3. p \in PlayerIds /\ listed \subseteq PlayerIds
    BY DEF IInv, TxsOK, LoadedOK
  <1>4. /\ \A q \in listed \ {p} : mem'[q] = mem[q]
        /\ p \in listed => mem'[p] = r
    BY <1>1, <1>3 DEF IInv, LoadedOK
  <1>5. p \in listed =>
           /\ DOMAIN r.chars = DOMAIN mem[p].chars \cup t.adds
           /\ \A c \in DOMAIN mem[p].chars :
                 r.chars[c] = IF ~t.old /\ c \in DOMAIN t.points THEN t.points[c]
                              ELSE mem[p].chars[c]
           /\ \A c \in t.adds \ DOMAIN mem[p].chars : r.chars[c] = Fresh
    <2> SUFFICES ASSUME p \in listed
                 PROVE  /\ DOMAIN r.chars = DOMAIN mem[p].chars \cup t.adds
                        /\ \A c \in DOMAIN mem[p].chars :
                              r.chars[c] = IF ~t.old /\ c \in DOMAIN t.points
                                           THEN t.points[c] ELSE mem[p].chars[c]
                        /\ \A c \in t.adds \ DOMAIN mem[p].chars : r.chars[c] = Fresh
      OBVIOUS
    <2> DEFINE chars == IF t.old THEN mem[p].chars ELSE Overlaid(mem[p].chars, t.points)
    <2>1. IsMem(mem[p])
      BY DEF IInv, LoadedOK
    <2>2. r.chars = Overlaid([c \in t.adds |-> Fresh], chars)
      BY <2>1, WrittenMem
    <2>3. /\ DOMAIN chars = DOMAIN mem[p].chars
          /\ \A c \in DOMAIN mem[p].chars :
                chars[c] = IF ~t.old /\ c \in DOMAIN t.points THEN t.points[c]
                           ELSE mem[p].chars[c]
      <3>1. ~t.old => DOMAIN t.points \subseteq DOMAIN mem[p].chars
        BY DEF TxChars
      <3> QED BY <3>1 DEF Overlaid
    <2> HIDE DEF chars, r
    <2> QED BY <2>2, <2>3 DEF Overlaid
  <1> HIDE DEF r
  <1>6. RowPoints' /\ TxPhase' /\ OneGate'
    BY <1>1, <1>2 DEF RowPoints, TxPhase, OneGate, Sound, Total, Spent, StatRequests
  <1>7. TxPoints'
    BY <1>1, <1>2 DEF TxPoints, StatAllowed, Total, Spent, StatRequests
  <1>8. MemChars'
    <2>1. ASSUME NEW q \in listed
          PROVE  /\ DOMAIN mem'[q].chars \subseteq OwnedRows(q)
                 /\ \A c \in DOMAIN mem'[q].chars : Sound(mem'[q].chars[c])
      <3>1. CASE q # p
        BY <1>4, <3>1 DEF MemChars
      <3>2. CASE q = p
        <4>1. t.adds \subseteq OwnedRows(p) /\ Sound(Fresh)
          BY <1>1, FreshPoints DEF TxChars, Sound
        <4>2. /\ DOMAIN mem[p].chars \subseteq OwnedRows(p)
              /\ \A c \in DOMAIN mem[p].chars : Sound(mem[p].chars[c])
              /\ \A c \in DOMAIN t.points : Sound(t.points[c])
          BY <3>2 DEF MemChars, TxChars
        <4> QED BY <1>4, <1>5, <3>2, <4>1, <4>2
      <3> QED BY <3>1, <3>2
    <2> QED BY <1>1, <1>2, <2>1 DEF MemChars, Sound, Total, Spent, StatRequests
  <1>9. \A q \in listed : DOMAIN mem[q].chars \subseteq DOMAIN mem'[q].chars
    BY <1>4, <1>5
  <1>10. TxChars'
    <2>1. \A x \in txs' :
            /\ x.at = "post" => x.adds \subseteq OwnedRows(x.pid)
            /\ \A c \in DOMAIN x.points : c \in OwnedRows(x.pid) /\ Sound(x.points[c])
            /\ ~x.old /\ x.pid \in listed => DOMAIN x.points \subseteq DOMAIN mem'[x.pid].chars
      BY <1>1, <1>9 DEF TxChars
    <2> QED BY <1>1, <1>2, <2>1 DEF TxChars, Sound, Total, Spent, StatRequests
  <1>11. MemPoints'
    <2>1. ASSUME NEW q \in listed \ rushed, NEW c \in DOMAIN mem'[q].chars
          PROVE  \/ mem'[q].chars[c] = charRows[c].points
                 \/ \E x \in txs' : x.pid = q /\ ~x.old /\ x.at = "post" /\ c \in DOMAIN x.points
      <3>1. CASE q # p
        <4>1. mem'[q] = mem[q] /\ \A x \in txs : x.pid = q => x \in txs'
          BY <1>1, <1>4, <2>1, <3>1
        <4> QED BY <2>1, <4>1 DEF MemPoints
      <3>2. CASE q = p /\ c \notin DOMAIN mem[p].chars
        <4>1. c \in t.adds /\ mem'[q].chars[c] = Fresh
          BY <1>4, <1>5, <2>1, <3>2
        <4> QED BY <1>1, <2>1, <3>2, <4>1 DEF MemPoints
      <3>3. CASE q = p /\ c \in DOMAIN mem[p].chars /\ ~t.old /\ c \in DOMAIN t.points
        <4>1. mem'[q].chars[c] = t.points[c]
          BY <1>4, <1>5, <2>1, <3>3
        <4> QED BY <1>1, <2>1, <3>3, <4>1 DEF TxPoints
      <3>4. CASE q = p /\ c \in DOMAIN mem[p].chars /\ ~(~t.old /\ c \in DOMAIN t.points)
        <4>1. mem'[q].chars[c] = mem[q].chars[c]
          BY <1>4, <1>5, <2>1, <3>4
        <4>2. \A x \in txs : ~x.old /\ c \in DOMAIN x.points => x \in txs'
          BY <1>1, <3>4
        <4> QED BY <2>1, <3>4, <4>1, <4>2 DEF MemPoints
      <3> QED BY <3>1, <3>2, <3>3, <3>4
    <2>2. ASSUME NEW x \in txs', x.pid \in listed \ rushed, x.at = "post", NEW c \in x.adds
          PROVE  c \in DOMAIN mem'[x.pid].chars \/ charRows[c].points = Fresh
      BY <1>1, <1>9, <2>2 DEF MemPoints
    <2> QED BY <1>1, <1>2, <2>1, <2>2 DEF MemPoints, Fresh
  <1> QED BY <1>6, <1>7, <1>8, <1>10, <1>11

\* Creations and deletions leave the characters that are stored alone.
LEMMA RosterCharsKept ==
    ASSUME IInv, RosterNext
    PROVE  CharsKept
  <1>1. ASSUME UNCHANGED charRows PROVE CharsKept
    BY <1>1 DEF CharsKept
  <1>2. ASSUME NEW t \in creates, createCharacter(t) PROVE CharsKept
    <2>1. /\ charRows' = [charRows EXCEPT ![t.cid] = [owner |-> t.pid, points |-> Fresh]]
          /\ charRows[t.cid] = NoRow
      BY <1>2 DEF createCharacter, IInv, RosterInv, Progress
    <2>2. \A c \in CharIds : charRows'[c] =
             IF c = t.cid THEN [owner |-> t.pid, points |-> Fresh] ELSE charRows[c]
      BY <2>1 DEF IInv, RosterInv, RowsOK
    <2> QED BY <2>1, <2>2 DEF CharsKept
  <1>3. UNCHANGED charRows \/ \E t \in creates : createCharacter(t)
    BY DEF RosterNext, createReq, deleteReq, createCheck, createRefuse, createPlayer,
           createDeck, createItem, createEquip, createFail, deleteRow, deleteRefuse,
           rowVars
  <1> QED BY <1>1, <1>2, <1>3

\* The requests and the saves begin on what is in memory.
LEMMA RequestsPoints ==
    ASSUME IInv, PointsInv, NEW p \in PlayerIds,
           \/ \E req \in SlotRequests : slotChangeReq(p, req)
           \/ \E c \in CharIds, req \in StatRequests : statModifyReq(p, c, req)
           \/ disconnnectSave(p) \/ reconnectOldPlayerProcess(p)
    PROVE  PointsInv'
  <1>1. online \subseteq listed
    BY DEF IInv, LoadedOK
  <1>2. CASE \E req \in SlotRequests : slotChangeReq(p, req)
    <2> PICK req : slotChangeReq(p, req)
      BY <1>2
    <2> DEFINE t == changeSlot([Tx(p) EXCEPT !.gated = TRUE], p, req)
    <2>1. IsTx(t) /\ t.pid = p /\ t.at = "db" /\ DOMAIN t.points = {}
      BY SlotFields
    <2>2. /\ Begin(t) /\ p \in listed /\ UNCHANGED <<rosterVars, mem, listed, rushed>>
          /\ \A u \in txs : u.pid = p => ~u.gated
      BY <1>1 DEF slotChangeReq, Ready
    <2> HIDE DEF t
    <2> QED BY <2>1, <2>2, BeginPoints DEF rosterVars
  <1>3. CASE \E c \in CharIds, req \in StatRequests : statModifyReq(p, c, req)
    <2> PICK c \in CharIds, req \in StatRequests : statModifyReq(p, c, req)
      BY <1>3
    <2> DEFINE t == change([Tx(p) EXCEPT !.gated = TRUE], c, req)
    <2>1. /\ IsTx(t) /\ t.pid = p /\ t.at = "db" /\ t.gated /\ ~t.old
          /\ DOMAIN t.points = {c} /\ t.points[c] = req
      BY PointsFields
    <2>2. /\ Begin(t) /\ p \in listed /\ UNCHANGED <<rosterVars, mem, listed, rushed>>
          /\ \A u \in txs : u.pid = p => ~u.gated
          /\ c \in DOMAIN mem[p].chars /\ StatAllowed(mem[p].chars[c], req)
      BY <1>1 DEF statModifyReq, Ready, CurDistribute
    <2> HIDE DEF t
    <2> QED BY <2>1, <2>2, BeginPoints DEF rosterVars
  <1>4. CASE disconnnectSave(p)
    <2> DEFINE x == SavedPlace(p)
               t == [Tx(p) EXCEPT !.place = x]
    <2>1. /\ Begin(t) /\ p \in listed
          /\ UNCHANGED <<rosterVars, mem, listed, rushed>>
      BY <1>1, <1>4 DEF disconnnectSave
    <2> HIDE DEF x
    <2>2. IsTx(t) /\ t.pid = p /\ t.at = "db" /\ ~t.gated /\ DOMAIN t.points = {}
      BY SaveFields
    <2> HIDE DEF t
    <2> QED BY <2>1, <2>2, BeginPoints DEF rosterVars
  <1>5. CASE reconnectOldPlayerProcess(p)
    <2> DEFINE x == SavedPlace(p)
               s == [Tx(p) EXCEPT !.place = x]
               t == [s EXCEPT !.leaves = TRUE]
    <2>1. /\ Begin(t) /\ p \in listed /\ listed' \subseteq listed
          /\ UNCHANGED <<rosterVars, mem, rushed>>
      BY <1>5 DEF reconnectOldPlayerProcess
    <2> HIDE DEF x
    <2>2. IsTx(s) /\ s.pid = p /\ s.at = "db" /\ ~s.gated /\ DOMAIN s.points = {}
      BY SaveFields
    <2> HIDE DEF s
    <2>3. IsTx(t) /\ t.pid = p /\ t.at = "db" /\ ~t.gated /\ DOMAIN t.points = {}
      BY <2>2, LeaveFields
    <2> HIDE DEF t
    <2> QED BY <2>1, <2>3, BeginPoints DEF rosterVars
  <1> QED BY <1>2, <1>3, <1>4, <1>5

\* The command is about no points.
LEMMA AddAllPoints ==
    ASSUME IInv, PointsInv, NEW p \in PlayerIds, addAll(p)
    PROVE  PointsInv'
  <1> DEFINE ids == (issued.chars + 1)..(issued.chars + CharacterInfos)
             req == Placed(p, ids)
             t == changeSlot(insertCharacter(Tx(p), ids), p, req)
  <1>1. /\ p \in listed /\ Begin(t)
        /\ UNCHANGED <<rowVars, mem, listed, rushed>>
    BY DEF addAll, IInv, LoadedOK
  <1> HIDE DEF ids, req
  <1>2. IsTx(t) /\ t.pid = p /\ t.at = "db" /\ ~t.gated /\ DOMAIN t.points = {}
    BY AddFields
  <1> HIDE DEF t
  <1> QED BY <1>1, <1>2, BeginPoints

\* Every step keeps the points.
LEMMA NextPoints ==
    ASSUME IInv, PointsInv, [Next]_vars
    PROVE  PointsInv'
  <1>1. ASSUME UNCHANGED <<rosterVars, rushed>>, txs' \subseteq txs,
               \A t \in txs : t.at = "post" => t \in txs',
               listed' \subseteq listed, \A q \in listed' : mem'[q] = mem[q]
        PROVE  PointsInv'
    <2>1. CharsKept
      BY <1>1 DEF CharsKept, rosterVars, rowVars
    <2> QED BY <1>1, <2>1, PointsStay
  <1>2. CASE UNCHANGED <<rosterVars, growthVars>>
    BY <1>1, <1>2 DEF growthVars
  <1>3. CASE opened /\ RosterNext /\ UNCHANGED <<linkVars, growthVars>>
    BY <1>3, RosterCharsKept, PointsStay DEF growthVars
  <1>4. ASSUME NEW p \in PlayerIds, Quietly(p) PROVE PointsInv'
    <2>1. CASE load(p)
      BY <2>1, LoadPoints
    <2>2. CASE possess(p)
      BY <2>2, PossessPoints
    <2>3. CASE unload(p)
      <3>1. \A q \in listed : q # p /\ q \in PlayerIds
        BY <2>3 DEF unload, IInv, LoadedOK
      <3>2. \A q \in listed' : mem'[q] = mem[q]
        BY <2>3, <3>1 DEF unload, IInv, LoadedOK
      <3> QED BY <1>1, <2>3, <3>2 DEF unload
    <2>4. CASE \/ leaveWorld(p) \/ closeRoomless(p) \/ closeTimeout(p)
               \/ \E w \in Worlds : enterWorld(p, w)
      <3>1. /\ UNCHANGED <<rosterVars, rushed, txs, mem>> /\ listed' \subseteq listed
        BY <2>4 DEF leaveWorld, closeRoomless, enterWorld, closeTimeout
      <3> QED BY <1>1, <3>1
    <2> QED BY <1>4, <2>1, <2>2, <2>3, <2>4 DEF Quietly
  <1>5. ASSUME NEW p \in PlayerIds,
               \/ \E req \in SlotRequests : slotChangeReq(p, req)
               \/ \E c \in CharIds, req \in StatRequests : statModifyReq(p, c, req)
               \/ addAll(p) \/ disconnnectSave(p) \/ reconnectOldPlayerProcess(p)
        PROVE  PointsInv'
    BY <1>5, RequestsPoints, AddAllPoints
  <1>6. ASSUME NEW t \in txs, dbCommit(t) \/ dbFail(t) \/ writeBack(t)
        PROVE  PointsInv'
    <2>1. CASE dbFail(t)
      <3>1. /\ UNCHANGED <<rosterVars, mem, listed, rushed>>
            /\ t.at = "db" /\ txs' = txs \ {t}
        BY <2>1 DEF dbFail
      <3> QED BY <1>1, <3>1
    <2> QED BY <1>6, <2>1, CommitPoints, WriteBackPoints
  <1>7. CASE opened /\ GrowthNext /\ UNCHANGED linkVars
    BY <1>4, <1>5, <1>6, <1>7 DEF GrowthNext, Quietly
  <1> QED BY <1>2, <1>3, <1>7 DEF Next, vars

\* PointsInv holds in every behaviour.
THEOREM PointsInvariance == Spec => []PointsInv
  <1>1. Init => PointsInv
    BY DEF Init, RosterInit, GrowthInit, PointsInv, RowPoints, TxPhase, TxChars,
           MemChars, OneGate, TxPoints, MemPoints
  <1>2. IInv /\ PointsInv /\ [Next]_vars => PointsInv'
    BY NextPoints
  <1> QED BY <1>1, <1>2, Invariance, PTL DEF Spec

\* What a step makes of the points of a character that stays.
Refunds ==
    \A c \in CharIds :
       charRows[c] # NoRow /\ charRows'[c] # NoRow =>
          LET now == charRows[c].points
              then == charRows'[c].points
          IN /\ Total(then) = StartPoints
             /\ \/ charRows[c].owner \in rushed
                \/ Spent(then) = 0
                \/ \A s \in Stats : then.spent[s] >= now.spent[s]

\* A stored character keeps all the points it began with, whatever requests
\* and users overlap.  One that was spent comes back only with all the others
\* (PktStatPointModifyReqHandler.cpp:56), unless its player was taken over
\* while points of it were in flight.
THEOREM PointsKept == Spec => NoPartialRefund
  <1>1. IInv /\ PointsInv /\ PointsInv' /\ [Next]_vars => [Refunds]_vars
    <2> SUFFICES ASSUME IInv, PointsInv, PointsInv', [Next]_vars,
                        NEW c \in CharIds, charRows[c] # NoRow, charRows'[c] # NoRow
                 PROVE  /\ Total(charRows'[c].points) = StartPoints
                        /\ \/ charRows[c].owner \in rushed
                           \/ Spent(charRows'[c].points) = 0
                           \/ \A s \in Stats :
                                 charRows'[c].points.spent[s] >= charRows[c].points.spent[s]
      BY DEF Refunds
    <2>1. Total(charRows'[c].points) = StartPoints
      BY DEF PointsInv, RowPoints, Sound, Total, Spent
    <2>2. charRows[c].points \in StatRequests
      BY DEF PointsInv, RowPoints, Sound
    <2>3. \/ charRows'[c].points = charRows[c].points
          \/ \E t \in txs : dbCommit(t)
      <3>1. CASE opened /\ RosterNext /\ UNCHANGED <<linkVars, growthVars>>
        BY <3>1, RosterCharsKept DEF CharsKept
      <3>2. CASE opened /\ GrowthNext /\ UNCHANGED linkVars
        BY <3>2 DEF GrowthNext, load, possess, enterWorld, leaveWorld, slotChangeReq,
                    statModifyReq, addAll, disconnnectSave, closeRoomless,
                    reconnectOldPlayerProcess, closeTimeout, unload, dbFail, writeBack,
                    rosterVars, rowVars
      <3>3. CASE UNCHANGED <<rosterVars, growthVars>>
        BY <3>3 DEF rosterVars, rowVars
      <3> QED BY <3>1, <3>2, <3>3 DEF Next, vars
    <2>4. CASE charRows'[c].points = charRows[c].points
      <3>1. \A s \in Stats : charRows[c].points.spent[s] \in Int
        BY <2>2, RosterAssumption DEF StatRequests
      <3> QED BY <2>1, <2>4, <3>1
    <2>5. ASSUME NEW t \in txs, dbCommit(t), charRows'[c].points # charRows[c].points,
                 charRows[c].owner \notin rushed
          PROVE  \/ Spent(charRows'[c].points) = 0
                 \/ \A s \in Stats :
                       charRows'[c].points.spent[s] >= charRows[c].points.spent[s]
      <3>1. c \in DOMAIN t.points /\ charRows'[c].points = t.points[c]
        BY <2>5, CommittedPoints
      <3>2. t.at = "db" /\ t.points[c] \in StatRequests /\ t.pid = charRows[c].owner
        BY <2>5, <3>1 DEF PointsInv, TxChars, Sound, OwnedRows, dbCommit
      <3>3. ~t.old
        BY <2>5, <3>1, <3>2 DEF PointsInv, OneGate
      <3>4. StatAllowed(charRows[c].points, t.points[c])
        BY <2>5, <3>1, <3>2, <3>3 DEF PointsInv, TxPoints
      <3>5. Spent(t.points[c]) \in Nat
        BY <3>2, RequestPoints
      <3> QED BY <3>1, <3>4, <3>5 DEF StatAllowed
    <2> QED BY <2>1, <2>3, <2>4, <2>5
  <1>2. NoPartialRefund <=> [][Refunds]_vars
    BY DEF NoPartialRefund, Refunds
  <1> QED BY <1>1, <1>2, Invariance, PointsInvariance, PTL DEF Spec
=============================================================================
