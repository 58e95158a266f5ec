----------------------------- MODULE FieldProofs -----------------------------
(***************************************************************************)
(* Proofs about Field for any spawners, players, times and control counts. *)
(*                                                                         *)
(* An object lists its players and a player names its object: the two      *)
(* sides agree for every player, in the room or not, but for the entries   *)
(* of replaced Player objects, until the process meets undefined           *)
(* behaviour.  IInv says so of all players, where ControlsMatch speaks of  *)
(* those in the room.                                                      *)
(***************************************************************************)
EXTENDS Field, FiniteSetTheorems, TLAPS

\* A control list: the ids of players of today and of replaced ones.
ControlLists == [live : SUBSET Players, dead : SUBSET Players]

\* The fields of a living object these proofs speak of.
ObjOK(obj) ==
    /\ "state" \in DOMAIN obj /\ "remain" \in DOMAIN obj
    /\ "controls" \in DOMAIN obj
    /\ obj.state # "free"
    /\ obj.remain \in Nat
    /\ obj.controls \in ControlLists

PlayerOK(player) ==
    /\ "here" \in DOMAIN player /\ "state" \in DOMAIN player
    /\ "ctrl" \in DOMAIN player
    /\ player.here \in BOOLEAN
    /\ player.state \in {"Idle", "Ctrled"}
    /\ player.ctrl \in EnvObjs \cup {None}

DataOK ==
    /\ objs = [o \in Slots |-> objs[o]]
    /\ \A o \in Slots : Here(o) => ObjOK(objs[o])
    /\ players = [p \in Players |-> players[p]]
    /\ \A p \in Players : PlayerOK(players[p])
    /\ times = [s \in Spawners |-> times[s]]
    /\ \A s \in Spawners : times[s] \in Seq(Int)
    /\ pool \in [Spawners -> Int] /\ spawned \in [Spawners -> Int]
    /\ halted \in BOOLEAN

\* What a player controls is in the room.
Attached == \A p \in Players : players[p].ctrl # None => Here(players[p].ctrl)

\* The players that control o, wherever they are.
Holders(o) == {p \in Players : players[p].state = "Ctrled" /\ players[p].ctrl = o}

\* A control list has these players, but those it still has an old entry for.
Lists(controls, holders) == controls.live = holders \ controls.dead

Listed == ~halted => \A o \in Slots : Here(o) => Lists(objs[o].controls, Holders(o))

\* A limited object that is used up has no control, also not of a player that
\* left or was replaced: such a one halts the process when it is used up.
UsedUp ==
    ~halted => \A o \in Slots :
        Here(o) /\ ControlCount[o[1]] # 0 /\ objs[o].remain = 0
            => objs[o].controls = NoControls

Alive(s) == {o \in Slots : o[1] = s /\ Here(o)}

IInv == DataOK /\ Attached /\ Listed /\ UsedUp /\ SpawnBudget

-----------------------------------------------------------------------------
(* Places.                                                                 *)

\* A place is a pair of its spawner and a number.
LEMMA SlotIs ==
    ASSUME NEW o \in Slots
    PROVE  /\ o[1] \in Spawners /\ o \in {o[1]} \X (1..SpawnCount[o[1]])
           /\ o # None
<1>1. PICK s \in Spawners : o \in {s} \X (1..SpawnCount[s])
  BY DEF Slots
<1>2. o[1] = s
  BY <1>1
<1>3. o = <<o[1], o[2]>>
  BY <1>1
<1>4. o # None
  BY <1>3 DEF None
<1> QED BY <1>1, <1>2, <1>4

\* A spawner has finitely many places.
LEMMA PlacesFinite ==
    ASSUME NEW s \in Spawners, NEW S \in SUBSET Slots, \A o \in S : o[1] = s
    PROVE  IsFiniteSet(S)
<1> DEFINE N == 1..SpawnCount[s]
<1>1. SpawnCount[s] \in Nat
  BY FieldAssumption
<1>2. IsFiniteSet({s})
  BY FS_Singleton
<1>3. IsFiniteSet(N)
  BY <1>1, FS_Interval
<1> HIDE DEF N
<1>4. IsFiniteSet({s} \X N)
  BY <1>2, <1>3, FS_Product
<1>5. S \subseteq {s} \X N
  BY SlotIs DEF N
<1> QED BY <1>4, <1>5, FS_Subset

\* The living objects of a spawner, whom the properties count.
LEMMA AliveIs ==
    ASSUME NEW s \in Spawners
    PROVE  IsFiniteSet(Alive(s)) /\ Cardinality(Alive(s)) \in Nat
<1>1. IsFiniteSet(Alive(s))
  BY PlacesFinite DEF Alive
<1> QED BY <1>1, FS_CardinalityType

\* SpawnBudget of one spawner, as the steps below need it.
Budget(s) ==
    /\ spawned[s] = Cardinality(Alive(s))
    /\ pool[s] + Cardinality(Alive(s)) = Transforms[s]
    /\ Timed(s) => Len(times[s]) + Cardinality(Alive(s)) = SpawnCount[s]

\* SpawnBudget is that budget of every spawner.
LEMMA BudgetIs == SpawnBudget <=> \A s \in Spawners : Budget(s)
BY DEF SpawnBudget, Budget, Alive, Timed

-----------------------------------------------------------------------------
(* Objects: what a step of one leaves alone.                               *)

\* Still a living object, with the same controls, and used up only if it was.
Kept(u, r) ==
    ObjOK(u) /\ u.controls = r.controls /\ (u.remain = 0 => r.remain = 0)

\* A change of state keeps an object.
LEMMA ChangeKept ==
    ASSUME NEW r, ObjOK(r), NEW state
    PROVE  LET u == changeState(r, state) IN
           /\ ObjOK(u) /\ u.controls = r.controls /\ u.remain = r.remain
           /\ state \in EnvObjStates => u.state = state
BY DEF ObjOK, changeState, Activated, Deactivated, EnvObjStates

\* setRemainCtrlCount changes the count, and the charge time.
LEMMA SetRemainIs ==
    ASSUME NEW s, NEW r, ObjOK(r), NEW count \in Nat
    PROVE  LET u == setRemainCtrlCount(s, r, count) IN
           ObjOK(u) /\ u.controls = r.controls /\ u.remain = count
BY DEF ObjOK, setRemainCtrlCount

\* An object that despawns is kept until it is removed.
LEMMA DespawnedKept ==
    ASSUME NEW s, NEW r, ObjOK(r)
    PROVE  LET u == Despawned(s, r) IN
           ObjOK(u) /\ u.controls = r.controls /\ u.remain = r.remain
<1> DEFINE v == changeState(r, "Despawn")
<1>1. ObjOK(v) /\ v.controls = r.controls /\ v.remain = r.remain
  BY ChangeKept
<1> HIDE DEF v
<1>2. Despawned(s, r) = [v EXCEPT !.despawn = IF LifeTime[s] # 0
                                              THEN After(LifeTime[s]) ELSE @]
  BY DEF Despawned, v
<1> QED BY <1>1, <1>2 DEF ObjOK

\* EnvObj::update keeps an object.
LEMMA UpdateKept ==
    ASSUME NEW s \in Spawners, NEW r, ObjOK(r)
    PROVE  Kept(Charged(s, Aged(s, Stated(s, r))), r)
<1> DEFINE a == Stated(s, r)
           b == Aged(s, a)
           c == Charged(s, b)
<1>1. ObjOK(a) /\ a.controls = r.controls /\ a.remain = r.remain
  <2>1. CASE r.state = "Spawn"
    <3>1. a = changeState(r, InitState[s])
      BY <2>1 DEF Stated, SpawnOver
    <3> QED BY <3>1, ChangeKept
  <2>2. CASE r.state # "Spawn"
    BY <2>2 DEF Stated, ObjOK
  <2> QED BY <2>1, <2>2
<1> HIDE DEF a
<1>2. ObjOK(b) /\ b.controls = r.controls /\ b.remain = r.remain
  <2>1. CASE a.life = 0
    <3> DEFINE d == [a EXCEPT !.life = Unset]
    <3>1. ObjOK(d) /\ d.controls = a.controls /\ d.remain = a.remain
      BY <1>1 DEF ObjOK
    <3>2. b = Despawned(s, d)
      BY <2>1 DEF Aged
    <3> HIDE DEF d
    <3> QED BY <1>1, <3>1, <3>2, DespawnedKept
  <2>2. CASE a.life # 0
    BY <1>1, <2>2 DEF Aged
  <2> QED BY <2>1, <2>2
<1> HIDE DEF b
<1>3. ObjOK(c) /\ c.controls = r.controls /\ (c.remain = 0 => r.remain = 0)
  <2> DEFINE again == [b EXCEPT !.charge = After(ChargeTime[s])]
  <2>1. /\ ObjOK(again) /\ again.controls = b.controls
        /\ again.remain = b.remain /\ again.remain + 1 \in Nat
    BY <1>2 DEF ObjOK
  <2>2. c = b \/ c = again \/ c = setRemainCtrlCount(s, again, again.remain + 1)
    BY DEF Charged
  <2> HIDE DEF again, c
  <2>3. CASE c = setRemainCtrlCount(s, again, again.remain + 1)
    <3>1. ObjOK(c) /\ c.controls = again.controls /\ c.remain = again.remain + 1
      BY <2>1, <2>3, SetRemainIs
    <3> QED BY <1>2, <2>1, <3>1 DEF ObjOK
  <2> QED BY <1>2, <2>1, <2>2, <2>3
<1> QED BY <1>3 DEF Kept, a, b

\* An object that enters the room.
LEMMA NewIs ==
    ASSUME NEW s \in Spawners
    PROVE  ObjOK(New(s)) /\ New(s).controls = NoControls /\ New(s).remain = Entry[s]
<1> DEFINE r == Created(s)
           a == [r EXCEPT !.life = IF s \in NpcSpawners THEN @ ELSE After(LifeTime[s])]
           b == [a EXCEPT !.state = "Spawn"]
           c == [b EXCEPT !.shown = InitState[s]]
<1>1. ObjOK(r) /\ r.controls = NoControls /\ r.remain = Entry[s]
  BY FieldAssumption DEF Created, ObjOK, NoControls, ControlLists
<1> HIDE DEF r
<1>2. ObjOK(a) /\ a.controls = NoControls /\ a.remain = Entry[s]
  BY <1>1 DEF ObjOK
<1> HIDE DEF a
<1>3. ObjOK(b) /\ b.controls = NoControls /\ b.remain = Entry[s]
  BY <1>2 DEF ObjOK
<1> HIDE DEF b
<1>4. ObjOK(c) /\ c.controls = NoControls /\ c.remain = Entry[s]
  BY <1>3 DEF ObjOK
<1> QED BY <1>4 DEF New, Entered, SpawnEntered, a, b, r

-----------------------------------------------------------------------------
(* Steps that put nothing in the room and take nothing from it.            *)

\* Steps that change neither the objects there are nor the counts.
LEMMA BudgetKept ==
    ASSUME IInv, \A o \in Slots : Here(o)' <=> Here(o),
           pool' = pool, spawned' = spawned,
           \A s \in Spawners : Len(times'[s]) = Len(times[s])
    PROVE  SpawnBudget'
<1>1. ASSUME NEW s \in Spawners PROVE Budget(s)'
  <2>1. Alive(s)' = Alive(s)
    BY DEF Alive
  <2>2. Budget(s)
    BY BudgetIs DEF IInv
  <2> QED BY <2>1, <2>2 DEF Budget, Timed
<1>2. SpawnBudget' <=> \A s \in Spawners : Budget(s)'
  BY DEF SpawnBudget, Budget, Alive, Timed
<1> QED BY <1>1, <1>2

\* Objects that are kept, and players that stay with theirs.
LEMMA KeptInv ==
    ASSUME IInv,
           objs' = [o \in Slots |-> objs'[o]],
           \A o \in Slots : IF Here(o) THEN Kept(objs'[o], objs[o])
                                       ELSE objs'[o] = Free,
           players' = [p \in Players |-> players'[p]],
           \A p \in Players : /\ PlayerOK(players'[p])
                              /\ players'[p].state = players[p].state
                              /\ players'[p].ctrl = players[p].ctrl,
           times' = [s \in Spawners |-> times'[s]],
           \A s \in Spawners : times'[s] \in Seq(Int)
                               /\ Len(times'[s]) = Len(times[s]),
           pool' = pool, spawned' = spawned, halted' = halted
    PROVE  IInv'
<1>1. \A o \in Slots : Here(o) => objs'[o] # Free
  BY DEF Kept, ObjOK, Free
<1>2. \A o \in Slots : Here(o)' <=> Here(o)
  BY <1>1 DEF Here
<1>3. DataOK'
  BY <1>2 DEF IInv, DataOK, Kept, ObjOK, PlayerOK
<1>4. Attached'
  <2>1. ASSUME NEW p \in Players, players'[p].ctrl # None
        PROVE  objs'[players'[p].ctrl] # Free
    <3>1. players[p].ctrl \in Slots /\ Here(players[p].ctrl)
      BY <2>1 DEF IInv, Attached, DataOK, PlayerOK, EnvObjs
    <3> QED BY <1>1, <3>1
  <2> QED BY <2>1 DEF Attached, Here
<1>5. \A o : Holders(o)' = Holders(o)
  BY DEF Holders
<1>6. Listed'
  BY <1>2, <1>5 DEF IInv, Listed, Kept
<1>7. UsedUp'
  BY <1>2 DEF IInv, UsedUp, Kept
<1>8. SpawnBudget'
  BY <1>2, BudgetKept
<1> QED BY <1>3, <1>4, <1>6, <1>7, <1>8 DEF IInv

\* An object is kept by a step that does not touch it.
LEMMA KeptSelf == ASSUME NEW r, ObjOK(r) PROVE Kept(r, r)
BY DEF Kept

\* Time passes.
LEMMA TickInv == ASSUME IInv, tick PROVE IInv'
<1>1. ASSUME NEW o \in Slots
      PROVE  IF Here(o) THEN Kept(objs'[o], objs[o]) ELSE objs'[o] = Free
  <2>1. objs'[o] = IF Here(o) THEN [objs[o] EXCEPT !.life = Less(@),
                                                   !.despawn = Less(@),
                                                   !.charge = Less(@)]
                              ELSE Free
    BY DEF tick
  <2>2. Here(o) => ObjOK(objs[o])
    BY DEF IInv, DataOK
  <2> QED BY <2>1, <2>2 DEF Kept, ObjOK
<1>2. ASSUME NEW p \in Players
      PROVE  /\ PlayerOK(players'[p])
             /\ players'[p].state = players[p].state
             /\ players'[p].ctrl = players[p].ctrl
  <2>1. players'[p] = [players[p] EXCEPT !.end = Less(@)]
    BY DEF tick
  <2>2. PlayerOK(players[p])
    BY DEF IInv, DataOK
  <2> QED BY <2>1, <2>2 DEF PlayerOK
<1>3. ASSUME NEW s \in Spawners
      PROVE  times'[s] \in Seq(Int) /\ Len(times'[s]) = Len(times[s])
  <2>1. times[s] \in Seq(Int)
    BY DEF IInv, DataOK
  <2>2. times'[s] = [i \in DOMAIN times[s] |-> Less(times[s][i])]
    BY DEF tick
  <2>3. \A i \in DOMAIN times[s] : Less(times[s][i]) \in Int
    BY <2>1 DEF Less
  <2>4. DOMAIN times[s] = 1..Len(times[s]) /\ Len(times[s]) \in Nat
    BY <2>1
  <2> QED BY <2>2, <2>3, <2>4
<1>4. /\ objs' = [o \in Slots |-> objs'[o]]
      /\ players' = [p \in Players |-> players'[p]]
      /\ times' = [s \in Spawners |-> times'[s]]
      /\ pool' = pool /\ spawned' = spawned /\ halted' = halted
  BY DEF tick
<1> QED BY <1>1, <1>2, <1>3, <1>4, KeptInv

\* One object changes, and is kept.
LEMMA ObjKeptInv ==
    ASSUME IInv, NEW o \in Slots, Here(o), NEW u, Kept(u, objs[o]),
           objs' = [objs EXCEPT ![o] = u],
           UNCHANGED <<times, pool, spawned, players, halted>>
    PROVE  IInv'
<1>1. ASSUME NEW x \in Slots
      PROVE  IF Here(x) THEN Kept(objs'[x], objs[x]) ELSE objs'[x] = Free
  <2>1. objs'[x] = IF x = o THEN u ELSE objs[x]
    BY DEF IInv, DataOK
  <2>2. Here(x) => Kept(objs[x], objs[x])
    BY KeptSelf DEF IInv, DataOK
  <2> QED BY <2>1, <2>2 DEF Here
<1>2. objs' = [x \in Slots |-> objs'[x]]
  BY DEF IInv, DataOK
<1>3. DataOK
  BY DEF IInv
<1> QED BY <1>1, <1>2, <1>3, KeptInv DEF DataOK

\* An Npc leaves combat.
LEMMA ExitCombatInv == ASSUME IInv, NEW o \in Slots, exitCombat(o) PROVE IInv'
<1> DEFINE u == [objs[o] EXCEPT !.removable = TRUE]
<1>1. /\ Here(o) /\ objs' = [objs EXCEPT ![o] = u]
      /\ UNCHANGED <<times, pool, spawned, players, halted>>
  BY DEF exitCombat
<1>2. ObjOK(objs[o])
  BY <1>1 DEF IInv, DataOK
<1>3. Kept(u, objs[o])
  BY <1>2 DEF Kept, ObjOK
<1> HIDE DEF u
<1> QED BY <1>1, <1>3, ObjKeptInv

\* The update of an object.
LEMMA EnvObjUpdateInv == ASSUME IInv, NEW o \in Slots, envObjUpdate(o) PROVE IInv'
<1> DEFINE u == Charged(o[1], Aged(o[1], Stated(o[1], objs[o])))
<1>1. /\ Here(o) /\ objs' = [objs EXCEPT ![o] = u]
      /\ UNCHANGED <<times, pool, spawned, players, halted>>
  BY DEF envObjUpdate
<1>2. ObjOK(objs[o])
  BY <1>1 DEF IInv, DataOK
<1>3. Kept(u, objs[o])
  BY <1>2, SlotIs, UpdateKept
<1> HIDE DEF u
<1> QED BY <1>1, <1>3, ObjKeptInv

\* The chat command that sets an object's state.
LEMMA CheatStateInv ==
    ASSUME IInv, NEW p \in Players, NEW o \in Slots, NEW state,
           cheatState(p, o, state)
    PROVE  IInv'
<1> DEFINE u == changeState(objs[o], state)
<1>1. /\ Here(o) /\ objs' = [objs EXCEPT ![o] = u]
      /\ UNCHANGED <<times, pool, spawned, players, halted>>
  BY DEF cheatState
<1>2. ObjOK(objs[o])
  BY <1>1 DEF IInv, DataOK
<1>3. Kept(u, objs[o])
  BY <1>2, ChangeKept DEF Kept
<1> HIDE DEF u
<1> QED BY <1>1, <1>3, ObjKeptInv

\* Nobody's objects change.
LEMMA SameObjsInv ==
    ASSUME IInv, UNCHANGED <<objs, times, pool, spawned, halted>>,
           players' = [p \in Players |-> players'[p]],
           \A p \in Players : /\ PlayerOK(players'[p])
                              /\ players'[p].state = players[p].state
                              /\ players'[p].ctrl = players[p].ctrl
    PROVE  IInv'
<1>1. \A o \in Slots : IF Here(o) THEN Kept(objs'[o], objs[o]) ELSE objs'[o] = Free
  BY KeptSelf DEF IInv, DataOK, Here
<1>2. DataOK
  BY DEF IInv
<1> QED BY <1>1, <1>2, KeptInv DEF DataOK

\* A player leaves the world, with its state and its controls.
LEMMA LeaveWorldInv == ASSUME IInv, NEW p \in Players, leaveWorld(p) PROVE IInv'
<1>1. /\ UNCHANGED <<objs, times, pool, spawned, halted>>
      /\ players' = [players EXCEPT ![p].here = FALSE]
  BY DEF leaveWorld
<1>2. ASSUME NEW q \in Players
      PROVE  /\ PlayerOK(players'[q])
             /\ players'[q].state = players[q].state
             /\ players'[q].ctrl = players[q].ctrl
  <2>1. players'[q] = IF q = p THEN [players[q] EXCEPT !.here = FALSE]
                               ELSE players[q]
    BY <1>1 DEF IInv, DataOK
  <2>2. PlayerOK(players[q])
    BY DEF IInv, DataOK
  <2> QED BY <2>1, <2>2 DEF PlayerOK
<1>3. players' = [q \in Players |-> players'[q]]
  BY <1>1 DEF IInv, DataOK
<1> QED BY <1>1, <1>2, <1>3, SameObjsInv

-----------------------------------------------------------------------------
(* Players that start and stop controlling.                                *)

\* A player that goes idle controls nothing.
LEMMA IdleIs ==
    ASSUME NEW r, PlayerOK(r)
    PROVE  /\ PlayerOK(Idle(r)) /\ Idle(r).here = r.here
           /\ Idle(r).state = "Idle" /\ Idle(r).ctrl = None
BY DEF PlayerOK, Idle

\* An object whose list of players is another one.
LEMMA ListIs ==
    ASSUME NEW r, ObjOK(r), NEW S \in ControlLists
    PROVE  LET u == [r EXCEPT !.controls = S] IN
           ObjOK(u) /\ u.controls = S /\ u.remain = r.remain
BY DEF ObjOK

\* A step on the same objects that changes who controls them: what it needs
\* of each.
LEMMA ControlInv ==
    ASSUME IInv, ~halted,
           objs' = [o \in Slots |-> objs'[o]],
           players' = [p \in Players |-> players'[p]],
           \A p \in Players : /\ PlayerOK(players'[p])
                              /\ players'[p].ctrl # None => Here(players'[p].ctrl),
           \A o \in Slots :
              IF Here(o)
              THEN /\ ObjOK(objs'[o])
                   /\ ~halted' =>
                        /\ Lists(objs'[o].controls,
                                 {p \in Players : /\ players'[p].state = "Ctrled"
                                                  /\ players'[p].ctrl = o})
                        /\ ControlCount[o[1]] # 0 /\ objs'[o].remain = 0
                              => objs'[o].controls = NoControls
              ELSE objs'[o] = Free,
           halted' \in BOOLEAN, UNCHANGED <<times, pool, spawned>>
    PROVE  IInv'
<1>1. \A o \in Slots : Here(o) => objs'[o] # Free
  BY DEF ObjOK, Free
<1>2. \A o \in Slots : Here(o)' <=> Here(o)
  BY <1>1 DEF Here
<1>3. DataOK'
  BY <1>2 DEF IInv, DataOK, ObjOK, PlayerOK
<1>4. Attached'
  <2>1. ASSUME NEW p \in Players, players'[p].ctrl # None
        PROVE  objs'[players'[p].ctrl] # Free
    <3>1. players'[p].ctrl \in Slots /\ Here(players'[p].ctrl)
      BY <2>1 DEF PlayerOK, EnvObjs
    <3> QED BY <1>1, <3>1
  <2> QED BY <2>1 DEF Attached, Here
<1>5. Listed'
  BY <1>2 DEF Listed, Lists, Holders
<1>6. UsedUp'
  BY <1>2 DEF UsedUp
<1>7. SpawnBudget'
  BY <1>2, BudgetKept
<1> QED BY <1>3, <1>4, <1>5, <1>6, <1>7 DEF IInv

\* A list without a player's entry.
LEMMA ErasedIs ==
    ASSUME NEW c \in ControlLists, NEW p
    PROVE  LET e == Erased(c, p) IN
           /\ e \in ControlLists
           /\ e.live = c.live \ {p} /\ e.dead = c.dead \ {p}
           /\ \A H : Lists(c, H) => Lists(e, H \ {p})
           /\ c = NoControls => e = NoControls
BY DEF ControlLists, Erased, Lists, NoControls

\* A control that is not complete: the player goes, and takes himself off the
\* list of its object.
LEMMA CancelInv ==
    ASSUME IInv, ~halted, NEW p \in Players, NEW player, PlayerOK(player),
           player.ctrl = None, cancel(p, player),
           UNCHANGED <<times, pool, spawned, halted>>
    PROVE  IInv'
<1> DEFINE x == players[p].ctrl
<1>1. DataOK /\ Attached /\ Listed /\ UsedUp
  BY DEF IInv
<1>2. players' = [players EXCEPT ![p] = player]
  BY DEF cancel
<1>3. \A q \in Players : players'[q] = IF q = p THEN player ELSE players[q]
  BY <1>1, <1>2 DEF DataOK
<1>4. x # None => x \in Slots /\ Here(x) /\ ObjOK(objs[x])
  BY <1>1 DEF DataOK, Attached, PlayerOK, EnvObjs
<1>5. objs' = IF players[p].state = "Ctrled" /\ x # None
              THEN [objs EXCEPT ![x] = [objs[x] EXCEPT !.controls =
                                                         Erased(objs[x].controls, p)]]
              ELSE objs
  BY <1>1, <1>4 DEF cancel, Without, removeControl, DataOK
<1>6. ASSUME NEW o \in Slots, Here(o)
      PROVE  /\ ObjOK(objs'[o]) /\ objs'[o].remain = objs[o].remain
             /\ Lists(objs'[o].controls, Holders(o) \ {p})
             /\ objs[o].controls = NoControls => objs'[o].controls = NoControls
  <2>1. ObjOK(objs[o]) /\ Lists(objs[o].controls, Holders(o))
    BY <1>1, <1>6 DEF DataOK, Listed
  <2>2. CASE players[p].state = "Ctrled" /\ x = o
    <3>1. /\ Erased(objs[o].controls, p) \in ControlLists
          /\ Lists(Erased(objs[o].controls, p), Holders(o) \ {p})
          /\ objs[o].controls = NoControls => Erased(objs[o].controls, p) = NoControls
      BY <2>1, ErasedIs DEF ObjOK
    <3>2. o # None
      BY SlotIs
    <3>3. objs'[o] = [objs[o] EXCEPT !.controls = Erased(objs[o].controls, p)]
      BY <1>1, <1>5, <2>2, <3>2 DEF DataOK
    <3> HIDE DEF x
    <3> QED BY <2>1, <3>1, <3>3, ListIs
  <2>3. CASE ~(players[p].state = "Ctrled" /\ x = o)
    <3>1. objs'[o] = objs[o]
      BY <1>1, <1>5, <2>3 DEF DataOK
    <3>2. Holders(o) \ {p} = Holders(o)
      BY <2>3 DEF Holders
    <3> QED BY <2>1, <3>1, <3>2
  <2> QED BY <2>2, <2>3
<1>7. ASSUME NEW o \in Slots, ~Here(o) PROVE objs'[o] = Free
  BY <1>1, <1>4, <1>5, <1>7 DEF Here, DataOK
<1>8. ASSUME NEW o \in Slots, Here(o)
      PROVE  /\ Lists(objs'[o].controls,
                      {q \in Players : /\ players'[q].state = "Ctrled"
                                       /\ players'[q].ctrl = o})
             /\ ControlCount[o[1]] # 0 /\ objs'[o].remain = 0
                   => objs'[o].controls = NoControls
  <2>1. o # None
    BY SlotIs
  <2>2. {q \in Players : players'[q].state = "Ctrled" /\ players'[q].ctrl = o}
           = Holders(o) \ {p}
    BY <1>3, <2>1 DEF Holders
  <2> QED BY <1>1, <1>6, <1>8, <2>2 DEF UsedUp
<1>9. \A q \in Players : /\ PlayerOK(players'[q])
                         /\ players'[q].ctrl # None => Here(players'[q].ctrl)
  BY <1>1, <1>3 DEF DataOK, Attached
<1>10. players' = [q \in Players |-> players'[q]] /\ objs' = [o \in Slots |-> objs'[o]]
  BY <1>1, <1>2, <1>5 DEF DataOK
<1>11. halted' \in BOOLEAN
  BY <1>1 DEF DataOK
<1> QED BY <1>6, <1>7, <1>8, <1>9, <1>10, <1>11, ControlInv

\* PktEnvObjCtrlCancelReq.
LEMMA CtrlCancelReqInv ==
    ASSUME IInv, NEW p \in Players, NEW o \in Slots, ctrlCancelReq(p, o)
    PROVE  IInv'
<1>1. PlayerOK(players[p])
  BY DEF IInv, DataOK
<1> QED BY <1>1, IdleIs, CancelInv DEF ctrlCancelReq

\* A player enters a world, out of the state he left the last one in.
LEMMA EnterWorldInv ==
    ASSUME IInv, NEW p \in Players, NEW here \in BOOLEAN, enterWorld(p, here)
    PROVE  IInv'
<1> DEFINE r == Idle(players[p])
           u == [r EXCEPT !.here = here]
<1>1. PlayerOK(r) /\ r.ctrl = None
  BY IdleIs DEF IInv, DataOK
<1>2. /\ ~halted /\ cancel(p, u)
      /\ UNCHANGED <<times, pool, spawned, halted>>
  BY DEF enterWorld
<1> HIDE DEF r
<1>3. PlayerOK(u) /\ u.ctrl = None
  BY <1>1 DEF PlayerOK
<1> HIDE DEF u
<1> QED BY <1>2, <1>3, CancelInv

\* The chat command that controls no object.
LEMMA CheatCtrlInv ==
    ASSUME IInv, NEW p \in Players, cheatCtrl(p)
    PROVE  IInv'
<1> DEFINE u == [players[p] EXCEPT !.state = "Ctrled", !.ctrl = None, !.end = 0]
<1>1. PlayerOK(players[p])
  BY DEF IInv, DataOK
<1>2. PlayerOK(u) /\ u.ctrl = None
  BY <1>1 DEF PlayerOK
<1>3. /\ ~halted /\ cancel(p, u)
      /\ UNCHANGED <<times, pool, spawned, halted>>
  BY DEF cheatCtrl
<1> HIDE DEF u
<1> QED BY <1>2, <1>3, CancelInv

\* PktEnvObjCtrlStartReq.
LEMMA CtrlStartReqInv ==
    ASSUME IInv, NEW p \in Players, NEW o \in Slots, ctrlStartReq(p, o)
    PROVE  IInv'
<1> DEFINE u == [players[p] EXCEPT !.state = "Ctrled", !.ctrl = o,
                                   !.end = Duration[o[1]]]
<1>1. DataOK /\ Attached /\ Listed /\ UsedUp
  BY DEF IInv
<1>2. /\ ~halted /\ o \in EnvObjs /\ Here(o) /\ players[p].state = "Idle"
      /\ ControlCount[o[1]] = 0 \/ objs[o].remain # 0
      /\ players' = [players EXCEPT ![p] = u]
      /\ objs' = addControl(o, p)
      /\ UNCHANGED <<times, pool, spawned, halted>>
  BY <1>1 DEF ctrlStartReq, Controlling, isUnLimitedCtrl, DataOK
<1>3. PlayerOK(u) /\ u.state = "Ctrled" /\ u.ctrl = o
  BY <1>1, <1>2 DEF DataOK, PlayerOK
<1> HIDE DEF u
<1>4. \A q \in Players : players'[q] = IF q = p THEN u ELSE players[q]
  BY <1>1, <1>2 DEF DataOK
<1> DEFINE c == objs[o].controls
           d == [c EXCEPT !.live = @ \cup ({p} \ c.dead)]
<1>5. \A x \in Slots : objs'[x] = IF x = o THEN [objs[o] EXCEPT !.controls = d]
                                           ELSE objs[x]
  BY <1>1, <1>2 DEF addControl, DataOK
<1>6. d \in ControlLists /\ Lists(d, Holders(o) \cup {p})
  <2>1. c \in ControlLists /\ Lists(c, Holders(o))
    BY <1>1, <1>2 DEF DataOK, ObjOK, Listed
  <2> HIDE DEF c
  <2> QED BY <2>1 DEF ControlLists, Lists
<1> HIDE DEF d
<1>7. ASSUME NEW x \in Slots, Here(x)
      PROVE  /\ ObjOK(objs'[x])
             /\ Lists(objs'[x].controls,
                      {q \in Players : /\ players'[q].state = "Ctrled"
                                       /\ players'[q].ctrl = x})
             /\ ControlCount[x[1]] # 0 /\ objs'[x].remain = 0
                   => objs'[x].controls = NoControls
  <2>1. {q \in Players : players'[q].state = "Ctrled" /\ players'[q].ctrl = x}
           = IF x = o THEN Holders(o) \cup {p} ELSE Holders(x)
    BY <1>2, <1>3, <1>4 DEF Holders
  <2>2. ObjOK(objs[x]) /\ Lists(objs[x].controls, Holders(x))
    BY <1>1, <1>2, <1>7 DEF DataOK, Listed
  <2>3. CASE x = o
    <3>1. objs'[x] = [objs[x] EXCEPT !.controls = d]
      BY <1>5, <2>3
    <3>2. ObjOK(objs'[x]) /\ objs'[x].controls = d /\ objs'[x].remain = objs[x].remain
      BY <1>6, <2>2, <3>1, ListIs
    <3> QED BY <1>2, <1>6, <2>1, <2>3, <3>2
  <2>4. CASE x # o
    BY <1>1, <1>2, <1>5, <1>7, <2>1, <2>2, <2>4 DEF UsedUp
  <2> QED BY <2>3, <2>4
<1>8. \A q \in Players : /\ PlayerOK(players'[q])
                         /\ players'[q].ctrl # None => Here(players'[q].ctrl)
  BY <1>1, <1>2, <1>3, <1>4 DEF DataOK, Attached
<1>9. players' = [q \in Players |-> players'[q]] /\ objs' = [x \in Slots |-> objs'[x]]
  BY <1>1, <1>2 DEF DataOK, addControl
<1>10. \A x \in Slots : ~Here(x) => objs'[x] = Free
  BY <1>2, <1>5 DEF Here
<1>11. halted' \in BOOLEAN
  BY <1>1, <1>2 DEF DataOK
<1> QED BY <1>2, <1>7, <1>8, <1>9, <1>10, <1>11, ControlInv

\* A completed control of a limited object: when it is used up the others go
\* idle, and one that cannot be reached halts the process.
LEMMA ControlLimitedInv ==
    ASSUME IInv, ~halted, NEW p \in Players, NEW o \in EnvObjs,
           players[p].state = "Ctrled", players[p].ctrl = o, controlLimited(p, o),
           UNCHANGED <<times, pool, spawned>>
    PROVE  IInv'
<1> DEFINE s == o[1]
           obj == objs[o]
           others == Erased(obj.controls, p)
           left == IF obj.remain > 0
                   THEN setRemainCtrlCount(s, obj, obj.remain - 1) ELSE obj
           used == left.remain = 0
           gone == IF used THEN forEachControls(others) ELSE {}
           now == IF used /\ isRemainEmtpyRemove(s) THEN Despawned(s, left) ELSE left
           v == [others EXCEPT !.live = @ \ gone]
           u == [now EXCEPT !.controls = v]
<1>1. DataOK /\ Attached /\ Listed /\ UsedUp /\ o \in Slots
  BY DEF IInv, EnvObjs
<1>2. Here(o) /\ o # None
  BY <1>1, SlotIs DEF Attached
<1>3. ObjOK(obj) /\ Lists(obj.controls, Holders(o))
  BY <1>1, <1>2 DEF DataOK, Listed
<1>4. /\ halted' = (used /\ ~Reachable(others))
      /\ objs' = [objs EXCEPT ![o] = u]
      /\ players' = [q \in Players |-> IF q \in gone \cup {p} THEN Idle(players[q])
                                                              ELSE players[q]]
  BY DEF controlLimited, Kicked
<1>5. ObjOK(left) /\ left.controls = obj.controls
  <2>1. CASE obj.remain > 0
    <3>1. obj.remain - 1 \in Nat
      BY <1>3, <2>1 DEF ObjOK
    <3> QED BY <1>3, <2>1, <3>1, SetRemainIs
  <2>2. CASE ~(obj.remain > 0)
    BY <1>3, <2>2
  <2> QED BY <2>1, <2>2
<1> HIDE DEF left
<1>6. ObjOK(now) /\ now.remain = left.remain
  BY <1>5, DespawnedKept
<1> HIDE DEF now
<1>7. /\ others \in ControlLists /\ Lists(others, Holders(o) \ {p})
      /\ others.live = obj.controls.live \ {p}
  BY <1>3, ErasedIs DEF ObjOK
<1>8. gone \subseteq others.live /\ others.live \subseteq Holders(o) \ {p}
  BY <1>7 DEF forEachControls, Lists
<1>9. ~halted' /\ used => gone = others.live /\ others.dead = {}
  BY <1>4 DEF Reachable
<1> HIDE DEF others, gone
<1>17. /\ v \in ControlLists /\ Lists(v, Holders(o) \ (gone \cup {p}))
       /\ ~halted' /\ used => v = NoControls
  BY <1>7, <1>9 DEF ControlLists, Lists, NoControls
<1> HIDE DEF v
<1>18. ObjOK(u) /\ u.controls = v /\ u.remain = left.remain
  BY <1>6, <1>17, ListIs
<1> HIDE DEF u
<1>10. \A x \in Slots : objs'[x] = IF x = o THEN u ELSE objs[x]
  BY <1>1, <1>4 DEF DataOK
<1>11. \A q \in Players : PlayerOK(players[q]) /\ PlayerOK(Idle(players[q]))
                          /\ Idle(players[q]).state = "Idle"
                          /\ Idle(players[q]).ctrl = None
  BY <1>1, IdleIs DEF DataOK
<1>12. \A q \in Players :
          players'[q] = IF q \in gone \cup {p} THEN Idle(players[q]) ELSE players[q]
  BY <1>4
<1>13. ASSUME NEW x \in Slots, Here(x)
       PROVE  /\ ObjOK(objs'[x])
              /\ Lists(objs'[x].controls,
                       {q \in Players : /\ players'[q].state = "Ctrled"
                                        /\ players'[q].ctrl = x})
              /\ ~halted' /\ ControlCount[x[1]] # 0 /\ objs'[x].remain = 0
                    => objs'[x].controls = NoControls
  <2>1. {q \in Players : players'[q].state = "Ctrled" /\ players'[q].ctrl = x}
           = Holders(x) \ (gone \cup {p})
    BY <1>11, <1>12 DEF Holders
  <2>2. CASE x = o
    BY <1>10, <1>17, <1>18, <2>1, <2>2
  <2>3. CASE x # o
    <3>1. Holders(x) \ (gone \cup {p}) = Holders(x)
      BY <1>8, <2>3 DEF Holders
    <3>2. objs'[x] = objs[x] /\ ObjOK(objs[x]) /\ Lists(objs[x].controls, Holders(x))
      BY <1>1, <1>10, <1>13, <2>3 DEF DataOK, Listed
    <3>3. ControlCount[x[1]] # 0 /\ objs[x].remain = 0
             => objs[x].controls = NoControls
      BY <1>1, <1>13 DEF UsedUp
    <3> QED BY <2>1, <3>1, <3>2, <3>3
  <2> QED BY <2>2, <2>3
<1>14. \A q \in Players : /\ PlayerOK(players'[q])
                          /\ players'[q].ctrl # None => Here(players'[q].ctrl)
  BY <1>1, <1>11, <1>12 DEF Attached
<1>15. players' = [q \in Players |-> players'[q]] /\ objs' = [x \in Slots |-> objs'[x]]
  BY <1>1, <1>4 DEF DataOK
<1>16. \A x \in Slots : ~Here(x) => objs'[x] = Free
  BY <1>2, <1>10 DEF Here
<1>19. halted' \in BOOLEAN
  BY <1>4
<1> QED BY <1>13, <1>14, <1>15, <1>16, <1>19, ControlInv

\* The end of a control.
LEMMA ControlEndInv == ASSUME IInv, NEW p \in Players, controlEnd(p) PROVE IInv'
<1> DEFINE o == players[p].ctrl
<1>1. PlayerOK(players[p])
  BY DEF IInv, DataOK
<1>2. /\ ~halted /\ players[p].state = "Ctrled" /\ UNCHANGED <<times, pool, spawned>>
      /\ IF o = None \/ isUnLimitedCtrl(o[1])
         THEN cancel(p, Idle(players[p])) /\ UNCHANGED halted
         ELSE controlLimited(p, o)
  BY DEF controlEnd, Over
<1>3. CASE o = None \/ isUnLimitedCtrl(o[1])
  BY <1>1, <1>2, <1>3, IdleIs, CancelInv
<1>4. CASE ~(o = None \/ isUnLimitedCtrl(o[1]))
  BY <1>1, <1>2, <1>4, ControlLimitedInv DEF PlayerOK
<1> QED BY <1>3, <1>4

\* A player that was away is loaded again: the entries of its old Player
\* object stay.
LEMMA LoadInv == ASSUME IInv, NEW p \in Players, load(p) PROVE IInv'
<1>1. DataOK /\ Attached /\ Listed /\ UsedUp
  BY DEF IInv
<1>2. /\ ~halted /\ UNCHANGED <<times, pool, spawned, halted>>
      /\ players' = [players EXCEPT ![p] = Idle(players[p])]
  BY <1>1 DEF load, DataOK
<1>3. /\ PlayerOK(Idle(players[p])) /\ Idle(players[p]).state = "Idle"
      /\ Idle(players[p]).ctrl = None
  BY <1>1, IdleIs DEF DataOK
<1>4. \A q \in Players : players'[q] = IF q = p THEN Idle(players[p]) ELSE players[q]
  BY <1>1, <1>2 DEF DataOK
<1>5. ASSUME NEW o \in Slots, Here(o)
      PROVE  /\ ObjOK(objs'[o])
             /\ Lists(objs'[o].controls,
                      {q \in Players : /\ players'[q].state = "Ctrled"
                                       /\ players'[q].ctrl = o})
             /\ ControlCount[o[1]] # 0 /\ objs'[o].remain = 0
                   => objs'[o].controls = NoControls
  <2> DEFINE c == objs[o].controls
             d == [live |-> c.live \ {p}, dead |-> c.dead \cup {p}]
  <2>1. ObjOK(objs[o]) /\ c \in ControlLists /\ Lists(c, Holders(o))
    BY <1>1, <1>2, <1>5 DEF DataOK, Listed, ObjOK
  <2>2. {q \in Players : players'[q].state = "Ctrled" /\ players'[q].ctrl = o}
           = Holders(o) \ {p}
    BY <1>3, <1>4 DEF Holders
  <2>3. ControlCount[o[1]] # 0 /\ objs[o].remain = 0 => c = NoControls
    BY <1>1, <1>2, <1>5 DEF UsedUp
  <2>4. objs'[o] = IF p \in c.live THEN [objs[o] EXCEPT !.controls = d] ELSE objs[o]
    BY <1>5 DEF load
  <2> HIDE DEF c
  <2>5. /\ d \in ControlLists
        /\ p \in c.live => Lists(d, Holders(o) \ {p}) /\ c # NoControls
        /\ p \notin c.live => Lists(c, Holders(o) \ {p})
    BY <2>1 DEF ControlLists, Lists, NoControls
  <2> HIDE DEF d
  <2>6. CASE p \in c.live
    <3>1. ObjOK(objs'[o]) /\ objs'[o].controls = d /\ objs'[o].remain = objs[o].remain
      BY <2>1, <2>4, <2>5, <2>6, ListIs
    <3> QED BY <2>2, <2>3, <2>5, <2>6, <3>1
  <2>7. CASE p \notin c.live
    BY <2>1, <2>2, <2>3, <2>4, <2>5, <2>7 DEF c
  <2> QED BY <2>6, <2>7
<1>6. \A q \in Players : /\ PlayerOK(players'[q])
                         /\ players'[q].ctrl # None => Here(players'[q].ctrl)
  BY <1>1, <1>3, <1>4 DEF DataOK, Attached
<1>7. players' = [q \in Players |-> players'[q]] /\ objs' = [o \in Slots |-> objs'[o]]
  BY <1>1, <1>2 DEF DataOK, load
<1>8. \A o \in Slots : ~Here(o) => objs'[o] = Free
  BY DEF load, Here
<1>9. halted' \in BOOLEAN
  BY <1>1, <1>2 DEF DataOK
<1> QED BY <1>2, <1>5, <1>6, <1>7, <1>8, <1>9, ControlInv

-----------------------------------------------------------------------------
(* What enters the room and what is removed from it.                       *)

\* The room removes an object.
LEMMA RemoveInv == ASSUME IInv, NEW o \in Slots, remove(o) PROVE IInv'
<1> DEFINE s == o[1]
<1>1. DataOK /\ Attached /\ Listed /\ UsedUp /\ s \in Spawners
  BY SlotIs DEF IInv
<1>2. /\ ~halted /\ Here(o) /\ halted' = halted
      /\ objs' = [objs EXCEPT ![o] = Free]
      /\ spawned' = [spawned EXCEPT ![s] = spawned[s] - 1]
      /\ pool' = [pool EXCEPT ![s] = pool[s] + 1]
      /\ times' = IF Timed(s) THEN [times EXCEPT ![s] = Append(times[s], Respawn[s])]
                  ELSE times
      /\ players' = [p \in Players |->
                       IF players[p].ctrl = o THEN [players[p] EXCEPT !.ctrl = None]
                                              ELSE players[p]]
  BY <1>1 DEF remove, removeSpawnTimer, addSpawnTimer, DataOK
<1>3. \A x \in Slots : objs'[x] = IF x = o THEN Free ELSE objs[x]
  BY <1>1, <1>2 DEF DataOK
<1>4. ASSUME NEW p \in Players
      PROVE  /\ PlayerOK(players'[p]) /\ players'[p].state = players[p].state
             /\ players'[p].ctrl = IF players[p].ctrl = o THEN None ELSE players[p].ctrl
  <2>1. PlayerOK(players[p])
    BY <1>1 DEF DataOK
  <2> QED BY <1>2, <2>1 DEF PlayerOK
<1>5. \A x \in Slots : Here(x)' <=> x # o /\ Here(x)
  BY <1>3 DEF Here
<1>6. DataOK'
  <2>1. times' = [x \in Spawners |-> times'[x]]
        /\ \A x \in Spawners : times'[x] \in Seq(Int)
    <3>1. Respawn[s] \in Int /\ times[s] \in Seq(Int)
      BY <1>1, FieldAssumption DEF DataOK
    <3>2. Append(times[s], Respawn[s]) \in Seq(Int)
      BY <3>1
    <3> QED BY <1>1, <1>2, <3>2 DEF DataOK
  <2>2. pool' \in [Spawners -> Int] /\ spawned' \in [Spawners -> Int]
    BY <1>1, <1>2 DEF DataOK
  <2>3. \A x \in Slots : Here(x)' => ObjOK(objs'[x])
    BY <1>1, <1>3, <1>5 DEF DataOK
  <2>4. /\ objs' = [x \in Slots |-> objs'[x]]
        /\ players' = [p \in Players |-> players'[p]] /\ halted' \in BOOLEAN
    BY <1>1, <1>2 DEF DataOK
  <2>5. \A p \in Players : PlayerOK(players'[p])
    BY <1>4
  <2> QED BY <2>1, <2>2, <2>3, <2>4, <2>5 DEF DataOK, ObjOK, PlayerOK
<1>7. Attached'
  <2>1. ASSUME NEW p \in Players, players'[p].ctrl # None
        PROVE  objs'[players'[p].ctrl] # Free
    <3>1. /\ players'[p].ctrl = players[p].ctrl /\ players[p].ctrl # o
          /\ players[p].ctrl \in Slots /\ Here(players[p].ctrl)
      BY <1>1, <1>4, <2>1 DEF DataOK, PlayerOK, EnvObjs, Attached
    <3> QED BY <1>3, <3>1 DEF Here
  <2> QED BY <2>1 DEF Attached, Here
<1>8. \A x \in Slots : x # o => Holders(x)' = Holders(x)
  BY <1>4, SlotIs DEF Holders
<1>9. Listed'
  BY <1>1, <1>2, <1>3, <1>5, <1>8 DEF Listed
<1>10. UsedUp'
  BY <1>1, <1>2, <1>3, <1>5 DEF UsedUp
<1>11. ASSUME NEW x \in Spawners PROVE Budget(x)'
  <2>1. Budget(x) /\ IsFiniteSet(Alive(x)) /\ Cardinality(Alive(x)) \in Nat
    BY AliveIs, BudgetIs DEF IInv
  <2>2. CASE x = s
    <3>1. Alive(x)' = Alive(x) \ {o} /\ o \in Alive(x)
      BY <1>2, <1>5, <2>2 DEF Alive
    <3>2. Cardinality(Alive(x) \ {o}) = Cardinality(Alive(x)) - 1
      BY <2>1, <3>1, FS_RemoveElement
    <3>3. spawned'[x] = spawned[x] - 1 /\ pool'[x] = pool[x] + 1
          /\ pool[x] \in Int /\ Transforms[x] \in Nat /\ SpawnCount[x] \in Nat
      BY <1>1, <1>2, <2>2, FieldAssumption DEF DataOK
    <3>4. Timed(x) => Len(times'[x]) = Len(times[x]) + 1
      BY <1>1, <1>2, <2>2 DEF DataOK
    <3>5. Len(times[x]) \in Nat
      BY <1>1 DEF DataOK
    <3> QED BY <2>1, <3>1, <3>2, <3>3, <3>4, <3>5 DEF Budget, Timed
  <2>3. CASE x # s
    <3>1. Alive(x)' = Alive(x)
      BY <1>5, <2>3 DEF Alive
    <3>2. spawned'[x] = spawned[x] /\ pool'[x] = pool[x] /\ times'[x] = times[x]
      BY <1>1, <1>2, <2>3 DEF DataOK
    <3> QED BY <2>1, <3>1, <3>2 DEF Budget, Timed
  <2> QED BY <2>2, <2>3
<1>12. SpawnBudget'
  BY <1>11 DEF SpawnBudget, Budget, Alive, Timed
<1> QED BY <1>6, <1>7, <1>9, <1>10, <1>12 DEF IInv

\* A component's spawners spawn what is due.
LEMMA SpawnersUpdateInv ==
    ASSUME IInv, NEW some \in SUBSET Spawners, spawnersUpdate(some)
    PROVE  IInv'
<1>1. DataOK /\ Attached /\ Listed /\ UsedUp
  BY DEF IInv
<1>2. PICK new \in SUBSET {o \in Slots : o[1] \in some /\ ~Here(o)} :
         LET n == [s \in Spawners |-> Cardinality(Of(new, s))] IN
         /\ ~halted
         /\ \A s \in some : n[s] \in Spawns(s)
         /\ objs' = [o \in Slots |-> IF o \in new THEN New(o[1]) ELSE objs[o]]
         /\ times' = [s \in Spawners |-> SubSeq(times[s], n[s] + 1, Len(times[s]))]
         /\ pool' = [s \in Spawners |-> pool[s] - n[s]]
         /\ spawned' = [s \in Spawners |-> spawned[s] + n[s]]
         /\ UNCHANGED <<players, halted>>
  BY DEF spawnersUpdate
<1> DEFINE n(s) == Cardinality(Of(new, s))
<1>3. /\ ~halted /\ players' = players /\ halted' = halted
      /\ \A o \in Slots : objs'[o] = IF o \in new THEN New(o[1]) ELSE objs[o]
      /\ \A s \in Spawners :
            /\ times'[s] = SubSeq(times[s], n(s) + 1, Len(times[s]))
            /\ pool'[s] = pool[s] - n(s)
            /\ spawned'[s] = spawned[s] + n(s)
  BY <1>2
<1>4. \A o \in new : o \in Slots /\ o[1] \in Spawners /\ ~Here(o)
  BY SlotIs
<1>5. ASSUME NEW s \in Spawners
      PROVE  /\ IsFiniteSet(Of(new, s)) /\ n(s) \in 0..Len(times[s])
             /\ times[s] \in Seq(Int) /\ Len(times[s]) \in Nat
  <2>1. times[s] \in Seq(Int) /\ Len(times[s]) \in Nat
    BY <1>1 DEF DataOK
  <2>2. IsFiniteSet(Of(new, s))
    BY <1>4, PlacesFinite DEF Of
  <2>3. CASE s \in some
    <3>1. n(s) \in Spawns(s)
      BY <1>2, <2>3
    <3> QED BY <2>1, <2>2, <3>1 DEF Spawns, Due
  <2>4. CASE s \notin some
    <3>1. Of(new, s) = {}
      BY <1>4, <2>4 DEF Of
    <3> QED BY <2>1, <2>2, <3>1, FS_EmptySet
  <2> QED BY <2>3, <2>4
<1>6. ASSUME NEW s \in Spawners
      PROVE  /\ times'[s] \in Seq(Int)
             /\ Len(times'[s]) = Len(times[s]) - n(s)
  <2> DEFINE k == n(s)
             q == times[s]
  <2>1. k \in 0..Len(q) /\ q \in Seq(Int) /\ times'[s] = SubSeq(q, k + 1, Len(q))
    BY <1>3, <1>5
  <2> HIDE DEF k, q
  <2>2. times'[s] \in Seq(Int) /\ Len(times'[s]) = Len(q) - k
    BY <2>1
  <2> QED BY <2>2 DEF k, q
<1>7. ASSUME NEW o \in new
      PROVE  /\ ObjOK(objs'[o]) /\ objs'[o].controls = NoControls
             /\ objs'[o] # Free
  <2>1. objs'[o] = New(o[1])
    BY <1>3, <1>4
  <2> QED BY <1>4, <2>1, NewIs DEF ObjOK, Free
<1>8. \A o \in Slots : Here(o)' <=> o \in new \/ Here(o)
  BY <1>3, <1>7 DEF Here
<1>9. DataOK'
  <2>1. \A s \in Spawners : pool'[s] \in Int /\ spawned'[s] \in Int
    BY <1>1, <1>3, <1>5 DEF DataOK
  <2>2. /\ objs' = [o \in Slots |-> objs'[o]]
        /\ times' = [s \in Spawners |-> times'[s]]
        /\ pool' = [s \in Spawners |-> pool'[s]]
        /\ spawned' = [s \in Spawners |-> spawned'[s]]
    BY <1>2
  <2>3. \A o \in Slots : Here(o)' => ObjOK(objs'[o])
    BY <1>1, <1>3, <1>7, <1>8 DEF DataOK
  <2>4. pool' \in [Spawners -> Int] /\ spawned' \in [Spawners -> Int]
    BY <2>1, <2>2
  <2>5. /\ players' = [p \in Players |-> players'[p]] /\ halted' \in BOOLEAN
        /\ \A p \in Players : PlayerOK(players'[p])
    BY <1>1, <1>3 DEF DataOK
  <2> QED BY <1>6, <2>2, <2>3, <2>4, <2>5 DEF DataOK, ObjOK, PlayerOK
<1>10. Attached'
  <2>1. ASSUME NEW p \in Players, players[p].ctrl # None
        PROVE  objs'[players[p].ctrl] # Free
    <3>1. players[p].ctrl \in Slots /\ Here(players[p].ctrl)
      BY <1>1, <2>1 DEF DataOK, PlayerOK, EnvObjs, Attached
    <3> QED BY <1>3, <1>7, <3>1 DEF Here
  <2> QED BY <1>3, <2>1 DEF Attached, Here
<1>11. \A o : Holders(o)' = Holders(o)
  BY <1>3 DEF Holders
<1>12. \A o \in new : Holders(o) = {}
  BY <1>1, <1>4, SlotIs DEF Holders, Attached
<1>13. Listed'
  BY <1>1, <1>3, <1>7, <1>8, <1>11, <1>12 DEF Listed, Lists, NoControls
<1>14. UsedUp'
  BY <1>1, <1>3, <1>7, <1>8 DEF UsedUp
<1>15. ASSUME NEW s \in Spawners PROVE Budget(s)'
  <2>1. Budget(s) /\ IsFiniteSet(Alive(s)) /\ Cardinality(Alive(s)) \in Nat
    BY AliveIs, BudgetIs DEF IInv
  <2>2. Alive(s)' = Alive(s) \cup Of(new, s)
    BY <1>4, <1>8 DEF Alive, Of
  <2>3. Alive(s) \cap Of(new, s) = {}
    BY <1>4 DEF Alive, Of
  <2>4. Cardinality(Alive(s) \cup Of(new, s)) = Cardinality(Alive(s)) + n(s)
    <3>1. Cardinality(Alive(s) \cup Of(new, s)) =
             Cardinality(Alive(s)) + Cardinality(Of(new, s))
                - Cardinality(Alive(s) \cap Of(new, s))
      BY <1>5, <2>1, FS_Union
    <3>2. Cardinality(Alive(s) \cap Of(new, s)) = 0
      BY <2>3, FS_EmptySet
    <3>3. Cardinality(Of(new, s)) \in Nat
      BY <1>5
    <3> QED BY <2>1, <3>1, <3>2, <3>3
  <2>5. /\ pool[s] \in Int /\ Transforms[s] \in Nat /\ SpawnCount[s] \in Nat
        /\ n(s) \in Nat /\ Len(times[s]) \in Nat
    BY <1>1, <1>5, FieldAssumption DEF DataOK
  <2>6. /\ spawned'[s] = spawned[s] + n(s) /\ pool'[s] = pool[s] - n(s)
        /\ Len(times'[s]) = Len(times[s]) - n(s)
    BY <1>3, <1>6
  <2> HIDE DEF n
  <2> QED BY <2>1, <2>2, <2>4, <2>5, <2>6 DEF Budget, Timed
<1>16. SpawnBudget'
  BY <1>15 DEF SpawnBudget, Budget, Alive, Timed
<1> QED BY <1>9, <1>10, <1>13, <1>14, <1>16 DEF IInv

-----------------------------------------------------------------------------
(* The invariant and what follows from it.                                 *)

\* The invariant holds of an empty room.
LEMMA InitIInv == Init => IInv
<1> SUFFICES ASSUME Init PROVE IInv
  OBVIOUS
<1>1. /\ objs = [o \in Slots |-> Free] /\ pool = Transforms
      /\ times = [s \in Spawners |-> FirstTimes(s)]
      /\ spawned = [s \in Spawners |-> 0] /\ halted = FALSE
      /\ players = [p \in Players |-> [here |-> FALSE, state |-> "Idle",
                                       ctrl |-> None, end |-> 0]]
  BY DEF Init
<1>2. \A o \in Slots : ~Here(o)
  BY <1>1 DEF Here
<1>3. ASSUME NEW s \in Spawners
      PROVE  /\ SpawnCount[s] \in Nat /\ Transforms[s] \in Nat
             /\ times[s] \in Seq(Int) /\ Len(times[s]) = SpawnCount[s]
  <2>1. SpawnCount[s] \in Nat /\ Transforms[s] \in Nat
    BY FieldAssumption
  <2> QED BY <1>1, <2>1 DEF FirstTimes
<1>4. ASSUME NEW p \in Players
      PROVE  PlayerOK(players[p]) /\ players[p].ctrl = None
  BY <1>1 DEF PlayerOK
<1>5. DataOK
  <2>1. pool \in [Spawners -> Int] /\ spawned \in [Spawners -> Int]
    BY <1>1, FieldAssumption
  <2>2. /\ objs = [o \in Slots |-> objs[o]] /\ halted \in BOOLEAN
        /\ players = [p \in Players |-> players[p]]
        /\ times = [s \in Spawners |-> times[s]]
    BY <1>1
  <2> QED BY <1>2, <1>3, <1>4, <2>1, <2>2 DEF DataOK
<1>6. Attached /\ Listed /\ UsedUp
  BY <1>2, <1>4 DEF Attached, Listed, UsedUp
<1>7. ASSUME NEW s \in Spawners PROVE Budget(s)
  <2>1. Alive(s) = {}
    BY <1>2 DEF Alive
  <2>2. Cardinality(Alive(s)) = 0
    BY <2>1, FS_EmptySet
  <2> QED BY <1>1, <1>3, <2>2 DEF Budget
<1> QED BY <1>5, <1>6, <1>7, BudgetIs DEF IInv

\* Every step preserves the invariant.
LEMMA NextIInv == IInv /\ [Next]_vars => IInv'
<1> SUFFICES ASSUME IInv, [Next]_vars PROVE IInv'
  OBVIOUS
<1>1. CASE tick
  BY <1>1, TickInv
<1>2. CASE Room
  <2>1. CASE npcSpawnUpdate \/ envObjSpawnUpdate
    <3>1. NpcSpawners \subseteq Spawners /\ EnvObjSpawners \subseteq Spawners
      BY DEF NpcSpawners, EnvObjSpawners
    <3> QED BY <2>1, <3>1, SpawnersUpdateInv DEF npcSpawnUpdate, envObjSpawnUpdate
  <2>2. ASSUME NEW o \in Slots, remove(o) \/ exitCombat(o) \/ envObjUpdate(o)
        PROVE  IInv'
    BY <2>2, RemoveInv, ExitCombatInv, EnvObjUpdateInv
  <2>3. ASSUME NEW p \in Players, controlEnd(p) PROVE IInv'
    BY <2>3, ControlEndInv
  <2> QED BY <1>2, <2>1, <2>2, <2>3 DEF Room
<1>3. CASE Client
  <2>1. PICK p \in Players :
           \/ leaveWorld(p) \/ load(p) \/ envObjCheat(p)
           \/ \E here \in BOOLEAN : enterWorld(p, here)
           \/ \E o \in Slots : ctrlStartReq(p, o) \/ ctrlCancelReq(p, o)
    BY <1>3 DEF Client
  <2>2. CASE leaveWorld(p)
    BY <2>2, LeaveWorldInv
  <2>3. CASE envObjCheat(p)
    BY <2>3, CheatCtrlInv, CheatStateInv DEF envObjCheat
  <2>4. ASSUME NEW here \in BOOLEAN, enterWorld(p, here) PROVE IInv'
    BY <2>4, EnterWorldInv
  <2>5. ASSUME NEW o \in Slots, ctrlStartReq(p, o) \/ ctrlCancelReq(p, o) PROVE IInv'
    BY <2>5, CtrlStartReqInv, CtrlCancelReqInv
  <2>6. CASE load(p)
    BY <2>6, LoadInv
  <2> QED BY <2>1, <2>2, <2>3, <2>4, <2>5, <2>6
<1>4. CASE UNCHANGED vars
  <2>1. /\ UNCHANGED <<objs, times, pool, spawned, halted>> /\ players' = players
    BY <1>4 DEF vars
  <2> QED BY <2>1, SameObjsInv DEF IInv, DataOK
<1> QED BY <1>1, <1>2, <1>3, <1>4 DEF Next

\* In every reachable state objects, players and spawners are as IInv says.
THEOREM Invariance == Spec => []IInv
BY InitIInv, NextIInv, PTL DEF Spec

\* Deaths and spawns leak neither places nor transforms.
THEOREM BudgetHolds == Spec => []SpawnBudget
<1>1. IInv => SpawnBudget
  BY DEF IInv
<1> QED BY <1>1, Invariance, PTL

\* An object lists the players of its room that control it, but those it still
\* has an entry for of a Player object that was replaced.
THEOREM ControlsAgree == Spec => []ControlsMatch
<1>1. ASSUME IInv, ~halted, NEW o \in EnvObjs, Here(o)
      PROVE  forEachControls(objs[o].controls) =
                {p \in Players : /\ players[p].here
                                 /\ players[p].state = "Ctrled"
                                 /\ players[p].ctrl = o} \ objs[o].controls.dead
  <2>1. o \in Slots
    BY DEF EnvObjs
  <2>2. Lists(objs[o].controls, Holders(o))
    BY <1>1, <2>1 DEF IInv, Listed
  <2> QED BY <2>2 DEF Lists, Holders, forEachControls
<1>2. IInv => ControlsMatch
  BY <1>1 DEF ControlsMatch
<1> QED BY <1>2, Invariance, PTL

\* Nobody controls an object that is used up, listed or not.
THEOREM EmptyIsFree == Spec => []NoControlOfEmpty
<1>1. ASSUME IInv, ~halted, NEW o \in EnvObjs, NEW p \in Players, Here(o),
             ControlCount[o[1]] # 0, objs[o].remain = 0
      PROVE  ~(players[p].state = "Ctrled" /\ players[p].ctrl = o)
  <2>1. o \in Slots
    BY DEF EnvObjs
  <2>2. Lists(objs[o].controls, Holders(o)) /\ objs[o].controls = NoControls
    BY <1>1, <2>1 DEF IInv, Listed, UsedUp
  <2>3. Holders(o) = {}
    BY <2>2 DEF Lists, NoControls
  <2> QED BY <2>3 DEF Holders
<1>2. IInv => NoControlOfEmpty
  BY <1>1 DEF NoControlOfEmpty
<1> QED BY <1>2, Invariance, PTL
=============================================================================
