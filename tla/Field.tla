------------------------------- MODULE Field -------------------------------
(***************************************************************************)
(* What a world's spawners put into its room and what players do with it:  *)
(* EnvObjSpawner and NpcSpawner, EnvObj with its states, life time and     *)
(* control count, and the players that control one (the states of          *)
(* FsmComponent they are in).  All of it runs on the room's thread.        *)
(*                                                                         *)
(* Data: a time is what is left until it is due, and `tick' is the clock.  *)
(***************************************************************************)
EXTENDS Integers, Sequences, FiniteSets

CONSTANTS
    Players,
    Spawners,
    Kind,           \* "EnvObj" or "Npc"
    SpawnCount,     \* getSpawnCount
    Transforms,     \* the number of its _spawnTransforms on the map
    Respawn,        \* _respawnInterval
    LifeTime,       \* EnvObjInfo::getLifeTime
    InitState,      \* EnvObjInfo::getInitStateType
    Duration,       \* EnvObjInfo::getInteractionDurationMSec
    ControlCount,   \* EnvObjSpawnData::getControlCount
    ChargeTime,     \* EnvObjSpawnData::getChargeTime
    RemoveEmpty,    \* EnvObjSpawnData::isRemoveEmpty
    Near,           \* the players that come near enough to control
    Commanders,     \* the players that send chat commands where its objects are
                    \* the nearest
    Entry,          \* the control count an object has once it is in the room
    Unloaded        \* the players that may be unloaded while they are away

ASSUME FieldAssumption ==
    /\ Kind \in [Spawners -> {"EnvObj", "Npc"}]
    /\ InitState \in [Spawners -> {"Activate", "Deactivate"}]
    /\ Near \in [Spawners -> SUBSET Players]
    /\ Commanders \in [Spawners -> SUBSET Players]
    /\ Unloaded \subseteq Players
    /\ RemoveEmpty \in [Spawners -> BOOLEAN]
    /\ \A f \in {SpawnCount, Transforms, Respawn, LifeTime, Duration,
                 ControlCount, ChargeTime, Entry} : f \in [Spawners -> Nat]
    /\ \A s \in Spawners : Entry[s] \in {0, ControlCount[s]}

\* The places of a spawner's objects; the ids of objects are never compared.
Slots == UNION {{s} \X (1..SpawnCount[s]) : s \in Spawners}
EnvObjs == {o \in Slots : Kind[o[1]] = "EnvObj"}

\* The spawners of the world's two components.
NpcSpawners == {s \in Spawners : Kind[s] = "Npc"}
EnvObjSpawners == {s \in Spawners : Kind[s] = "EnvObj"}

\* What FsmComponent has for an object.
EnvObjStates == {"Spawn", "Activate", "Deactivate", "Despawn"}

Unset == -1
None == <<>>
Free == [state |-> "free"]

\* EnvObj::_controls: the ids in it whose weak pointer leads to the Player
\* object of today, and those whose Player object has been replaced since.
NoControls == [live |-> {}, dead |-> {}]

VARIABLES
    objs,       \* the objects in the room
    times,      \* _spawnTimes
    pool,       \* the size of _spawnTransformPool
    spawned,    \* _spawnedCount
    players,    \* each player: is it in the room, its state (none before its
                \* first world is as good as idle), _ctrledEnvObj, _ctrlEndTime
    halted      \* the process met undefined behaviour

vars == <<objs, times, pool, spawned, players, halted>>

\* Everything a spawner has is due at once.
FirstTimes(s) == [i \in 1..SpawnCount[s] |-> 0]

Init ==
    /\ objs = [o \in Slots |-> Free]
    /\ times = [s \in Spawners |-> FirstTimes(s)]
    /\ pool = Transforms
    /\ spawned = [s \in Spawners |-> 0]
    /\ players = [p \in Players |-> [here |-> FALSE, state |-> "Idle",
                                     ctrl |-> None, end |-> 0]]
    /\ halted = FALSE

Here(o) == objs[o] # Free

Less(t) == IF t > 0 THEN t - 1 ELSE t

tick ==
    /\ ~halted
    /\ objs' = [o \in Slots |->
                  IF Here(o) THEN [objs[o] EXCEPT !.life = Less(@),
                                                  !.despawn = Less(@),
                                                  !.charge = Less(@)]
                             ELSE Free]
    /\ times' = [s \in Spawners |-> [i \in DOMAIN times[s] |-> Less(times[s][i])]]
    /\ players' = [p \in Players |-> [players[p] EXCEPT !.end = Less(@)]]
    /\ UNCHANGED <<pool, spawned, halted>>

-----------------------------------------------------------------------------
(* The spawners.                                                           *)

\* A due time is one that is not later than now; a life is over after it.
After(t) == t + 1

\* A new object; `shown' is the _envObjState of an EnvObj.
Created(s) == [state |-> "None", shown |-> "Max", despawn |-> Unset,
               life |-> Unset, remain |-> Entry[s], charge |-> Unset,
               controls |-> NoControls, removable |-> FALSE]

\* EnvObjStateSpawn::onEnter: it shows the state it is about to take.
SpawnEntered(s, obj) == [obj EXCEPT !.shown = InitState[s]]

\* Its enterWorld.
Entered(s, obj) == SpawnEntered(s, [obj EXCEPT !.state = "Spawn"])

\* An object lives its life time and one moment, be it zero; an Npc has none.
New(s) ==
    Entered(s, [Created(s) EXCEPT
                   !.life = IF s \in NpcSpawners THEN @ ELSE After(LifeTime[s])])

\* How many times from the front are due.
Due(s) == {n \in 0..Len(times[s]) : \A i \in 1..n : times[s][i] = 0}

\* Mutant of Spawns: one object less than the count.
SpawnsFewer(s) == {n \in Due(s) : n < SpawnCount[s] - spawned[s] /\ n <= pool[s]}

\* How many _doSpawn in a row succeed.
Spawns(s) == {n \in Due(s) : n <= SpawnCount[s] - spawned[s] /\ n <= pool[s]}

Of(new, s) == {o \in new : o[1] = s}

\* update of these spawners: a spawn that fails keeps its time.
spawnersUpdate(some) ==
    \E new \in SUBSET {o \in Slots : o[1] \in some /\ ~Here(o)} :
        LET n == [s \in Spawners |-> Cardinality(Of(new, s))] IN
        /\ ~halted
        /\ \A s \in some : n[s] \in Spawns(s) /\ n[s] + 1 \notin Spawns(s)
        /\ objs' = [o \in Slots |-> IF o \in new THEN New(o[1]) ELSE objs[o]]
        /\ times' = [s \in Spawners |-> SubSeq(times[s], n[s] + 1, Len(times[s]))]
        /\ pool' = [s \in Spawners |-> pool[s] - n[s]]
        /\ spawned' = [s \in Spawners |-> spawned[s] + n[s]]
        /\ UNCHANGED <<players, halted>>

\* update of the components, every 500 ms.
npcSpawnUpdate == spawnersUpdate(NpcSpawners)
envObjSpawnUpdate == spawnersUpdate(EnvObjSpawners)

addSpawnTimer(queue, t) == Append(queue, t)

\* Mutant of Timed: nothing is replaced.
TimedNever(s) == FALSE

\* An Npc is always replaced, an object only if it has a respawn interval.
Timed(s) == Kind[s] = "Npc" \/ Respawn[s] # 0

removeSpawnTimer(s) ==
    /\ spawned' = [spawned EXCEPT ![s] = @ - 1]
    /\ pool' = [pool EXCEPT ![s] = @ + 1]
    /\ times' = IF Timed(s)
                THEN [times EXCEPT ![s] = addSpawnTimer(@, Respawn[s])]
                ELSE times

\* The room removes a removable actor, whose endPlayPost calls
\* removeSpawnTimer; players only hold weak pointers to it.
remove(o) ==
    /\ ~halted
    /\ Here(o) /\ objs[o].removable
    /\ objs' = [objs EXCEPT ![o] = Free]
    /\ removeSpawnTimer(o[1])
    /\ players' = [p \in Players |->
                     IF players[p].ctrl = o THEN [players[p] EXCEPT !.ctrl = None]
                                            ELSE players[p]]
    /\ UNCHANGED halted

\* An Npc that leaves combat leaves the room.
exitCombat(o) ==
    /\ ~halted
    /\ Here(o) /\ Kind[o[1]] = "Npc" /\ ~objs[o].removable
    /\ objs' = [objs EXCEPT ![o].removable = TRUE]
    /\ UNCHANGED <<times, pool, spawned, players, halted>>

-----------------------------------------------------------------------------
(* An object: functions of its record.                                     *)

isUnLimitedCtrl(s) == ControlCount[s] = 0

isRemainEmtpyRemove(s) == RemoveEmpty[s]

Erased(controls, p) == [live |-> controls.live \ {p}, dead |-> controls.dead \ {p}]

\* The insert keeps an entry that is there for the id.
addControl(o, p) ==
    [objs EXCEPT ![o].controls.live = @ \cup ({p} \ objs[o].controls.dead)]
removeControl(o, p) == [objs EXCEPT ![o].controls = Erased(@, p)]

\* onEnter of the two states an object shows.
Activated(obj) == [obj EXCEPT !.shown = "Activate"]
Deactivated(obj) == [obj EXCEPT !.shown = "Deactivate"]

\* FsmComponent::changeState of an object, to one of its states; onEnter of
\* the despawn state is Despawned's.
changeState(obj, state) ==
    LET now == [obj EXCEPT !.state = IF state \in EnvObjStates THEN state
                                     ELSE "None"] IN
    CASE state = "Activate" -> Activated(now)
      [] state = "Deactivate" -> Deactivated(now)
      [] OTHER -> now

isFullControlCount(s, obj) == ControlCount[s] <= obj.remain

setRemainCtrlCount(s, obj, count) ==
    LET now == [obj EXCEPT !.remain = count] IN
    IF ChargeTime[s] = 0 THEN now
    ELSE [now EXCEPT !.charge = IF isFullControlCount(s, now) THEN Unset
                                ELSE After(ChargeTime[s])]

\* EnvObjStateDespawn::onEnter.
Despawned(s, obj) ==
    [changeState(obj, "Despawn") EXCEPT
        !.despawn = IF LifeTime[s] # 0 THEN After(LifeTime[s]) ELSE @]

\* EnvObjStateSpawn::onUpdate.
SpawnOver(s, obj) == changeState(obj, InitState[s])

\* onUpdate of the state the object is in.
Stated(s, obj) ==
    CASE obj.state = "Spawn" -> SpawnOver(s, obj)
      [] obj.state = "Despawn" /\ obj.despawn = 0 ->
            [obj EXCEPT !.despawn = Unset, !.removable = TRUE]
      [] OTHER -> obj

Aged(s, obj) ==
    IF obj.life = 0 THEN Despawned(s, [obj EXCEPT !.life = Unset]) ELSE obj

Charged(s, obj) ==
    LET again == [obj EXCEPT !.charge = After(ChargeTime[s])] IN
    IF ChargeTime[s] = 0 \/ obj.charge # 0 THEN obj
    ELSE IF isUnLimitedCtrl(s) \/ ~isFullControlCount(s, obj)
         THEN setRemainCtrlCount(s, again, again.remain + 1)
         ELSE again

\* EnvObj::update: the state machine, then the life, then the charge.
envObjUpdate(o) ==
    LET s == o[1] IN
    /\ ~halted
    /\ o \in EnvObjs /\ Here(o)
    /\ objs' = [objs EXCEPT ![o] = Charged(s, Aged(s, Stated(s, objs[o])))]
    /\ UNCHANGED <<times, pool, spawned, players, halted>>

-----------------------------------------------------------------------------
(* A player in and out of PlayerStateCtrledEnvObj.                         *)

Idle(player) == [player EXCEPT !.state = "Idle", !.ctrl = None]

\* Mutant of Without: an object keeps the player that cancelled.
WithoutNone(o, p) == objs

\* removeControl by _controlCompleteFailed.
Without(o, p) ==
    IF o = None THEN objs ELSE removeControl(o, p)

\* changeState of a player whose control is not complete: onExit of the old
\* state, then the new one, with `o' the object of the old one.
cancel(p, player) ==
    /\ objs' = IF players[p].state = "Ctrled" THEN Without(players[p].ctrl, p)
                                              ELSE objs
    /\ players' = [players EXCEPT ![p] = player]

\* The players forEachControls calls back for: those in the object's room.
forEachControls(controls) == {q \in controls.live : players[q].here}

\* It finds nothing to erase.
Reachable(controls) ==
    controls.dead = {} /\ forEachControls(controls) = controls.live

\* Mutant of Kicked: nobody but the player is sent to idle.
KickedNone(others) == {}

\* The others that control an object with no control left go idle.
Kicked(others) == forEachControls(others)

\* _controlComplete of an object with a limited control count.  Once it is
\* used up forEachControls runs: a control whose player has left the room, or
\* is no more, makes it erase an iterator of one map from another.
controlLimited(p, o) ==
    LET s == o[1]
        obj == objs[o]
        others == Erased(obj.controls, p)
        left == IF obj.remain > 0
                THEN setRemainCtrlCount(s, obj, obj.remain - 1) ELSE obj
        used == left.remain = 0
        gone == IF used THEN Kicked(others) ELSE {} IN
    /\ halted' = (used /\ ~Reachable(others))
    /\ objs' = [objs EXCEPT ![o] =
                  [(IF used /\ isRemainEmtpyRemove(s) THEN Despawned(s, left) ELSE left)
                      EXCEPT !.controls = [others EXCEPT !.live = @ \ gone]]]
    /\ players' = [q \in Players |-> IF q \in gone \cup {p} THEN Idle(players[q])
                                                            ELSE players[q]]

\* Mutant of Over: a player whose object is gone waits for it.
OverHeld(p) ==
    /\ players[p].here /\ players[p].state = "Ctrled"
    /\ players[p].end = 0 /\ players[p].ctrl # None

\* PlayerStateCtrledEnvObj::onUpdate of a room's player: its time is over.
Over(p) ==
    /\ players[p].here /\ players[p].state = "Ctrled"
    /\ players[p].end = 0

\* The state changes to idle with the control complete.
controlEnd(p) ==
    LET o == players[p].ctrl IN
    /\ ~halted
    /\ Over(p)
    /\ IF o = None \/ isUnLimitedCtrl(o[1])
       THEN cancel(p, Idle(players[p])) /\ UNCHANGED halted
       ELSE controlLimited(p, o)
    /\ UNCHANGED <<times, pool, spawned>>

\* PlayerStateCtrledEnvObj::onEnter with the object the player controls now:
\* the time is taken from the object, which lists the player.
Controlling(p, o) ==
    /\ players' = [players EXCEPT ![p] = [@ EXCEPT !.state = "Ctrled", !.ctrl = o,
                                                   !.end = Duration[o[1]]]]
    /\ objs' = addControl(o, p)

\* PktEnvObjCtrlStartReq.
ctrlStartReq(p, o) ==
    LET s == o[1] IN
    /\ ~halted
    /\ players[p].here
    /\ o \in EnvObjs /\ Here(o)
    /\ players[p].state = "Idle"
    /\ p \in Near[s]
    /\ isUnLimitedCtrl(s) \/ objs[o].remain # 0
    /\ Controlling(p, o)
    /\ UNCHANGED <<times, pool, spawned, halted>>

\* PktEnvObjCtrlCancelReq: the object of the request only has to exist.
ctrlCancelReq(p, o) ==
    /\ ~halted
    /\ players[p].here
    /\ o \in EnvObjs /\ Here(o)
    /\ players[p].state = "Ctrled"
    /\ cancel(p, Idle(players[p]))
    /\ UNCHANGED <<times, pool, spawned, halted>>

\* "envobj ctrl" near some object: the state without an object, over at once.
cheatCtrl(p) ==
    /\ ~halted
    /\ players[p].here
    /\ \E o \in EnvObjs : Here(o) /\ p \in Commanders[o[1]]
    /\ cancel(p, [players[p] EXCEPT !.state = "Ctrled", !.ctrl = None, !.end = 0])
    /\ UNCHANGED <<times, pool, spawned, halted>>

\* "envobj state" of the nearest object: whatever it is doing it takes the
\* state, unless it shows it already.
cheatState(p, o, state) ==
    /\ ~halted
    /\ players[p].here
    /\ o \in EnvObjs /\ Here(o) /\ p \in Commanders[o[1]]
    /\ objs[o].shown # state
    /\ objs' = [objs EXCEPT ![o] = changeState(@, state)]
    /\ UNCHANGED <<times, pool, spawned, players, halted>>

envObjCheat(p) ==
    \/ cheatCtrl(p)
    \/ \E o \in Slots, state \in {"Activate", "Deactivate"} : cheatState(p, o, state)

\* enterWorld of this world, or of another while this room still runs.
enterWorld(p, here) ==
    /\ ~halted
    /\ ~players[p].here
    /\ cancel(p, [Idle(players[p]) EXCEPT !.here = here])
    /\ UNCHANGED <<times, pool, spawned, halted>>

\* leaveWorld and the room's removal: the state is not left.
leaveWorld(p) ==
    /\ ~halted
    /\ players[p].here
    /\ players' = [players EXCEPT ![p].here = FALSE]
    /\ UNCHANGED <<objs, times, pool, spawned, halted>>

\* The player is loaded again once the room has dropped it: a new Player object
\* with a new state machine, and nobody leaves the state of the old one.
load(p) ==
    /\ ~halted
    /\ p \in Unloaded /\ ~players[p].here
    /\ players' = [players EXCEPT ![p] = Idle(@)]
    /\ objs' = [o \in Slots |->
                  IF Here(o) /\ p \in objs[o].controls.live
                  THEN [objs[o] EXCEPT !.controls = [live |-> @.live \ {p},
                                                     dead |-> @.dead \cup {p}]]
                  ELSE objs[o]]
    /\ UNCHANGED <<times, pool, spawned, halted>>

-----------------------------------------------------------------------------
Room ==
    \/ npcSpawnUpdate \/ envObjSpawnUpdate
    \/ \E o \in Slots : remove(o) \/ exitCombat(o) \/ envObjUpdate(o)
    \/ \E p \in Players : controlEnd(p)

Client ==
    \E p \in Players :
        \/ leaveWorld(p) \/ load(p) \/ envObjCheat(p)
        \/ \E here \in BOOLEAN : enterWorld(p, here)
        \/ \E o \in Slots : ctrlStartReq(p, o) \/ ctrlCancelReq(p, o)

Next == tick \/ Room \/ Client

Spec == Init /\ [][Next]_vars

\* Time passes and the room updates every actor and spawner in it.
FairSpec ==
    /\ Spec
    /\ WF_vars(tick)
    /\ WF_vars(npcSpawnUpdate) /\ WF_vars(envObjSpawnUpdate)
    /\ \A o \in Slots : WF_vars(remove(o)) /\ WF_vars(envObjUpdate(o))
    /\ \A p \in Players : WF_vars(controlEnd(p))

-----------------------------------------------------------------------------
\* Every place of a spawner is a living object or a time that brings one, as
\* long as it replaces what it loses, and every transform is in the pool or
\* under an object: deaths and spawns in any order leak neither.
SpawnBudget ==
    \A s \in Spawners :
        LET alive == Cardinality({o \in Slots : o[1] = s /\ Here(o)}) IN
        /\ spawned[s] = alive
        /\ pool[s] + alive = Transforms[s]
        /\ Kind[s] = "Npc" \/ Respawn[s] # 0 => Len(times[s]) + alive = SpawnCount[s]

\* An object lists the players of its room that control it, and those only,
\* but for one that was loaded again after it had left in the middle of a
\* control of this object: the entry of its old Player object stays, and
\* addControl does not replace it (EnvObj.cpp:194).
ControlsMatch ==
    ~halted => \A o \in EnvObjs :
        Here(o) => forEachControls(objs[o].controls) =
                      {p \in Players : /\ players[p].here
                                       /\ players[p].state = "Ctrled"
                                       /\ players[p].ctrl = o} \ objs[o].controls.dead

\* Nobody controls an object that has no control left, whether the object lists
\* him or not: the last control sends the others away, and none starts before
\* it is charged.
NoControlOfEmpty ==
    ~halted => \A o \in EnvObjs, p \in Players :
        Here(o) /\ ControlCount[o[1]] # 0 /\ objs[o].remain = 0
            => ~(players[p].state = "Ctrled" /\ players[p].ctrl = o)

\* A player that controls something stops, whatever becomes of the object.
ControlEnds ==
    \A p \in Players :
        players[p].state = "Ctrled" /\ players[p].here
            ~> players[p].state # "Ctrled" \/ ~players[p].here \/ halted

\* A spawner that replaces what it loses, and has a transform, always has an
\* object alive again.
NeverExtinct ==
    \A s \in Spawners :
        (Kind[s] = "Npc" \/ Respawn[s] # 0) /\ Transforms[s] # 0 /\ SpawnCount[s] # 0
            => []<>(spawned[s] > 0 \/ halted)

=============================================================================
