-------------------------------- MODULE Npc --------------------------------
(***************************************************************************)
(* One Npc in a room: its component updates on the room's thread           *)
(* (NpcAiComponent over its behaviour tree, FsmComponent,                  *)
(* NpcMoveComponent), the target it goes to, and the other npcs that take  *)
(* places beside the same target.                                          *)
(*                                                                         *)
(* Time: an update is taken when its interval may have passed; `elapse' is *)
(* the end of a wait or of the ten seconds of a return, `coolDown' of a    *)
(* cool time.                                                              *)
(***************************************************************************)
EXTENDS BehaviorTree

\* What _parseNode makes: every node hangs at one place, under the root, and
\* nothing under itself.
IsTree ==
    /\ Root \in Nodes
    /\ Kind \in [Nodes -> {"Sequence", "Selector", "MoveTo", "Wait",
                           "Approach", "Chase"}]
    /\ Children \in [Composites -> Seq(Nodes)]
    /\ ExcuteLimit \in [Tasks -> Int]
    /\ LimitReturn \in [Tasks -> BOOLEAN]
    /\ CoolTime \in [Tasks -> BOOLEAN]
    /\ \A m \in Composites : Root \notin ChildrenOf(m)
    /\ \A m, n \in Composites :
          \A i \in DOMAIN Children[m], j \in DOMAIN Children[n] :
             Children[m][i] = Children[n][j] => m = n /\ i = j
    /\ \A S \in SUBSET Nodes :
          Root \in S /\ (\A n \in S \cap Composites : ChildrenOf(n) \subseteq S)
             => S = Nodes
    /\ \A S \in (SUBSET Nodes) \ {{}} :
          \E n \in S : n \in Composites => ChildrenOf(n) \cap S = {}

ASSUME NpcAssumption == IsTree /\ None \notin Nodes \cup Tokens

VARIABLES
    ai, fsm, move, combat, token, nextMove,     \* the Npc, see NpcMove
    here,       \* the target is in the npc's room
    free,       \* _haveTokens of the target
    done,       \* history: successes of limited tasks since the last reset
    others,     \* tokens other npcs hold
    tick,       \* history: the parity of aiUpdate's steps
    refilled    \* history: the target came back while tokens were out

npcVars == <<ai, fsm, move, combat, token, nextMove, done>>
vars == <<npcVars, here, free, others, tick, refilled>>

Current == [ai |-> ai, fsm |-> fsm, move |-> move, combat |-> combat,
            token |-> token, nextMove |-> nextMove, here |-> here,
            free |-> free, done |-> done]

Becomes(s) ==
    /\ UNCHANGED <<here, others, refilled>>
    /\ ai' = s.ai /\ fsm' = s.fsm /\ move' = s.move /\ combat' = s.combat
    /\ token' = s.token /\ nextMove' = s.nextMove /\ done' = s.done
    /\ free' = s.free

\* A new Npc: the constructors leave _moveStatus, _movementType and
\* _nextMoveToTime uninitialised (the last is read when it roams).
Created(status, type) ==
    [ai |-> [running |-> None, indexes |-> [n \in Composites |-> 1],
             latent |-> "InProgress", dirty |-> FALSE,
             counts |-> [t \in Tasks |-> 0], cooling |-> {}, force |-> None],
     fsm |-> [state |-> "StateNone", ended |-> FALSE, timeUp |-> FALSE,
              goal |-> Exact],
     move |-> [status |-> status, type |-> type, point |-> FALSE, end |-> FALSE],
     combat |-> [on |-> FALSE, pos |-> FALSE],
     token |-> None, nextMove |-> "any", here |-> FALSE, free |-> {},
     done |-> [t \in Tasks |-> 0]]

\* enterWorld
EnterWorld(s) == ChangeState(s, "Spawn", Exact, FALSE)

\* ActorFactory::CreateNpc and what its callers do next.
CreateNpc(status, type) == EnterWorld(Created(status, type))

\* MoveCompleted and any other value are read as Stop is, the type only when
\* Moving.
Garbage == {<<"Moving", "Position">>, <<"Moving", "ToActor">>,
            <<"Stop", "Position">>}

Init ==
    /\ here = FALSE /\ free = Tokens
    /\ \E g \in Garbage :
         LET s == CreateNpc(g[1], g[2]) IN
         /\ ai = s.ai /\ fsm = s.fsm /\ move = s.move /\ combat = s.combat
         /\ token = s.token /\ nextMove = s.nextMove /\ done = s.done
    /\ others = {} /\ tick = FALSE /\ refilled = FALSE

-----------------------------------------------------------------------------
(* The components.                                                         *)

aiTick == (ai.dirty \/ fsm.state = "Chase") /\ tick' = ~tick

\* NpcAiComponent::update: when something happened, or every 250 ms of Chase.
aiUpdate(env) ==
    LET r == Execute(Root, [Current EXCEPT !.ai.dirty = FALSE], env) IN
    /\ aiTick
    /\ Becomes(IF r.ret = "InProgress" THEN r.s ELSE ResetRunning(r.s))

fsmUpdate(path, due) ==
    LET s == Current IN
    /\ UNCHANGED tick
    /\ Becomes(CASE fsm.state = "Spawn" -> UpdateSpawn(s)
                 [] fsm.state = "Waiting" -> UpdateWaiting(s)
                 [] fsm.state = "MoveTo" -> UpdateMoveTo(s, path)
                 [] fsm.state = "Return" -> UpdateReturn(s)
                 [] fsm.state = "Roaming" -> UpdateRoaming(s, due, path)
                 [] OTHER -> s)

\* The stop is at most 5 from the end of the path; on a path that leads
\* elsewhere it is anywhere from the goal.
moveUpdate ==
    /\ move.status = "Moving" /\ move.point
    /\ UNCHANGED tick
    /\ \E left \in {Exact, Near} \cup (IF move.end THEN {} ELSE {Far}) :
         Becomes(Arrive(Current, left))

elapse ==
    /\ fsm.state \in {"Spawn", "Waiting", "Return"} /\ ~fsm.timeUp
    /\ fsm' = [fsm EXCEPT !.timeUp = TRUE]
    /\ UNCHANGED <<ai, move, combat, token, nextMove, done, here, free, others,
                   tick, refilled>>

coolDown(t) ==
    /\ t \in ai.cooling
    /\ ai' = [ai EXCEPT !.cooling = @ \ {t}]
    /\ UNCHANGED <<fsm, move, combat, token, nextMove, done, here, free, others,
                   tick, refilled>>

\* What takes an idle npc into a fight or on its rounds and lets it give up
\* is not in src (commented out in NpcStateIdle.cpp, _isReturn is unused).
Drives == {<<"Idle", "Chase">>, <<"Idle", "Roaming">>, <<"Roaming", "Chase">>,
           <<"Chase", "Return">>}

drive(state, goal, path) ==
    /\ <<fsm.state, state>> \in Drives
    /\ UNCHANGED tick
    /\ Becomes(ChangeState(Current, state, goal, path))

\* The npc is removed (killed, or a summoned one that left combat): endPlayPost
\* resets the ai, nothing returns the token.  The spawner makes another.
respawn(status, type) ==
    LET s == CreateNpc(status, type) IN
    /\ ai' = s.ai /\ fsm' = s.fsm /\ move' = s.move /\ combat' = s.combat
    /\ token' = s.token /\ nextMove' = s.nextMove /\ done' = s.done
    /\ UNCHANGED <<here, free, others, tick, refilled>>

-----------------------------------------------------------------------------
(* The target and the other npcs.                                          *)

\* Actor::beginPlay refills the tokens, whoever still holds one.
targetEnters ==
    /\ ~here
    /\ here' = TRUE /\ free' = Tokens
    /\ refilled' = (refilled \/ token # None \/ others # {})
    /\ UNCHANGED <<npcVars, others, tick>>

targetLeaves ==
    /\ here
    /\ here' = FALSE
    /\ UNCHANGED <<npcVars, free, others, tick, refilled>>

otherTakes(t) ==
    /\ here /\ t \in free
    /\ free' = free \ {t} /\ others' = others \cup {t}
    /\ UNCHANGED <<npcVars, here, tick, refilled>>

otherReturns(t) ==
    /\ t \in others
    /\ others' = others \ {t}
    /\ free' = IF here THEN free \cup {t} ELSE free
    /\ UNCHANGED <<npcVars, here, tick, refilled>>

-----------------------------------------------------------------------------
World ==
    \/ \E d \in Drives, goal \in {Exact, Near, Far}, path \in BOOLEAN :
         drive(d[2], goal, path)
    \/ \E g \in Garbage : respawn(g[1], g[2])
    \/ targetEnters \/ targetLeaves
    \/ \E t \in Tokens : otherTakes(t) \/ otherReturns(t)

Next ==
    \/ \E env \in Envs : aiUpdate(env)
    \/ \E path \in BOOLEAN, due \in BOOLEAN : fsmUpdate(path, due)
    \/ moveUpdate
    \/ elapse
    \/ \E t \in Tasks : coolDown(t)
    \/ World

Spec == Init /\ [][Next]_vars

\* The room updates its actors frame after frame, and a path that is asked
\* for again and again is found.
FairSpec ==
    /\ Spec
    /\ WF_tick(aiTick)
    /\ SF_vars(\E due \in BOOLEAN : fsmUpdate(TRUE, due))
    /\ WF_vars(moveUpdate)
    /\ WF_vars(elapse)
-----------------------------------------------------------------------------
(* Properties.                                                             *)

\* A task that is in progress is what the npc is doing: its state machine is
\* in the task's own state, and the only result waiting for the task is the
\* success of that state, never the answer to an earlier task.
RunningIsPerformed ==
    ai.running # None =>
        /\ fsm.state = Performing(ai.running)
        /\ ai.latent # "InProgress" => ai.latent = "Succeeded" /\ fsm.ended

\* While a task is in progress a tick resumes it or goes on to its right,
\* whatever has been executed, aborted or skipped: nothing to its left runs
\* again before the tree has come to an end.
NeverBack ==
    [][ai.running # None /\ ai'.running # None
          => ai.running \notin RightTasks[ai'.running]]_vars

\* A task with an ExcuteLimit succeeds at most so many times between two
\* resets, also when its success comes ticks after its start.
LimitHolds ==
    \A t \in Tasks : ExcuteLimit[t] > 0 => done[t] <= ExcuteLimit[t]

\* A place beside the target is free or taken by one npc, as long as the
\* target did not come into the room again while places were taken.
TokenOnce ==
    ~refilled =>
        /\ token \notin free \cup others
        /\ others \cap free = {}

\* A task that is in progress comes to an end: its move arrives or its wait
\* passes, the tree hears of it and goes on, to a tick that leaves nothing
\* running.
RunningEnds == ai.running # None ~> ai.running = None

\* A return ends at home or after ten seconds, with or without a path.
ReturnEnds == fsm.state = "Return" ~> fsm.state # "Return"
=============================================================================
