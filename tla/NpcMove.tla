------------------------------ MODULE NpcMove ------------------------------
(***************************************************************************)
(* The states of an Npc (NpcState*, FsmComponent) and its movement         *)
(* (NpcMoveComponent), as operators on s, the members of one Npc:          *)
(*   ai      NpcAiComponent and its BTRunningTaskData                      *)
(*   fsm     the state, whether its MoveTo or Waiting has ended, whether   *)
(*           its time is up, and how far the npc is from its goal          *)
(*   move    NpcMoveComponent; `end': the path leads to the state's goal   *)
(*   combat  _isCombating, and whether a CombatStartPos is stored          *)
(*   token   the place beside the target the npc holds                     *)
(*   free    _haveTokens of that target; here: it is in the npc's room     *)
(*                                                                         *)
(* Data: of a vector the model keeps how far the npc is from it (Exact:    *)
(* less than 1; Near: _equalsNealy, at most 5 on each axis; Far), and      *)
(* whether a path was found.  No destination is the origin.                *)
(***************************************************************************)
EXTENDS Integers, FiniteSets, Sequences

CONSTANTS
    Tokens,     \* the EPosTokenType values round a target
    None

Exact == 0
Near == 1
Far == 2

\* The states FsmComponent has for an Npc.
NpcStates == {"Spawn", "Idle", "Chase", "Waiting", "Return", "Roaming", "MoveTo"}

SetLatent(s, ret) == [s EXCEPT !.ai.latent = ret, !.ai.dirty = TRUE]

-----------------------------------------------------------------------------
(* NpcMoveComponent.                                                       *)

ReturnToken(s) ==
    IF s.token = None THEN s
    ELSE [s EXCEPT !.free = IF s.here THEN @ \cup {s.token} ELSE @,
                   !.token = None]

Stop(s) ==
    IF s.move.status \in {"Stop", "MoveCompleted"} THEN s
    ELSE [s EXCEPT !.move.status = "Stop", !.move.point = TRUE,
                   !.move.end = FALSE]

\* _isValidState
IsValidState(s) == s.fsm.state \in {"Chase", "Return", "Roaming", "MoveTo"}

\* moveTo(Vector), to the goal of the state.  Beside it already, the npc only
\* gets a new path point: its status stays what it was.
MoveToGoal(s, path) ==
    LET back == IF s.move.status = "Moving" /\ s.move.type = "ToActor"
                THEN ReturnToken(s) ELSE s
        typed == [back EXCEPT !.move.type = "Position"]
        led == [typed EXCEPT !.move.point = TRUE, !.move.end = TRUE]
    IN  CASE s.fsm.goal # Far -> [s |-> led, ok |-> TRUE]
          [] s.fsm.goal = Far /\ ~path -> [s |-> typed, ok |-> FALSE]
          [] OTHER -> [s |-> [led EXCEPT !.move.status = "Moving"], ok |-> TRUE]


\* Mutant of MoveToActor: the old token is forgotten, not returned, and any
\* token is taken.
MoveToActorAnyToken(s, token, path) ==
    IF IsValidState(s) /\ s.here /\ path
    THEN [s |-> [s EXCEPT !.token = CHOOSE t \in Tokens : TRUE,
                   !.move = [status |-> "Moving", type |-> "ToActor",
                             point |-> TRUE, end |-> FALSE]],
          ok |-> TRUE]
    ELSE [s |-> s, ok |-> FALSE]

TakeToken(s, token) == [s EXCEPT !.token = token, !.free = @ \ {token}]

\* moveTo(ActorPtr): the old token goes back before the nearest free one is
\* looked for.
MoveToActor(s, token, path) ==
    LET back == ReturnToken(s) IN
    CASE ~(IsValidState(s) /\ s.here) -> [s |-> s, ok |-> FALSE]
      [] IsValidState(s) /\ s.here ->
            IF path /\ token \in back.free
            THEN [s |-> [TakeToken(back, token) EXCEPT
                           !.move = [status |-> "Moving", type |-> "ToActor",
                                     point |-> TRUE, end |-> FALSE]],
                  ok |-> TRUE]
            ELSE [s |-> back, ok |-> FALSE]

\* update up to _complete, in the frame that brings the npc within 5 of the
\* end of its path: perhaps exactly there.  Frames before it change only the
\* location, which on another path may be anywhere seen from the goal.
Arrive(s, left) ==
    [s EXCEPT !.move.status = "MoveCompleted", !.move.point = FALSE,
              !.move.end = FALSE,
              !.fsm.goal = IF s.fsm.state \in {"MoveTo", "Return"} THEN left
                           ELSE @]

\* teleport: wherever it goes, the npc stops there.
Teleport(s) == Stop(s)

-----------------------------------------------------------------------------
(* Npc::enterCombat and exitCombat, with what they do in NpcAiComponent.   *)

EnterCombat(s) ==
    IF s.combat.on THEN s
    ELSE [s EXCEPT !.combat = [on |-> TRUE, pos |-> TRUE]]

\* NpcAiComponent::reset: what is running is not in it.
ResetAi(s) ==
    [s EXCEPT !.ai.dirty = FALSE, !.ai.cooling = {}, !.ai.force = None,
              !.ai.counts = [t \in DOMAIN @ |-> 0],
              !.done = [t \in DOMAIN @ |-> 0]]

ExitCombat(s) ==
    IF ~s.combat.on THEN s
    ELSE ReturnToken(ResetAi([s EXCEPT !.combat.on = FALSE]))

-----------------------------------------------------------------------------
(* FsmComponent::changeState: onExit of the old state, then onEnter of the *)
(* new one.                                                                *)

\* NpcStateMoveTo and NpcStateWaiting: unfinished, their task has failed.
Exit(s) ==
    IF s.fsm.state \in {"MoveTo", "Waiting"} /\ ~s.fsm.ended
    THEN SetLatent(s, "Failed") ELSE s

EnterReturn(s, path) ==
    LET out == ExitCombat(s)
        to == MoveToGoal(out, path)
    IN  IF out.combat.pos /\ to.ok THEN to.s
        ELSE [Stop(IF out.combat.pos THEN to.s ELSE out)
                EXCEPT !.fsm.goal = Exact]

\* updateOnceAi
EnterSpawn(s) == [s EXCEPT !.ai.dirty = TRUE]

EnterChase(s) == EnterCombat(s)

EnterWaiting(s) == Stop(s)

EnterMoveTo(s, goal) == [s EXCEPT !.fsm.ended = FALSE, !.fsm.goal = goal]

\* goal: the distance to where a MoveTo or a Return is bound.
ChangeState(s, state, goal, path) ==
    LET in == [Exit(s) EXCEPT
                 !.fsm = [state |-> IF state \in NpcStates THEN state
                                    ELSE "StateNone",
                          ended |-> FALSE, timeUp |-> FALSE,
                          goal |-> IF state = "Return" THEN goal ELSE Exact],
                 !.move.end = FALSE]
    IN  CASE state = "Spawn" -> EnterSpawn(in)
          [] state = "Chase" -> EnterChase(in)
          [] state = "Return" -> EnterReturn(in, path)
          [] state = "Waiting" -> EnterWaiting(in)
          [] state = "MoveTo" -> EnterMoveTo(in, goal)
          [] OTHER -> in

-----------------------------------------------------------------------------
(* onUpdate of each state, when its interval has passed.  Idle and Chase   *)
(* only count their intervals.                                             *)

UpdateSpawn(s) ==
    IF s.fsm.timeUp THEN ChangeState(s, "Idle", Exact, FALSE) ELSE s

Finished(s) == SetLatent([s EXCEPT !.fsm.ended = TRUE], "Succeeded")


\* Mutant of UpdateWaiting: the end of the wait is not told.
UpdateWaitingSilent(s) ==
    IF s.fsm.timeUp THEN [s EXCEPT !.fsm.ended = TRUE] ELSE s

UpdateWaiting(s) == IF s.fsm.timeUp THEN Finished(s) ELSE s

\* The range of a move covers what _complete takes for arrived.
UpdateMoveTo(s, path) ==
    CASE s.fsm.goal # Far -> Finished(s)
      [] s.fsm.goal = Far /\ s.move.type = "Position"
            /\ s.move.status = "Moving" /\ s.move.end -> s
      [] OTHER -> MoveToGoal(s, path).s


\* Mutant of UpdateReturn: no ten second limit.
UpdateReturnPatient(s) ==
    IF s.fsm.goal = Exact THEN ChangeState(s, "Idle", Exact, FALSE) ELSE s

\* After ten seconds the npc is put where it was spawned.
UpdateReturn(s) ==
    IF s.fsm.timeUp THEN ChangeState(Teleport(s), "Idle", Exact, FALSE)
    ELSE IF s.fsm.goal = Exact THEN ChangeState(s, "Idle", Exact, FALSE)
    ELSE s

\* nextMove: _nextMoveToTime is "zero", "set" or, uninitialised, "any" value:
\* perhaps a time that has come.  The goal is a new random place each time.
UpdateRoaming(s, due, path) ==
    LET timed == [s EXCEPT !.nextMove =
                    IF @ = "zero" /\ s.move.status \in {"MoveCompleted", "Stop"}
                    THEN "set" ELSE @]
        to == MoveToGoal([timed EXCEPT !.fsm.goal = Far], path)
    IN  IF timed.nextMove # "zero" /\ due
        THEN [to.s EXCEPT !.nextMove = IF to.ok THEN "zero" ELSE @,
                          !.fsm.goal = Exact, !.move.end = FALSE]
        ELSE timed
=============================================================================
