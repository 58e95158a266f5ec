---------------------------- MODULE BehaviorTree ----------------------------
(***************************************************************************)
(* The behaviour tree of an Npc: what BTNodeManager builds and how         *)
(* TaskNode, SequenceNode and SelectorNode execute it over the             *)
(* BTRunningTaskData and NpcAiComponent in s.                              *)
(*                                                                         *)
(* The task and condition functions (BTFuncTask, BTFuncDecoration) are     *)
(* empty in src.  A task is of one of the kinds the states give it: it     *)
(* starts NpcStateMoveTo or NpcStateWaiting and is in progress, goes to a  *)
(* target, or changes to Chase.  What the functions answer in a tick is    *)
(* env; a condition answers the same all through it.                       *)
(***************************************************************************)
EXTENDS NpcMove

CONSTANTS
    Nodes,
    Root,
    Kind,           \* "Sequence", "Selector" or the kind of a task
    Children,       \* _children of a composite
    Decorators,     \* _decorators of a node, in order
    DecoType,       \* EDecoType
    AbortType,      \* EBTFlowAbortMode
    Inverse,        \* isInverse
    ExcuteLimit,    \* 0: none
    LimitReturn,
    CoolTime        \* coolTimeMSec > 0

Composites == {n \in Nodes : Kind[n] \in {"Sequence", "Selector"}}
Tasks == Nodes \ Composites
ChildrenOf(n) == {Children[n][i] : i \in DOMAIN Children[n]}
AllDecorators == UNION {{Decorators[n][i] : i \in DOMAIN Decorators[n]} : n \in Nodes}

\* The state a task of this kind is in progress in.
Performing(t) == IF Kind[t] = "Wait" THEN "Waiting" ELSE Kind[t]

Answers == {"Succeeded", "Failed", "InProgress"}

\* What a tick's task functions and conditions answer.
Conditions == {d \in AllDecorators : DecoType[d] = "IfCheck"}
Envs == [holds : SUBSET Conditions, goal : {Near, Far}, path : BOOLEAN,
         token : Tokens]

-----------------------------------------------------------------------------
(* BTNodeManager::_loadBehaviorTrees: who watches which decorator.         *)

\* collectNodes
TasksUnder[n \in Nodes] ==
    IF n \in Tasks THEN {n} ELSE UNION {TasksUnder[c] : c \in ChildrenOf(n)}

\* getRightNodes
RightTasks[n \in Nodes] ==
    IF n = Root THEN {}
    ELSE LET p == CHOOSE m \in Composites : n \in ChildrenOf(m)
             i == CHOOSE j \in DOMAIN Children[p] : Children[p][j] = n
         IN  RightTasks[p]
               \cup UNION {TasksUnder[Children[p][j]] : j \in (i+1)..Len(Children[p])}

\* buildObserveAbort of n adds these decorators to t.
BuildObserveAbort(n, t) ==
    {d \in {Decorators[n][i] : i \in DOMAIN Decorators[n]} :
        /\ n \in Composites => DecoType[d] = "IfCheck"
        /\ \/ AbortType[d] \in {"LowerPriority", "Both"} /\ t \in RightTasks[n]
           \/ AbortType[d] \in {"Self", "Both"} /\ t \in TasksUnder[n]}

\* It is called for the root of a tree, and calls itself for no child.
Observes == [t \in Tasks |-> BuildObserveAbort(Root, t)]

-----------------------------------------------------------------------------
(* Tasks.                                                                  *)

CheckCondition(d, env) ==
    (DecoType[d] = "NodeSetting" \/ d \in env.holds) # Inverse[d]

\* The decorators in order, to the first that fails.  One that sets something
\* makes its node forceSuccess (setDecorateForceSuccessTask).
Decorated(n, s, env) ==
    LET failing == {i \in DOMAIN Decorators[n] :
                        ~CheckCondition(Decorators[n][i], env)}
        checked == {i \in DOMAIN Decorators[n] : \A j \in failing : i <= j}
    IN  [s |-> IF \E i \in checked : DecoType[Decorators[n][i]] = "NodeSetting"
               THEN [s EXCEPT !.ai.force = n] ELSE s,
         ok |-> failing = {}]

\* Mutant of OnTaskResult: a success that took several ticks is not counted.
OnTaskResultForgets(t, s, ret) ==
    [s |-> IF ret = "Succeeded" /\ CoolTime[t]
           THEN [s EXCEPT !.ai.cooling = @ \cup {t}] ELSE s,
     ret |-> IF ret = "Failed" /\ s.ai.force = t THEN "Succeeded" ELSE ret]

\* Successes are counted up to one more than the limit: the code compares
\* them with nothing else.
OnTaskResult(t, s, ret) ==
    LET limit == ExcuteLimit[t]
        counted == [s EXCEPT
            !.ai.counts[t] = IF limit > 0 /\ @ <= limit THEN @ + 1 ELSE @,
            !.ai.cooling = IF CoolTime[t] THEN @ \cup {t} ELSE @]
    IN  [s |-> IF ret = "Succeeded" THEN counted ELSE s,
         ret |-> IF ret = "Failed" /\ s.ai.force = t THEN "Succeeded" ELSE ret]

Limited(t, s) == ExcuteLimit[t] > 0 /\ s.ai.counts[t] >= ExcuteLimit[t]

\* checkEnableTask
CheckEnableTask(t, s) == ~Limited(t, s) /\ t \notin s.ai.cooling

\* _task
Perform(t, s, env) ==
    LET going == MoveToActor(s, env.token, env.path) IN
    CASE Kind[t] = "MoveTo" -> [s |-> ChangeState(s, "MoveTo", env.goal, FALSE),
                                ret |-> "InProgress"]
      [] Kind[t] = "Wait" -> [s |-> ChangeState(s, "Waiting", Exact, FALSE),
                              ret |-> "InProgress"]
      [] Kind[t] = "Chase" -> [s |-> ChangeState(s, "Chase", Exact, FALSE),
                               ret |-> "Succeeded"]
      [] Kind[t] = "Approach" -> [s |-> going.s,
                                  ret |-> IF going.ok THEN "Succeeded"
                                          ELSE "Failed"]


\* Mutant of SetRunningTask: the result of an earlier task stays.
SetRunningTaskKeeps(s, t) == [s EXCEPT !.ai.running = t]

SetRunningTask(s, t) ==
    [s EXCEPT !.ai.running = t, !.ai.latent = "InProgress"]

\* history: what t itself achieved since the last reset.
Achieved(t, s, ret) ==
    IF ret = "Succeeded" /\ ExcuteLimit[t] > 0 THEN [s EXCEPT !.done[t] = @ + 1] ELSE s

ExecuteTask(t, s, env) ==
    LET latent == s.ai.latent
        deco == Decorated(t, s, env)
        own == Perform(t, deco.s, env)
        begun == IF own.ret = "InProgress" THEN SetRunningTask(own.s, t)
                 ELSE own.s
    IN  CASE \E d \in Observes[t] : CheckCondition(d, env)
                -> OnTaskResult(t, s, "Failed")
          [] OTHER ->
             IF s.ai.running = t
             THEN OnTaskResult(t, Achieved(t, s, latent), latent)
             ELSE IF ~CheckEnableTask(t, s)
             THEN OnTaskResult(t, s, IF Limited(t, s) /\ LimitReturn[t]
                                     THEN "Succeeded" ELSE "Failed")
             ELSE IF ~deco.ok THEN OnTaskResult(t, deco.s, "Failed")
             ELSE OnTaskResult(t, Achieved(t, begun, own.ret), own.ret)

-----------------------------------------------------------------------------
(* Composites.                                                             *)

\* Mutant of CompositeChildIndex: every tick starts at the first child.
CompositeChildIndexFirst(n, s) == 1

\* getCompositeChildIndex, counted from 1.
CompositeChildIndex(n, s) ==
    IF s.ai.running = None THEN 1 ELSE s.ai.indexes[n]

\* What a child answers when the next one is executed, and the composite when
\* it has no more.
GoesOn(n) == IF Kind[n] = "Sequence" THEN "Succeeded" ELSE "Failed"

\* The members an Npc may have.
AiMembers ==
    [running : Tasks \cup {None}, indexes : [Composites -> Nat \ {0}],
     latent : Answers, dirty : BOOLEAN, counts : [Tasks -> Nat],
     cooling : SUBSET Tasks, force : Nodes \cup {None}]
FsmMembers == [state : NpcStates \cup {"StateNone"}, ended : BOOLEAN,
               timeUp : BOOLEAN, goal : {Exact, Near, Far}]
MoveMembers == [status : {"Moving", "Stop", "MoveCompleted"},
                type : {"Position", "ToActor"}, point : BOOLEAN, end : BOOLEAN]
NpcMembers ==
    [ai : AiMembers, fsm : FsmMembers, move : MoveMembers,
     combat : [on : BOOLEAN, pos : BOOLEAN], token : Tokens \cup {None},
     nextMove : {"any", "zero", "set"}, here : BOOLEAN, free : SUBSET Tokens,
     done : [Tasks -> Nat]]

\* Where a tick is in a composite: at one of its children, or past the last.
Positions == [node : Composites, child : Nat \ {0}, s : NpcMembers, env : Envs]

\* execute of a node: of a composite, `from' its current child on.
ExecuteNode(n, s, env, from) ==
    LET deco == Decorated(n, s, env) IN
    CASE n \in Tasks -> ExecuteTask(n, s, env)
      [] n \notin Tasks /\ deco.ok ->
            from[[node |-> n, child |-> CompositeChildIndex(n, s),
                  s |-> deco.s, env |-> env]]
      [] OTHER -> [s |-> deco.s, ret |-> "Failed"]

\* The children from x on, to the first that stops the composite.
ExecuteFrom[x \in Positions] ==
    IF x.child > Len(Children[x.node])
    THEN [s |-> x.s, ret |-> GoesOn(x.node)]
    ELSE LET r == ExecuteNode(Children[x.node][x.child], x.s, x.env, ExecuteFrom)
         IN  CASE r.ret = "InProgress" ->
                    [r EXCEPT !.s.ai.indexes[x.node] = x.child]
               [] r.ret = GoesOn(x.node) ->
                    ExecuteFrom[[x EXCEPT !.child = @ + 1, !.s = r.s]]
               [] OTHER -> r

Execute(n, s, env) == ExecuteNode(n, s, env, ExecuteFrom)

\* BTRunningTaskData::reset
ResetRunning(s) ==
    [s EXCEPT !.ai.running = None, !.ai.latent = "InProgress",
              !.ai.indexes = [n \in DOMAIN @ |-> 1]]
=============================================================================
