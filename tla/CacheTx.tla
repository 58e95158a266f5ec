------------------------------- MODULE CacheTx -------------------------------
(***************************************************************************)
(* One CacheTx (src/GameServer/DB/CacheTx.{h,cpp}) from the handler that   *)
(* fills it to the callbacks that report it, with every thread it visits:  *)
(* the task managers of the objects' owners, the database thread and the   *)
(* caller.  A closure waiting in a manager's queue is an element of        *)
(* `queued', a share of `pending' or of `writeBacks'; the closures of one  *)
(* manager that the code orders are ordered by guards.  An inline dispatch *)
(* is the interleaving in which the queued closure runs next.              *)
(*                                                                         *)
(* Data: an object has an old and a new value.  `rows' holds the objects   *)
(* whose database row is new, `origins' those whose original in memory is. *)
(***************************************************************************)
EXTENDS Integers

CONSTANTS
    Managers,       \* the task managers (rooms) that can own objects
    NoManager,      \* getTaskManager() of an owner that is in no room
    Sources,        \* what getTaskManager() can return to a caller
    Objects,        \* the ORM objects a caller can acquire
    SyncTypes,      \* the ETxSyncType values callers select
    MaxTasks        \* bound on pushTask and on pushDbTask calls

ETxSyncType ==
    {"AsyncDB_AsyncCallback", "SyncCallback_AsyncDB", "SyncCallback_ManualDB"}
Async == "AsyncDB_AsyncCallback"

ASSUME CacheTxAssumption ==
    /\ NoManager \notin Managers
    /\ Sources \subseteq Managers \cup {NoManager}
    /\ Async \in SyncTypes
    /\ SyncTypes \subseteq ETxSyncType
    /\ MaxTasks \in Nat

VARIABLES
    stage,          \* "build", "logic", "settled", "empty" or "crashed"
    syncType,       \* _syncType
    returnType,     \* _returnType
    objects,        \* keys of _objects
    changed,        \* those whose copy has a CRUD state other than none
    objectThds,     \* the manager an acquired object is written back on
    pending,        \* logic tasks pushed and not yet run, per manager
    dispose,        \* *dispose # 0: some logic task returned false
    dbTasks,        \* Len(_dbTasks) still to run
    callbacks,      \* _succTasks, _failTasks and _resultTasks: <<list, manager>>
    dbTx,           \* the database transaction
    written,        \* statements the open database transaction has executed
    rows, origins,
    post,           \* _runPost: "none", "writing", "answered" or "failed"
    writeBacks,     \* managers whose write-back closure has not run
    queued, ran     \* callback closures waiting / run: <<list, manager, verdict>>

buildVars == <<syncType, objects, changed, objectThds, dbTasks, callbacks>>
dbVars == <<dbTx, written, rows>>
postVars == <<returnType, post, writeBacks, origins, queued, ran>>
vars == <<stage, syncType, returnType, objects, changed, objectThds, pending,
          dispose, dbTasks, callbacks, dbTx, written, rows, origins, post,
          writeBacks, queued, ran>>

Lists == {"succ", "fail", "result"}

Init ==
    /\ stage = "build"
    /\ syncType = Async
    /\ returnType = "Succ"
    /\ objects = {} /\ changed = {}
    /\ objectThds = [o \in Objects |-> NoManager]
    /\ pending = [m \in Managers |-> 0]
    /\ dispose = FALSE
    /\ dbTasks = 0
    /\ callbacks = {}
    /\ dbTx = "none" /\ written = {}
    /\ rows = {} /\ origins = {}
    /\ post = "none" /\ writeBacks = {}
    /\ queued = {} /\ ran = {}

-----------------------------------------------------------------------------
(* The handler fills the transaction.                                      *)

setSyncType(type) ==
    /\ stage = "build"
    /\ syncType' = type
    /\ UNCHANGED <<stage, objects, changed, objectThds, pending, dispose,
                   dbTasks, callbacks, dbVars, postVars>>

\* Only the first call clones; the owner without a room is not recorded.
acquireObject(o, source) ==
    /\ stage = "build"
    /\ o \notin objects
    /\ objects' = objects \cup {o}
    /\ objectThds' = [objectThds EXCEPT ![o] = source]
    /\ UNCHANGED <<stage, syncType, changed, pending, dispose, dbTasks,
                   callbacks, dbVars, postVars>>

\* A setter on the copy: its CRUD state becomes insert, update or delete.
changeCopy(o) ==
    /\ stage = "build"
    /\ o \in objects
    /\ changed' = changed \cup {o}
    /\ UNCHANGED <<stage, syncType, objects, objectThds, pending, dispose,
                   dbTasks, callbacks, dbVars, postVars>>

pushTask(m) ==
    /\ stage = "build"
    /\ pending[m] < MaxTasks
    /\ pending' = [pending EXCEPT ![m] = @ + 1]
    /\ UNCHANGED <<stage, buildVars, dispose, dbVars, postVars>>

pushDbTask ==
    /\ stage = "build"
    /\ dbTasks < MaxTasks
    /\ dbTasks' = dbTasks + 1
    /\ UNCHANGED <<stage, syncType, objects, changed, objectThds, pending,
                   dispose, callbacks, dbVars, postVars>>

\* ifSucceed, ifFailed and ifResult: append to the list of the manager.
ifCallback(list, m) ==
    /\ stage = "build"
    /\ callbacks' = callbacks \cup {<<list, m>>}
    /\ UNCHANGED <<stage, syncType, objects, changed, objectThds, pending,
                   dispose, dbTasks, dbVars, postVars>>

Empty ==
    /\ objects = {} /\ dbTasks = 0 /\ callbacks = {}
    /\ \A m \in Managers : pending[m] = 0

run ==
    /\ stage = "build"
    /\ stage' = IF Empty THEN "empty" ELSE "logic"
    /\ UNCHANGED <<buildVars, pending, dispose, dbVars, postVars>>

-----------------------------------------------------------------------------
(* The logic phase: one closure per pushed task, on its manager.           *)

runTask(m, ok) ==
    /\ stage = "logic"
    /\ pending[m] > 0
    /\ pending' = [pending EXCEPT ![m] = @ - 1]
    /\ dispose' = (dispose \/ ~ok)
    /\ UNCHANGED <<stage, buildVars, dbVars, postVars>>

\* The closures of `list' are queued with a verdict.
Closures(list, verdict) ==
    {<<list, m, verdict>> : m \in {n \in Managers : <<list, n>> \in callbacks}}


\* Mutant of runFailTasks: the result callbacks are cleared unheard.
runFailTasksMute ==
    /\ queued' = queued \cup Closures("fail", FALSE)
    /\ callbacks' = {} /\ dbTasks' = 0
    /\ post' = "failed"
    /\ UNCHANGED writeBacks

\* Queues the fail and result closures and clears the four lists.
runFailTasks ==
    /\ queued' = queued \cup Closures("fail", FALSE)
                        \cup Closures("result", FALSE)
    /\ callbacks' = {}
    /\ dbTasks' = 0
    /\ post' = "failed"
    /\ UNCHANGED writeBacks

\* Dispatches one write-back closure per manager of _objectThds.
dispatchWriteBacks ==
    /\ writeBacks' = {objectThds[o] : o \in objects} \cap Managers
    /\ post' = "writing"
    /\ UNCHANGED <<queued, callbacks, dbTasks>>


\* Mutant of runPost: _returnType is not looked at.
runPostAlways == dispatchWriteBacks

runPost == IF returnType' = "Succ" THEN dispatchWriteBacks ELSE runFailTasks

NoDbWork == objects = {} /\ dbTasks = 0

\* The deleter of `dispose': the last logic closure has gone.
settle ==
    /\ stage = "logic"
    /\ \A m \in Managers : pending[m] = 0
    /\ stage' = "settled"
    /\ IF dispose
       THEN /\ returnType' = "FailLogic"
            /\ runFailTasks
            /\ UNCHANGED dbTx
       ELSE /\ UNCHANGED returnType
            /\ IF syncType = Async /\ ~NoDbWork
               THEN UNCHANGED <<queued, callbacks, dbTasks, post, writeBacks>>
               ELSE runPost
            /\ dbTx' = IF syncType # "SyncCallback_ManualDB" /\ ~NoDbWork
                       THEN "open" ELSE dbTx
    /\ UNCHANGED <<syncType, objects, changed, objectThds, pending, dispose,
                   written, rows, origins, ran>>

-----------------------------------------------------------------------------
(* The database thread, inside one transaction of DBTask::runTask.         *)

runDbTask ==
    /\ dbTx = "open"
    /\ dbTasks > 0
    /\ dbTasks' = dbTasks - 1
    /\ UNCHANGED <<stage, syncType, objects, changed, objectThds, pending,
                   dispose, callbacks, dbVars, postVars>>


\* Mutant of execute: a copy without a CRUD state is written too.
executeAny(o) ==
    /\ dbTx = "open" /\ dbTasks = 0
    /\ o \in objects \ written
    /\ written' = written \cup {o}
    /\ UNCHANGED <<stage, buildVars, pending, dispose, dbTx, rows, postVars>>

\* insert, update or deleteKey of one changed copy, in the map's order.
execute(o) ==
    /\ dbTx = "open"
    /\ dbTasks = 0
    /\ o \in changed \ written
    /\ written' = written \cup {o}
    /\ UNCHANGED <<stage, buildVars, pending, dispose, dbTx, rows, postVars>>


\* Mutant of commit: the loop over _objects ends after any statement.
commitEarly ==
    /\ dbTx = "open" /\ dbTasks = 0
    /\ dbTx' = "committed"
    /\ rows' = written
    /\ UNCHANGED <<stage, buildVars, pending, dispose, written, postVars>>

\* Every statement returned true: the transaction commits.
commit ==
    /\ dbTx = "open"
    /\ dbTasks = 0
    /\ changed \subseteq written
    /\ dbTx' = "committed"
    /\ rows' = written
    /\ UNCHANGED <<stage, buildVars, pending, dispose, written, postVars>>


\* Mutant of rollback: runTask without its transaction argument.
rollbackNothing ==
    /\ dbTx = "open"
    /\ dbTx' = "aborted"
    /\ rows' = written
    /\ UNCHANGED <<stage, buildVars, pending, dispose, written, postVars>>

\* A task, a statement or the commit itself fails: roll back.
rollback ==
    /\ dbTx = "open"
    /\ dbTx' = "aborted"
    /\ written' = {}
    /\ UNCHANGED <<stage, buildVars, pending, dispose, rows, postVars>>


\* Mutant of dbResult: the result of the transaction is dropped.
dbResultIgnored ==
    /\ dbTx \in {"committed", "aborted"}
    /\ dbTx' = "reported"
    /\ UNCHANGED returnType
    /\ IF syncType = Async
       THEN runPost
       ELSE UNCHANGED <<queued, callbacks, dbTasks, post, writeBacks>>
    /\ UNCHANGED <<stage, syncType, objects, changed, objectThds, pending,
                   dispose, written, rows, origins, ran>>

\* resultCallback, on the caller's thread.
dbResult ==
    /\ dbTx \in {"committed", "aborted"}
    /\ dbTx' = "reported"
    /\ returnType' = IF dbTx = "aborted" THEN "FailTransation" ELSE returnType
    /\ IF syncType = Async
       THEN runPost
       ELSE UNCHANGED <<queued, callbacks, dbTasks, post, writeBacks>>
    /\ UNCHANGED <<stage, syncType, objects, changed, objectThds, pending,
                   dispose, written, rows, origins, ran>>

-----------------------------------------------------------------------------
(* The write-backs and the callbacks.                                      *)

\* applyCache and copyMember for every object recorded under the manager.
writeBack(m) ==
    /\ m \in writeBacks
    /\ writeBacks' = writeBacks \ {m}
    /\ origins' = origins \cup {o \in changed : objectThds[o] = m}
    /\ UNCHANGED <<stage, buildVars, pending, dispose, dbVars, returnType,
                   post, queued, ran>>


\* Mutant of answer: the callbacks do not wait for the write-backs.
answerEarly ==
    /\ post = "writing"
    /\ post' = "answered"
    /\ queued' = queued \cup Closures("succ", TRUE) \cup Closures("result", TRUE)
    /\ callbacks' = {}
    /\ UNCHANGED <<stage, syncType, objects, changed, objectThds, dbTasks,
                   pending, dispose, dbVars, returnType, writeBacks, origins,
                   ran>>

\* The deleter of _runPost's `dispose': the last write-back closure has gone.
answer ==
    /\ post = "writing"
    /\ writeBacks = {}
    /\ post' = "answered"
    /\ queued' = queued \cup Closures("succ", TRUE) \cup Closures("result", TRUE)
    /\ callbacks' = {}
    /\ UNCHANGED <<stage, syncType, objects, changed, objectThds, dbTasks,
                   pending, dispose, dbVars, returnType, writeBacks, origins,
                   ran>>

\* succ and fail closures were queued on a manager before its result closure.
Before(c) == {<<list, c[2], c[3]>> : list \in {"succ", "fail"} \ {c[1]}}


runCallback(c) ==
    /\ c \in queued
    /\ c[1] = "result" => Before(c) \cap queued = {}
    /\ queued' = queued \ {c}
    /\ ran' = ran \cup {c}
    /\ UNCHANGED <<stage, buildVars, pending, dispose, dbVars, returnType,
                   post, writeBacks, origins>>

\* The server stops.  The database rolls an open transaction back, memory is
\* rebuilt from the rows by the next start, and every closure is lost.
crash ==
    /\ stage \in {"logic", "settled"}
    /\ stage' = "crashed"
    /\ dbTx' = "none" /\ written' = {}
    /\ pending' = [m \in Managers |-> 0]
    /\ origins' = rows
    /\ post' = "none"
    /\ writeBacks' = {} /\ queued' = {}
    /\ UNCHANGED <<buildVars, dispose, rows, returnType, ran>>

\* Mutant of Busy: the updaters go when the database has answered.
BusyUntilResult ==
    \/ stage \in {"build", "logic"}
    \/ dbTx \in {"open", "committed", "aborted"}

-----------------------------------------------------------------------------
(* A BusyStateUpdater the handler added lives in the CacheTx, and the      *)
(* CacheTx lives as long as a closure that captured `self' does.           *)
Busy ==
    \/ stage \in {"build", "logic"}
    \/ dbTx \in {"open", "committed", "aborted"}
    \/ post = "writing"

Build ==
    \/ \E type \in SyncTypes : setSyncType(type)
    \/ \E o \in Objects, source \in Sources : acquireObject(o, source)
    \/ \E o \in Objects : changeCopy(o)
    \/ \E m \in Managers : pushTask(m)
    \/ pushDbTask
    \/ \E list \in Lists, m \in Managers : ifCallback(list, m)

Logic == \E m \in Managers, ok \in BOOLEAN : runTask(m, ok)
Database == runDbTask \/ (\E o \in Objects : execute(o)) \/ commit \/ rollback
Reply == \E m \in Managers : writeBack(m)
Callback == \E c \in queued : runCallback(c)

\* Steps of the server's threads, as opposed to its callers and its end.
System == Logic \/ settle \/ Database \/ dbResult \/ Reply \/ answer \/ Callback

Next == Build \/ run \/ System \/ crash

Spec == Init /\ [][Next]_vars

\* The task managers' threads and the database thread keep draining queues.
FairSpec == Spec /\ WF_vars(System)

-----------------------------------------------------------------------------
TypeOK ==
    /\ stage \in {"build", "logic", "settled", "empty", "crashed"}
    /\ syncType \in SyncTypes
    /\ returnType \in {"Succ", "FailLogic", "FailTransation"}
    /\ objects \subseteq Objects /\ changed \subseteq objects
    /\ objectThds \in [Objects -> Managers \cup {NoManager}]
    /\ pending \in [Managers -> 0..MaxTasks]
    /\ dispose \in BOOLEAN
    /\ dbTasks \in 0..MaxTasks
    /\ callbacks \subseteq Lists \X Managers
    /\ dbTx \in {"none", "open", "committed", "aborted", "reported"}
    /\ written \subseteq changed /\ rows \subseteq changed
    /\ origins \subseteq changed
    /\ post \in {"none", "writing", "answered", "failed"}
    /\ writeBacks \subseteq Managers
    /\ queued \subseteq Lists \X Managers \X BOOLEAN
    /\ ran \subseteq Lists \X Managers \X BOOLEAN

\* Changed objects whose owner was in a room when they were acquired.
Owned == {o \in changed : objectThds[o] \in Managers}

Told(verdict) == \E c \in queued \cup ran : c[3] = verdict

\* Whatever the database and the server do, the rows of the unit are all old
\* or all new, a crash between two statements included.
AllOrNothing == rows \in {{}, changed}

\* When a success callback is queued, every owned object shows its new value
\* in memory; under the default sync type every row does too.
SuccessIsTrue ==
    Told(TRUE) =>
        /\ stage # "crashed" => Owned \subseteq origins
        /\ syncType = Async => rows = changed

\* When a failure callback is queued, neither a row nor an object in memory
\* has changed, and no success was or will be reported.
FailureIsClean ==
    Told(FALSE) => /\ rows = {} /\ origins = {}
                   /\ ~ Told(TRUE) /\ post \notin {"writing", "answered"}

\* Under the default sync type memory never shows what the database does not
\* hold: a restart at any step loses no change a player has seen.
MemoryFollowsRows == syncType = Async => origins \subseteq rows

\* The busy gate opens only when nothing of this transaction is still to be
\* written: a request admitted by an idle BusyState never clones an object
\* this transaction is about to overwrite.
BusyUntilSettled ==
    ~ Busy => /\ writeBacks = {}
              /\ dbTx \in {"none", "reported"}
              /\ post = "answered" => Owned \subseteq origins

\* A callback registered before run is told one verdict and told it once,
\* unless the server stops; until then its caller waits.
EveryoneIsAnswered ==
    \A m \in Managers :
        (stage = "logic" /\ <<"result", m>> \in callbacks)
            ~> (\/ stage = "crashed"
                \/ \E v \in BOOLEAN : <<"result", m, v>> \in ran)

-----------------------------------------------------------------------------
(* The unit of work this transaction implements under the default sync     *)
(* type, when every object has an owner in a room.                         *)
Decision ==
    IF stage = "crashed" THEN "crashed"
    ELSE IF returnType # "Succ" \/ dbTx = "aborted" THEN "abort"
    ELSE IF dbTx = "committed" \/ post # "none" THEN "commit"
    ELSE "open"

Verdict(c) == IF c[3] THEN "success" ELSE "failure"

Unit == INSTANCE UnitOfWork WITH
            unit <- changed, decision <- Decision, members <- origins,
            told <- {Verdict(c) : c \in ran}

\* Each step of the transaction is a step of the unit of work or no step.
ImplementsUnitOfWork == Unit!Spec
=============================================================================
