--------------------------- MODULE CacheTxProofs ---------------------------
(***************************************************************************)
(* Proofs about CacheTx for every set of managers and objects.  IInv says, *)
(* for each phase of a transaction, what rows, originals and callbacks     *)
(* hold; the safety properties of CacheTx are read off it, and so is the   *)
(* refinement of UnitOfWork.                                               *)
(***************************************************************************)
EXTENDS CacheTx, TLAPS

\* Until the logic phase is over nothing has left the transaction.
Untouched ==
    stage \in {"build", "logic", "empty"} =>
        /\ dbTx = "none" /\ post = "none" /\ returnType = "Succ"
        /\ written = {} /\ rows = {} /\ origins = {}
        /\ queued = {} /\ ran = {}

\* The rows and the originals are a function of the two outcomes.
Placement ==
    stage = "settled" =>
        /\ rows = IF dbTx = "committed"
                     \/ (dbTx = "reported" /\ returnType = "Succ")
                  THEN changed ELSE {}
        /\ origins = IF post \in {"writing", "answered"}
                     THEN {o \in changed : objectThds[o] \in Managers \ writeBacks}
                     ELSE {}

\* Which outcomes go together.
Outcomes ==
    stage = "settled" =>
        /\ post = "none" => /\ syncType = Async
                            /\ dbTx \in {"open", "committed", "aborted"}
        /\ post = "failed" => /\ returnType # "Succ"
                              /\ syncType # Async => returnType = "FailLogic"
        /\ returnType = "FailLogic" => dbTx = "none" /\ post = "failed"
        /\ returnType = "FailTransation" => dbTx = "reported"
        /\ dbTx = "aborted" => rows = {}
        /\ syncType = Async =>
              /\ dbTx \in {"open", "committed", "aborted"} => post = "none"
              /\ post \in {"writing", "answered"} =>
                    rows = changed /\ returnType = "Succ"

\* Callbacks are queued by the step that decides, and by no other.
Verdicts ==
    stage = "settled" =>
        /\ Told(TRUE) => post = "answered"
        /\ Told(FALSE) => post = "failed"

\* What a crash leaves behind.
AfterCrash ==
    stage = "crashed" =>
        /\ dbTx = "none" /\ post = "none" /\ queued = {}
        /\ rows \in {{}, changed} /\ origins = rows
        /\ Told(TRUE) /\ syncType = Async => rows = changed
        /\ Told(FALSE) => rows = {} /\ ~ Told(TRUE)

NoStrayWriteBack == post # "writing" => writeBacks = {}

IInv == /\ TypeOK /\ Untouched /\ Placement /\ Outcomes /\ Verdicts
        /\ AfterCrash /\ NoStrayWriteBack

-----------------------------------------------------------------------------
USE CacheTxAssumption DEF CacheTxAssumption, Async, ETxSyncType, Lists

\* A new transaction satisfies the invariant.
LEMMA InitIInv == Init => IInv
  <1> SUFFICES ASSUME Init PROVE IInv
    OBVIOUS
  <1>1. TypeOK
    <2>1. MaxTasks \in Nat /\ Async \in SyncTypes
      BY CacheTxAssumption
    <2>2. 0 \in 0..MaxTasks
      BY <2>1
    <2>3. dispose \in BOOLEAN /\ syncType \in SyncTypes
      BY <2>1 DEF Init
    <2>4. /\ objectThds \in [Objects -> Managers \cup {NoManager}]
          /\ pending \in [Managers -> 0..MaxTasks]
      BY <2>2 DEF Init
    <2>5. QED
      BY <2>2, <2>3, <2>4 DEF Init, TypeOK
  <1>2. Untouched /\ NoStrayWriteBack
    BY DEF Init, Untouched, NoStrayWriteBack
  <1>3. Placement /\ Outcomes /\ Verdicts /\ AfterCrash
    BY DEF Init, Placement, Outcomes, Verdicts, AfterCrash
  <1>4. QED
    BY <1>1, <1>2, <1>3 DEF IInv

\* The closures queued for a list carry its name and the verdict.
LEMMA ClosuresType ==
    ASSUME NEW list \in Lists, NEW v \in BOOLEAN
    PROVE  /\ Closures(list, v) \subseteq Lists \X Managers \X BOOLEAN
           /\ \A c \in Closures(list, v) : c[3] = v
  <1> SUFFICES ASSUME NEW c \in Closures(list, v)
               PROVE  c \in Lists \X Managers \X BOOLEAN /\ c[3] = v
    OBVIOUS
  <1>1. PICK m \in Managers : c = <<list, m, v>>
    BY DEF Closures
  <1>2. QED
    BY <1>1

\* Failing tasks tell no success.
LEMMA FailTasksTell ==
    ASSUME TypeOK, runFailTasks, ran' = ran, ~ Told(TRUE)
    PROVE  /\ queued' \subseteq Lists \X Managers \X BOOLEAN
           /\ ~ Told(TRUE)'
  <1>1. \A list \in Lists : Closures(list, FALSE) \subseteq
                               Lists \X Managers \X BOOLEAN
    BY ClosuresType
  <1>2. \A list \in Lists : \A c \in Closures(list, FALSE) : c[3] # TRUE
    BY ClosuresType
  <1>3. queued' \subseteq Lists \X Managers \X BOOLEAN
    BY <1>1 DEF runFailTasks, TypeOK
  <1>4. \A c \in queued' \cup ran' : c[3] # TRUE
    BY <1>2 DEF runFailTasks, Told
  <1>5. QED
    BY <1>3, <1>4 DEF Told

\* Filling a transaction touches nothing a thread can see.
LEMMA BuildIInv == IInv /\ Build => IInv'
  <1> SUFFICES ASSUME IInv, Build PROVE IInv'
    OBVIOUS
  <1> USE DEF IInv, TypeOK, Untouched, Placement, Outcomes, Verdicts,
              AfterCrash, NoStrayWriteBack, Told, dbVars, postVars
  <1>1. ASSUME NEW type \in SyncTypes, setSyncType(type) PROVE IInv'
    BY <1>1 DEF setSyncType
  <1>2. ASSUME NEW o \in Objects, NEW source \in Sources,
               acquireObject(o, source)
        PROVE  IInv'
    BY <1>2 DEF acquireObject
  <1>3. ASSUME NEW o \in Objects, changeCopy(o) PROVE IInv'
    BY <1>3 DEF changeCopy
  <1>4. ASSUME NEW m \in Managers, pushTask(m) PROVE IInv'
    BY <1>4 DEF pushTask, buildVars
  <1>5. CASE pushDbTask
    BY <1>5 DEF pushDbTask
  <1>6. ASSUME NEW list \in Lists, NEW m \in Managers, ifCallback(list, m)
        PROVE  IInv'
    BY <1>6 DEF ifCallback
  <1>7. QED
    BY <1>1, <1>2, <1>3, <1>4, <1>5, <1>6 DEF Build

\* The logic phase and the step that ends it.
LEMMA LogicIInv == IInv /\ (run \/ Logic \/ settle) => IInv'
  <1> SUFFICES ASSUME IInv, run \/ Logic \/ settle PROVE IInv'
    OBVIOUS
  <1> USE DEF IInv, TypeOK, Untouched, Placement, Outcomes, Verdicts,
              AfterCrash, NoStrayWriteBack, Told, dbVars, postVars, buildVars
  <1>1. CASE run
    BY <1>1 DEF run
  <1>2. ASSUME NEW m \in Managers, NEW ok \in BOOLEAN, runTask(m, ok)
        PROVE  IInv'
    BY <1>2 DEF runTask
  <1>3. CASE settle
    <2>1. CASE dispose
      <3>1. ~ Told(TRUE)' /\ queued' \subseteq Lists \X Managers \X BOOLEAN
        BY <1>3, <2>1, FailTasksTell DEF settle
      <3> HIDE DEF Told
      <3>2. TypeOK' /\ NoStrayWriteBack' /\ Untouched'
        BY <1>3, <2>1, <3>1 DEF settle, runFailTasks
      <3>3. Placement' /\ Outcomes' /\ Verdicts' /\ AfterCrash'
        BY <1>3, <2>1, <3>1 DEF settle, runFailTasks
      <3>4. QED
        BY <3>2, <3>3
    <2>2. CASE ~ dispose /\ syncType = Async /\ ~ NoDbWork
      BY <1>3, <2>2 DEF settle
    <2>3. CASE ~ dispose /\ ~ (syncType = Async /\ ~ NoDbWork)
      BY <1>3, <2>3 DEF settle, runPost, dispatchWriteBacks, NoDbWork
    <2>4. QED
      BY <2>1, <2>2, <2>3
  <1>4. QED
    BY <1>1, <1>2, <1>3 DEF Logic

\* The database thread and the report of its outcome.
LEMMA DatabaseIInv == IInv /\ (Database \/ dbResult) => IInv'
  <1> SUFFICES ASSUME IInv, Database \/ dbResult PROVE IInv'
    OBVIOUS
  <1> USE DEF IInv, TypeOK, Untouched, Placement, Outcomes, Verdicts,
              AfterCrash, NoStrayWriteBack, Told, dbVars, postVars, buildVars
  <1>1. CASE runDbTask
    BY <1>1 DEF runDbTask
  <1>2. ASSUME NEW o \in Objects, execute(o) PROVE IInv'
    BY <1>2 DEF execute
  <1>3. CASE commit
    BY <1>3 DEF commit
  <1>4. CASE rollback
    BY <1>4 DEF rollback
  <1>5. CASE dbResult
    <2>1. CASE syncType = Async /\ dbTx = "aborted"
      <3>1. runFailTasks /\ ~ Told(TRUE)
        BY <1>5, <2>1 DEF dbResult, runPost
      <3>2. ~ Told(TRUE)' /\ queued' \subseteq Lists \X Managers \X BOOLEAN
        BY <1>5, <3>1, FailTasksTell DEF dbResult
      <3> HIDE DEF Told
      <3>3. TypeOK'
        <4>1. /\ dbTasks' = 0 /\ callbacks' = {} /\ post' = "failed"
              /\ dbTx' = "reported" /\ returnType' = "FailTransation"
              /\ writeBacks' = writeBacks
          BY <1>5, <2>1, <3>1 DEF dbResult, runFailTasks
        <4>2. UNCHANGED <<stage, syncType, objects, changed, objectThds,
                          pending, dispose, written, rows, origins, ran>>
          BY <1>5 DEF dbResult
        <4>3. QED
          BY <3>2, <4>1, <4>2
      <3>4. NoStrayWriteBack'
        BY <1>5, <2>1, <3>1, <3>2 DEF dbResult, runFailTasks
      <3>5. Untouched'
        BY <1>5, <2>1, <3>1, <3>2 DEF dbResult, runFailTasks
      <3>6. Placement' /\ Outcomes' /\ Verdicts' /\ AfterCrash'
        BY <1>5, <2>1, <3>1, <3>2 DEF dbResult, runFailTasks
      <3>7. QED
        BY <3>3, <3>4, <3>5, <3>6
    <2>2. CASE syncType = Async /\ dbTx = "committed"
      BY <1>5, <2>2 DEF dbResult, runPost, dispatchWriteBacks
    <2>3. CASE syncType # Async
      BY <1>5, <2>3 DEF dbResult
    <2>4. QED
      BY <1>5, <2>1, <2>2, <2>3 DEF dbResult
  <1>6. QED
    BY <1>1, <1>2, <1>3, <1>4, <1>5 DEF Database

\* The write-backs, the answer, the callbacks and the crash.
LEMMA ReplyIInv == IInv /\ (Reply \/ answer \/ Callback \/ crash) => IInv'
  <1> SUFFICES ASSUME IInv, Reply \/ answer \/ Callback \/ crash PROVE IInv'
    OBVIOUS
  <1> USE DEF IInv, TypeOK, Untouched, Placement, Outcomes, Verdicts,
              AfterCrash, NoStrayWriteBack, Told, dbVars, postVars, buildVars
  <1>1. ASSUME NEW m \in Managers, writeBack(m) PROVE IInv'
    BY <1>1 DEF writeBack
  <1>2. CASE answer
    BY <1>2, ClosuresType DEF answer
  <1>3. ASSUME NEW c \in queued, runCallback(c) PROVE IInv'
    BY <1>3 DEF runCallback
  <1>4. CASE crash
    BY <1>4 DEF crash
  <1>5. QED
    BY <1>1, <1>2, <1>3, <1>4 DEF Reply, Callback

\* IInv is an inductive invariant of the transaction.
THEOREM Invariance == Spec => []IInv
  <1>1. Init => IInv
    BY InitIInv
  <1>2. IInv /\ [Next]_vars => IInv'
    <2>1. IInv /\ UNCHANGED vars => IInv'
      BY DEF vars, IInv, TypeOK, Untouched, Placement, Outcomes, Verdicts,
             AfterCrash, NoStrayWriteBack, Told
    <2>2. QED
      BY <2>1, BuildIInv, LogicIInv, DatabaseIInv, ReplyIInv DEF Next, System
  <1>3. QED
    BY <1>1, <1>2, PTL DEF Spec

-----------------------------------------------------------------------------
(* What a reader of CacheTx relies on.                                     *)

\* The type invariant, for every set of managers, objects and sync types.
THEOREM TypeCorrect == Spec => []TypeOK
  BY Invariance, PTL DEF IInv

\* No failure of a logic task, a statement, the commit or the server leaves
\* some rows of a transaction new and others old.
THEOREM Atomicity == Spec => []AllOrNothing
  <1>1. IInv => AllOrNothing
    BY DEF IInv, TypeOK, Untouched, Placement, AfterCrash, AllOrNothing
  <1>2. QED
    BY <1>1, Invariance, PTL

\* A success callback reports what memory and, under the default sync type,
\* the database hold.
THEOREM SuccessReported == Spec => []SuccessIsTrue
  <1>1. IInv => SuccessIsTrue
    <2> SUFFICES ASSUME IInv, Told(TRUE)
                 PROVE  /\ stage # "crashed" => Owned \subseteq origins
                        /\ syncType = Async => rows = changed
      BY DEF SuccessIsTrue
    <2>1. stage \in {"settled", "crashed"}
      BY DEF IInv, TypeOK, Untouched, Told
    <2>2. CASE stage = "settled"
      BY <2>2 DEF IInv, Placement, Outcomes, Verdicts, NoStrayWriteBack, Owned
    <2>3. CASE stage = "crashed"
      BY <2>3 DEF IInv, AfterCrash
    <2>4. QED
      BY <2>1, <2>2, <2>3
  <1>2. QED
    BY <1>1, Invariance, PTL

\* A failure callback reports a transaction that changed nothing.
THEOREM FailureReported == Spec => []FailureIsClean
  <1>1. IInv => FailureIsClean
    <2> SUFFICES ASSUME IInv, Told(FALSE)
                 PROVE  /\ rows = {} /\ origins = {}
                        /\ ~ Told(TRUE) /\ post \notin {"writing", "answered"}
      BY DEF FailureIsClean
    <2>1. stage \in {"settled", "crashed"}
      BY DEF IInv, TypeOK, Untouched, Told
    <2>2. CASE stage = "settled"
      <3>1. post = "failed" /\ ~ Told(TRUE)
        BY <2>2 DEF IInv, Verdicts
      <3>2. rows = {} /\ origins = {}
        BY <2>2, <3>1 DEF IInv, TypeOK, Placement, Outcomes
      <3>3. QED
        BY <3>1, <3>2
    <2>3. CASE stage = "crashed"
      BY <2>3 DEF IInv, AfterCrash
    <2>4. QED
      BY <2>1, <2>2, <2>3
  <1>2. QED
    BY <1>1, Invariance, PTL

\* Memory never runs ahead of the database under the default sync type.
THEOREM MemoryBehind == Spec => []MemoryFollowsRows
  <1>1. IInv => MemoryFollowsRows
    BY DEF IInv, TypeOK, Untouched, Placement, Outcomes, AfterCrash,
           MemoryFollowsRows
  <1>2. QED
    BY <1>1, Invariance, PTL

\* A transaction that no longer holds the busy state has nothing left to
\* write, which is what the packet gate relies on.
THEOREM BusyGate == Spec => []BusyUntilSettled
  <1>1. IInv => BusyUntilSettled
    BY DEF IInv, TypeOK, Untouched, Placement, Outcomes, AfterCrash,
           NoStrayWriteBack, BusyUntilSettled, Busy, Owned
  <1>2. QED
    BY <1>1, Invariance, PTL

-----------------------------------------------------------------------------
(* A transaction of the default sync type, all of whose objects have an    *)
(* owner in a room, implements UnitOfWork.                                 *)

\* Every acquired object is recorded under the manager of its room, and the
\* sync type is the one the constructor sets.
AllOwned ==
    /\ \A o \in objects : objectThds[o] \in Managers
    /\ syncType = Async

\* The invariant the refinement steps use.
RInv == IInv /\ AllOwned

InRooms == SyncTypes = {Async} /\ Sources = Managers

\* RInv is inductive when callers use the default type and are in rooms.
LEMMA RInvariance == ASSUME InRooms PROVE Spec => []RInv
  <1>1. Init => AllOwned
    BY DEF Init, AllOwned
  <1>2. IInv /\ AllOwned /\ [Next]_vars
            => AllOwned'
    <2> SUFFICES ASSUME IInv, AllOwned, [Next]_vars
                 PROVE  AllOwned'
      OBVIOUS
    <2>1. ASSUME NEW o \in Objects, NEW source \in Sources,
                 acquireObject(o, source)
          PROVE  AllOwned'
      BY <2>1 DEF acquireObject, AllOwned, IInv, TypeOK, InRooms
    <2>2. ASSUME NEW type \in SyncTypes, setSyncType(type)
          PROVE  AllOwned'
      BY <2>2 DEF setSyncType, AllOwned, InRooms
    <2>3. ASSUME UNCHANGED <<syncType, objects, objectThds>>
          PROVE  AllOwned'
      BY <2>3 DEF AllOwned
    <2>4. CASE Build
      BY <2>1, <2>2, <2>3, <2>4
         DEF Build, changeCopy, pushTask, pushDbTask, ifCallback, buildVars
    <2>5. CASE run \/ Logic \/ settle \/ Database \/ dbResult
      BY <2>3, <2>5 DEF run, Logic, runTask, settle, Database, runDbTask,
                        execute, commit, rollback, dbResult, buildVars
    <2>6. CASE Reply \/ answer \/ Callback \/ crash
      BY <2>3, <2>6 DEF Reply, writeBack, answer, Callback, runCallback, crash,
                        buildVars
    <2>7. CASE UNCHANGED vars
      BY <2>3, <2>7 DEF vars
    <2>8. QED
      BY <2>4, <2>5, <2>6, <2>7 DEF Next, System
  <1>3. QED
    BY <1>1, <1>2, Invariance, PTL DEF Spec, RInv

-----------------------------------------------------------------------------
\* While a transaction is filled or runs its logic, the unit is open.
LEMMA OpenUnit ==
    ASSUME RInv, stage \in {"build", "logic", "empty"} PROVE Decision = "open"
  BY DEF RInv, IInv, Untouched, Decision

\* Acquiring and changing objects enlists them, or is no step of the unit.
LEMMA BuildRefines == RInv /\ Build => [Unit!Next]_(Unit!vars)
  <1> SUFFICES ASSUME RInv, Build PROVE [Unit!Next]_(Unit!vars)
    OBVIOUS
  <1>1. ASSUME NEW o \in Objects, changeCopy(o) PROVE Unit!Enlist(o)
    BY <1>1, OpenUnit DEF changeCopy, dbVars, postVars, Unit!Enlist, Decision
  <1>2. ASSUME UNCHANGED <<stage, changed, dbVars, postVars>>
        PROVE  UNCHANGED Unit!vars
    BY <1>2 DEF dbVars, postVars, Unit!vars, Decision
  <1>3. QED
    BY <1>1, <1>2 DEF Build, setSyncType, acquireObject, pushTask, pushDbTask,
                      ifCallback, buildVars, Unit!Next

\* The end of the logic phase aborts the unit, commits an empty one, or
\* leaves the decision to the database.
LEMMA LogicRefines == RInv /\ (run \/ Logic \/ settle) => [Unit!Next]_(Unit!vars)
  <1> SUFFICES ASSUME RInv, run \/ Logic \/ settle
               PROVE  [Unit!Next]_(Unit!vars)
    OBVIOUS
  <1>1. CASE run \/ Logic
    BY <1>1, OpenUnit DEF RInv, IInv, Untouched, run, Logic, runTask, buildVars,
                dbVars, postVars, Unit!vars, Decision
  <1>2. CASE settle /\ dispose
    <2>1. Decision = "open" /\ Decision' = "abort"
      BY <1>2, OpenUnit DEF settle, Decision
    <2>2. Unit!Abort
      BY <1>2, <2>1 DEF settle, Unit!Abort, RInv, IInv, Untouched
    <2>3. QED
      BY <2>2 DEF Unit!Next
  <1>3. CASE settle /\ ~ dispose /\ NoDbWork
    <2>1. rows = {} /\ changed = {} /\ dbTx = "none" /\ returnType = "Succ"
      BY <1>3 DEF settle, NoDbWork, RInv, IInv, TypeOK, Untouched
    <2>2. post' = "writing" /\ UNCHANGED <<returnType, dbTx, changed, rows, origins, ran>>
      BY <1>3, <2>1 DEF settle, runPost, dispatchWriteBacks
    <2>3. Decision = "open" /\ Decision' = "commit"
      BY <1>3, <2>1, <2>2, OpenUnit DEF settle, Decision
    <2>4. Unit!Commit
      BY <2>1, <2>2, <2>3 DEF Unit!Commit
    <2>5. QED
      BY <2>4 DEF Unit!Next
  <1>4. CASE settle /\ ~ dispose /\ ~ NoDbWork
    <2>1. syncType = Async /\ post = "none" /\ returnType = "Succ"
      BY <1>4 DEF settle, RInv, AllOwned, IInv, Untouched
    <2>2. /\ dbTx' = "open" /\ stage' = "settled"
          /\ UNCHANGED <<returnType, post, changed, rows, origins, ran>>
      BY <1>4, <2>1 DEF settle, Async
    <2>3. Decision = "open" /\ Decision' = "open"
      BY <1>4, <2>1, <2>2, OpenUnit DEF settle, Decision
    <2>4. QED
      BY <2>2, <2>3 DEF Unit!vars
  <1>5. QED
    BY <1>1, <1>2, <1>3, <1>4

\* The transaction's commit is the unit's, and so is its rollback.
LEMMA DatabaseRefines ==
    RInv /\ (Database \/ dbResult) => [Unit!Next]_(Unit!vars)
  <1> SUFFICES ASSUME RInv, Database \/ dbResult
               PROVE  [Unit!Next]_(Unit!vars)
    OBVIOUS
  <1> USE DEF RInv, AllOwned, IInv, TypeOK, Untouched, Outcomes, AfterCrash
  <1>1. CASE runDbTask \/ \E o \in Objects : execute(o)
    BY <1>1 DEF runDbTask, execute, buildVars, dbVars, postVars, Unit!vars,
                Decision
  <1>2. ASSUME dbTx = "open"
        PROVE  stage = "settled" /\ post = "none" /\ returnType = "Succ"
    BY <1>2
  <1>3. CASE commit
    <2>1. Decision = "open" /\ Decision' = "commit"
      BY <1>2, <1>3 DEF commit, postVars, Decision
    <2>2. Unit!Commit
      BY <1>3, <2>1 DEF commit, postVars, buildVars, Unit!Commit
    <2>3. QED
      BY <2>2 DEF Unit!Next
  <1>4. CASE rollback
    <2>1. Decision = "open" /\ Decision' = "abort"
      BY <1>2, <1>4 DEF rollback, postVars, Decision
    <2>2. Unit!Abort
      BY <1>4, <2>1 DEF rollback, postVars, buildVars, Unit!Abort
    <2>3. QED
      BY <2>2 DEF Unit!Next
  <1>5. CASE dbResult
    <2>1. /\ stage = "settled" /\ post = "none" /\ returnType = "Succ"
          /\ UNCHANGED <<stage, changed, rows, origins, ran>>
      BY <1>5 DEF dbResult
    <2>2. CASE dbTx = "committed"
      <3>1. returnType' = "Succ" /\ post' = "writing" /\ dbTx' = "reported"
        BY <1>5, <2>1, <2>2 DEF dbResult, runPost, dispatchWriteBacks
      <3>2. Decision = "commit" /\ Decision' = "commit"
        BY <2>1, <2>2, <3>1 DEF Decision
      <3>3. QED
        BY <2>1, <3>2 DEF Unit!vars
    <2>3. CASE dbTx = "aborted"
      <3>1. returnType' = "FailTransation"
        BY <1>5, <2>3 DEF dbResult
      <3>2. Decision = "abort" /\ Decision' = "abort"
        BY <2>1, <2>3, <3>1 DEF Decision
      <3>3. QED
        BY <2>1, <3>2 DEF Unit!vars
    <2>4. QED
      BY <1>5, <2>2, <2>3 DEF dbResult
  <1>6. QED
    BY <1>1, <1>3, <1>4, <1>5 DEF Database

\* Writing back publishes objects, callbacks tell, and a crash crashes.
LEMMA ReplyRefines ==
    RInv /\ (Reply \/ answer \/ Callback \/ crash) => [Unit!Next]_(Unit!vars)
  <1> SUFFICES ASSUME RInv, Reply \/ answer \/ Callback \/ crash
               PROVE  [Unit!Next]_(Unit!vars)
    OBVIOUS
  <1> USE DEF RInv, AllOwned, IInv, TypeOK, Untouched, Outcomes, AfterCrash,
              NoStrayWriteBack
  <1>1. ASSUME NEW m \in Managers, writeBack(m)
        PROVE  [Unit!Next]_(Unit!vars)
    <2>1. stage = "settled" /\ post = "writing" /\ returnType = "Succ"
      BY <1>1 DEF writeBack
    <2>2. Decision = "commit" /\ Decision' = "commit"
      BY <1>1, <2>1 DEF writeBack, dbVars, Decision
    <2>3. Unit!Publish({o \in changed : objectThds[o] = m})
      BY <1>1, <2>2 DEF writeBack, dbVars, buildVars, Unit!Publish
    <2>4. QED
      BY <2>3 DEF Unit!Next
  <1>2. CASE answer
    <2>1. UNCHANGED <<stage, dbTx, returnType, changed, rows, origins, ran>>
          /\ post = "writing" /\ post' = "answered"
      BY <1>2 DEF answer, dbVars
    <2>2. UNCHANGED Decision
      BY <2>1 DEF Decision
    <2>3. QED
      BY <2>1, <2>2 DEF Unit!vars
  <1>3. ASSUME NEW c \in queued, runCallback(c)
        PROVE  [Unit!Next]_(Unit!vars)
    <2>1. /\ stage = "settled" /\ ran' = ran \cup {c} /\ c[3] \in BOOLEAN
          /\ UNCHANGED <<stage, dbTx, returnType, post, changed, rows, origins>>
      BY <1>3 DEF runCallback, dbVars, buildVars
    <2>2. UNCHANGED Decision
      BY <2>1 DEF Decision
    <2>3. {Verdict(d) : d \in ran'} = {Verdict(d) : d \in ran} \cup {Verdict(c)}
      BY <2>1
    <2>4. CASE c[3] = TRUE
      <3>1. post = "answered"
        BY <2>1, <2>4 DEF Verdicts, Told
      <3>2. Decision = "commit" /\ rows = changed
        BY <2>1, <3>1 DEF Decision
      <3>3. origins = rows
        BY <2>1, <3>1, <3>2 DEF Placement
      <3>4. Verdict(c) = "success"
        BY <2>4 DEF Verdict
      <3>5. Unit!TellSuccess
        BY <2>1, <2>2, <2>3, <3>2, <3>3, <3>4 DEF Unit!TellSuccess
      <3>6. QED
        BY <3>5 DEF Unit!Next
    <2>5. CASE c[3] = FALSE
      <3>1. post = "failed"
        BY <2>1, <2>5 DEF Verdicts, Told
      <3>2. Decision = "abort"
        BY <2>1, <3>1 DEF Decision
      <3>3. Verdict(c) = "failure"
        BY <2>5 DEF Verdict
      <3>4. Unit!TellFailure
        BY <2>1, <2>2, <2>3, <3>2, <3>3 DEF Unit!TellFailure
      <3>5. QED
        BY <3>4 DEF Unit!Next
    <2>6. QED
      BY <2>1, <2>4, <2>5
  <1>4. CASE crash
    <2>1. Decision # "crashed" /\ Decision' = "crashed"
      BY <1>4 DEF crash, Decision
    <2>2. Unit!Crash
      BY <1>4, <2>1 DEF crash, buildVars, Unit!Crash
    <2>3. QED
      BY <2>2 DEF Unit!Next
  <1>5. QED
    BY <1>1, <1>2, <1>3, <1>4 DEF Reply, Callback

\* A transaction of handlers in rooms, under the default sync type, keeps the
\* promise of the unit of work: one step changes every row, memory follows,
\* and what callbacks are told is true.
THEOREM Refinement == ASSUME InRooms PROVE Spec => ImplementsUnitOfWork
  <1>1. Init => Unit!Init
    BY DEF Init, Unit!Init, Decision
  <1>2. RInv /\ [Next]_vars => [Unit!Next]_(Unit!vars)
    <2>1. RInv /\ UNCHANGED vars => UNCHANGED Unit!vars
      BY DEF vars, Unit!vars, Decision
    <2>2. QED
      BY <2>1, BuildRefines, LogicRefines, DatabaseRefines, ReplyRefines
         DEF Next, System
  <1>3. QED
    BY <1>1, <1>2, RInvariance, PTL DEF Spec, ImplementsUnitOfWork, Unit!Spec
=============================================================================
