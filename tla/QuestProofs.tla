----------------------------- MODULE QuestProofs -----------------------------
(***************************************************************************)
(* Proofs about Quest for any quests, items, conditions and commands.      *)
(*                                                                         *)
(* The properties of Quest speak of the moments between transactions, or   *)
(* of the rows alone.  IInv says what memory and rows hold while           *)
(* transactions are under way: which of them may work on a quest at the    *)
(* same time, what each wants of the quest it has a copy of, and what is   *)
(* still to be written back once it is stored.  Its parts are operators of *)
(* the set T of transactions and the set C of quests commands have had, so *)
(* that a step that only starts or ends one is about those sets.           *)
(***************************************************************************)
EXTENDS Quest, FiniteSetTheorems, TLAPS

States == {"Available", "Progressing", "Completable", "Completed"}

\* A quest that is listed or stored.  A quest without conditions is never in
\* progress, so _validateEnableQuest finds none to push on.
RecOK(q, r) ==
    /\ r = [state |-> r.state, count |-> r.count]
    /\ r.state \in States
    /\ r.state = "Progressing" => Conditions[q] # <<>>

EntryOK(q, r) == r = Absent \/ RecOK(q, r)

DataOK ==
    /\ inRoom \in BOOLEAN
    /\ quests = [q \in Quests |-> quests[q]]
    /\ rows = [q \in Quests |-> rows[q]]
    /\ \A q \in Quests : EntryOK(q, quests[q]) /\ EntryOK(q, rows[q])
    /\ bag \in [Items -> Nat] /\ bagRows \in [Items -> Nat]
    /\ completes \subseteq Quests /\ cheated \subseteq Quests
    /\ paid \in [Quests -> Nat]
    /\ ~inRoom => txs = {} /\ quests = Nothing

CopyOK(q, copy) ==
    /\ copy.crud \in {"Insert", "Update", "Delete"}
    /\ RecOK(q, copy.rec)

TxOK(t) ==
    /\ t = [id |-> t.id, kind |-> t.kind, quest |-> t.quest,
            copies |-> t.copies, items |-> t.items, stage |-> t.stage,
            gate |-> t.gate]
    /\ t.id \in Nat
    /\ t.stage \in {"db", "ok", "written", "told"}
    /\ t.gate \in BOOLEAN
    /\ DOMAIN t.copies \subseteq Quests
    /\ \A q \in DOMAIN t.copies : CopyOK(q, t.copies[q])
    /\ t.kind = "complete" =>
          /\ t.quest \in DOMAIN t.copies
          /\ t.copies[t.quest].crud = "Update"
          /\ t.copies[t.quest].rec.state = "Completed"
    /\ t.stage \in {"written", "told"} => t.kind = "complete"

TxsOK(T) == \A t \in T : TxOK(t)

\* CacheTx objects are different objects, and there are finitely many.
Distinct(T) ==
    /\ IsFiniteSet(T)
    /\ \A t, u \in T : t.id = u.id => t = u

\* The transactions whose copy of q is not written back.
Open(T, q) == {t \in T : t.stage \in {"db", "ok"} /\ q \in DOMAIN t.copies}

\* What the transaction of a handler, or of onQuestComplete, wants of q.
Wants(t, q) ==
    LET copy == t.copies[q] IN
    /\ t.gate
    /\ IF copy.crud = "Insert"
       THEN t.kind = "chain" /\ copy.rec.state # "Completed"
       ELSE quests[q] # Absent /\ quests[q].state # "Completed"
    /\ copy.crud = "Update" /\ copy.rec.state = "Completed" =>
          quests[q].state = "Completable" /\ t.kind = "complete"

\* The row of q is what t stored, and memory what it was before.
Waits(t, q) ==
    LET copy == t.copies[q] IN
    /\ q \notin completes
    /\ rows[q] = IF copy.crud = "Delete" THEN Absent ELSE copy.rec
    /\ copy.crud = "Insert" => quests[q] = Absent

\* Memory has what the row says.
Agree(q) ==
    IF rows[q].state = "Completed"
    THEN q \in completes /\ quests[q] = Absent
    ELSE q \notin completes /\ quests[q] = rows[q]

\* Only inserts overlap on a quest no command has had: the second finds the
\* row of the first.
QuestOK(T, q) ==
    /\ \A t \in Open(T, q) : Wants(t, q)
    /\ \A t, u \in Open(T, q) :
          \/ t = u
          \/ t.copies[q].crud = "Insert" /\ u.copies[q].crud = "Insert"
    /\ \A t, u \in Open(T, q) : t.stage = "ok" /\ u.stage = "ok" => t = u
    /\ \A t \in Open(T, q) : t.stage = "ok" => Waits(t, q)
    /\ (\A t \in Open(T, q) : t.stage = "db") => Agree(q)

QuestsOK(T, C) == inRoom => \A q \in Quests \ C : QuestOK(T, q)

\* A reward is paid by the step that stores the completion.
PaidOK(C) ==
    \A q \in Quests \ C :
        paid[q] <= 1 /\ (paid[q] = 1 => rows[q].state = "Completed")

Clean(C) == {q \in Quests : q \notin C /\ PrevQuest[q] \notin C}

PrevDone(q) == PrevQuest[q] # NoQuest => rows[PrevQuest[q]].state = "Completed"

\* What is stored, or about to be inserted, follows a completed quest.
PrevOK(T, C) ==
    \A q \in Clean(C) :
        /\ rows[q] # Absent => PrevDone(q)
        /\ \A t \in T : q \in DOMAIN t.copies /\ t.copies[q].crud = "Insert"
                            => PrevDone(q)

\* Somebody is still going to list what is enabled and not listed.
Coming(T, q) ==
    \/ \E t \in T : t.stage = "written"
    \/ \E t \in Open(T, q) : t.kind = "chain" /\ t.copies[q].crud = "Insert"

FollowOK(T, C, S) ==
    inRoom => \A q \in Enabled(quests, completes) \cap Clean(C) :
                  q \in S \/ Coming(T, q)

\* The bag has what the rows have, less what is still to be written back.
BagOK(T) ==
    inRoom => \A i \in Items :
        bag[i] + Cardinality({t \in T : t.stage = "ok" /\ i \in t.items})
            = bagRows[i]

HandlesOK ==
    /\ handles = [type \in EIfCondition |-> handles[type]]
    /\ \A type \in EIfCondition : handles[type] \in Int
    /\ checkIfs = NextIfs(quests)
    /\ \A type \in Heard : handles[type] = IF type \in checkIfs THEN 1 ELSE 0

TInv(T, C) ==
    TxsOK(T) /\ Distinct(T) /\ QuestsOK(T, C) /\ PrevOK(T, C) /\ BagOK(T)

IInv ==
    /\ DataOK /\ HandlesOK /\ PaidOK(cheated)
    /\ TInv(txs, cheated) /\ FollowOK(txs, cheated, skipped)

-----------------------------------------------------------------------------
(* Records and sets of transactions.                                       *)

USE DEF States

\* A transaction at another stage.
LEMMA Staged ==
    ASSUME NEW t, TxOK(t), NEW s \in {"db", "ok", "written", "told"},
           s \in {"written", "told"} => t.kind = "complete"
    PROVE  LET u == [t EXCEPT !.stage = s] IN
           /\ TxOK(u) /\ u.stage = s /\ u.id = t.id /\ u.kind = t.kind
           /\ u.quest = t.quest /\ u.copies = t.copies /\ u.items = t.items
           /\ u.gate = t.gate
<1> DEFINE u == [t EXCEPT !.stage = s]
<1>1. u = [id |-> t.id, kind |-> t.kind, quest |-> t.quest,
           copies |-> t.copies, items |-> t.items, stage |-> s, gate |-> t.gate]
  BY DEF TxOK
<1> HIDE DEF u
<1>2. /\ u.stage = s /\ u.id = t.id /\ u.kind = t.kind
      /\ u.quest = t.quest /\ u.copies = t.copies /\ u.items = t.items
  BY <1>1
<1>3. u.gate = t.gate
  BY <1>1
<1>4. u = [id |-> u.id, kind |-> u.kind, quest |-> u.quest,
           copies |-> u.copies, items |-> u.items, stage |-> u.stage,
           gate |-> u.gate]
  BY <1>1, <1>2, <1>3
<1>5. TxOK(u)
  BY <1>2, <1>3, <1>4 DEF TxOK
<1> QED BY <1>2, <1>3, <1>5 DEF u

\* A transaction that has let the gate go.
LEMMA Ungated ==
    ASSUME NEW t, TxOK(t), NEW g \in BOOLEAN
    PROVE  LET u == [t EXCEPT !.gate = g] IN
           /\ TxOK(u) /\ u.stage = t.stage /\ u.id = t.id /\ u.kind = t.kind
           /\ u.copies = t.copies /\ u.items = t.items
<1> DEFINE u == [t EXCEPT !.gate = g]
<1>1. u = [id |-> t.id, kind |-> t.kind, quest |-> t.quest,
           copies |-> t.copies, items |-> t.items, stage |-> t.stage, gate |-> g]
  BY DEF TxOK
<1> HIDE DEF u
<1>2. /\ u.stage = t.stage /\ u.id = t.id /\ u.kind = t.kind
      /\ u.quest = t.quest /\ u.copies = t.copies /\ u.items = t.items
  BY <1>1
<1>3. u.gate = g
  BY <1>1
<1>4. u = [id |-> u.id, kind |-> u.kind, quest |-> u.quest,
           copies |-> u.copies, items |-> u.items, stage |-> u.stage,
           gate |-> u.gate]
  BY <1>1, <1>2, <1>3
<1>5. TxOK(u)
  BY <1>2, <1>3, <1>4 DEF TxOK
<1> QED BY <1>2, <1>5 DEF u

\* Of n + 1 numbers one is the id of none of n transactions.
LEMMA FreeId ==
    ASSUME NEW T, IsFiniteSet(T)
    PROVE  \E n \in 0..Cardinality(T) : \A t \in T : t.id # n
<1> DEFINE N == 0..Cardinality(T)
           ids == {t.id : t \in T}
           f == [t \in T |-> t.id]
<1>1. Cardinality(T) \in Nat
  BY FS_CardinalityType
<1>2. IsFiniteSet(N) /\ Cardinality(N) = Cardinality(T) + 1
  BY <1>1, FS_Interval
<1>3. f \in Surjection(T, ids)
  BY DEF Surjection
<1>4. IsFiniteSet(ids) /\ Cardinality(ids) <= Cardinality(T)
  BY <1>3, FS_Surjection
<1>5. ASSUME N \subseteq ids PROVE FALSE
  <2>1. Cardinality(N) <= Cardinality(ids)
    BY <1>4, <1>5, FS_Subset
  <2>2. Cardinality(ids) \in Nat
    BY <1>4, FS_CardinalityType
  <2> QED BY <1>1, <1>2, <1>4, <2>1, <2>2
<1> QED BY <1>5

\* What CacheTx::run adds.
IsNew(n, kind, q, copies, items, gate) ==
    /\ n = [id |-> n.id, kind |-> n.kind, quest |-> n.quest,
            copies |-> n.copies, items |-> n.items, stage |-> n.stage,
            gate |-> n.gate]
    /\ n.id \in Nat /\ n.kind = kind /\ n.quest = q /\ n.copies = copies
    /\ n.items = items /\ n.stage = "db" /\ n.gate = gate

\* CacheTx::run adds one transaction, with an id of its own.
LEMMA RunIs ==
    ASSUME NEW T, IsFiniteSet(T), NEW kind, NEW q, NEW copies, NEW items,
           NEW gate \in BOOLEAN, run(kind, q, copies, items, gate, T)
    PROVE  \E n : /\ IsNew(n, kind, q, copies, items, gate)
                  /\ \A t \in T : t.id # n.id
                  /\ txs' = T \cup {n}
<1> DEFINE id == CHOOSE n \in 0..Cardinality(T) : \A t \in T : t.id # n
           n == [id |-> id, kind |-> kind, quest |-> q, copies |-> copies,
                 items |-> items, stage |-> "db", gate |-> gate]
<1>1. txs' = T \cup {n}
  BY DEF run
<1>2. id \in 0..Cardinality(T) /\ \A t \in T : t.id # id
  BY FreeId
<1>3. id \in Nat
  BY <1>2, FS_CardinalityType
<1> HIDE DEF id
<1>4. n.id = id /\ IsNew(n, kind, q, copies, items, gate)
  BY <1>3 DEF IsNew
<1> QED BY <1>1, <1>2, <1>4

-----------------------------------------------------------------------------
(* Steps that only start and end transactions.                             *)

\* What the quests commands had not had satisfies, fewer of them do.
LEMMA Grow ==
    ASSUME NEW T, NEW C, NEW D, C \subseteq D, NEW S
    PROVE  /\ TInv(T, C) => TInv(T, D)
           /\ PaidOK(C) => PaidOK(D)
           /\ FollowOK(T, C, S) => FollowOK(T, D, S)
<1>1. Clean(D) \subseteq Clean(C)
  BY DEF Clean
<1>2. TInv(T, C) => TInv(T, D)
  BY <1>1 DEF TInv, QuestsOK, PrevOK
<1>3. PaidOK(C) => PaidOK(D)
  BY DEF PaidOK
<1>4. FollowOK(T, C, S) => FollowOK(T, D, S)
  BY <1>1 DEF FollowOK
<1> QED BY <1>2, <1>3, <1>4

\* A transaction that is not stored, or is written back, beside the others.
LEMMA AddTx ==
    ASSUME NEW T, NEW C, TInv(T, C), NEW n, TxOK(n), n.stage # "ok",
           \A t \in T : t.id # n.id,
           n.stage = "db" /\ inRoom =>
             \A q \in DOMAIN n.copies \ C :
               /\ Wants(n, q)
               /\ \A t \in Open(T, q) : /\ n.copies[q].crud = "Insert"
                                        /\ t.copies[q].crud = "Insert",
           \A q \in Clean(C) :
             q \in DOMAIN n.copies /\ n.copies[q].crud = "Insert" => PrevDone(q)
    PROVE  TInv(T \cup {n}, C)
<1> DEFINE U == T \cup {n}
<1>1. TxsOK(U)
  BY DEF TInv, TxsOK
<1>2. Distinct(U)
  BY FS_AddElement DEF TInv, Distinct
<1>3. ASSUME inRoom, NEW q \in Quests \ C PROVE QuestOK(U, q)
  <2>1. QuestOK(T, q)
    BY <1>3 DEF TInv, QuestsOK
  <2>2. CASE n.stage = "db" /\ q \in DOMAIN n.copies
    <3>1. Open(U, q) = Open(T, q) \cup {n}
      BY <2>2 DEF Open
    <3>2. /\ Wants(n, q)
          /\ \A t \in Open(T, q) : /\ n.copies[q].crud = "Insert"
                                   /\ t.copies[q].crud = "Insert"
      BY <1>3, <2>2
    <3> QED BY <2>1, <2>2, <3>1, <3>2 DEF QuestOK
  <2>3. CASE ~(n.stage = "db" /\ q \in DOMAIN n.copies)
    <3>1. Open(U, q) = Open(T, q)
      BY <2>3 DEF Open
    <3> QED BY <2>1, <3>1 DEF QuestOK
  <2> QED BY <2>2, <2>3
<1>4. QuestsOK(U, C)
  BY <1>3 DEF QuestsOK
<1>5. PrevOK(U, C)
  BY DEF TInv, PrevOK
<1>6. BagOK(U)
  <2>1. \A i \in Items : {t \in U : t.stage = "ok" /\ i \in t.items}
                            = {t \in T : t.stage = "ok" /\ i \in t.items}
    OBVIOUS
  <2> QED BY <2>1 DEF TInv, BagOK
<1> QED BY <1>1, <1>2, <1>4, <1>5, <1>6 DEF TInv

\* A transaction that is not stored, or is written back, ends.
LEMMA RemoveTx ==
    ASSUME NEW T, NEW C, TInv(T, C), NEW t \in T, t.stage # "ok"
    PROVE  TInv(T \ {t}, C)
<1> DEFINE U == T \ {t}
<1>1. TxsOK(U)
  BY DEF TInv, TxsOK
<1>2. Distinct(U)
  BY FS_Subset DEF TInv, Distinct
<1>3. ASSUME inRoom, NEW q \in Quests \ C PROVE QuestOK(U, q)
  <2>1. QuestOK(T, q)
    BY <1>3 DEF TInv, QuestsOK
  <2>2. Open(U, q) = Open(T, q) \ {t}
    BY DEF Open
  <2>3. t \in Open(T, q) => t.stage = "db"
    BY DEF Open
  <2> QED BY <2>1, <2>2, <2>3 DEF QuestOK
<1>4. QuestsOK(U, C)
  BY <1>3 DEF QuestsOK
<1>5. PrevOK(U, C)
  BY DEF TInv, PrevOK
<1>6. BagOK(U)
  <2>1. \A i \in Items : {u \in U : u.stage = "ok" /\ i \in u.items}
                            = {u \in T : u.stage = "ok" /\ i \in u.items}
    OBVIOUS
  <2> QED BY <2>1 DEF TInv, BagOK
<1> QED BY <1>1, <1>2, <1>4, <1>5, <1>6 DEF TInv

\* A step that leaves memory and rows alone.
LEMMA Still ==
    ASSUME NEW T, NEW C, NEW S, UNCHANGED <<inRoom, memVars, dbVars>>
    PROVE  /\ TInv(T, C) => TInv(T, C)'
           /\ HandlesOK => HandlesOK'
           /\ PaidOK(C) => PaidOK(C)'
           /\ FollowOK(T, C, S) => FollowOK(T, C, S)'
<1>1. /\ inRoom' = inRoom /\ quests' = quests /\ completes' = completes
      /\ checkIfs' = checkIfs /\ handles' = handles /\ bag' = bag
      /\ rows' = rows /\ bagRows' = bagRows /\ paid' = paid
  BY DEF memVars, dbVars
<1>2. TInv(T, C) => TInv(T, C)'
  BY <1>1 DEF TInv, TxsOK, Distinct, QuestsOK, QuestOK, Open, Wants, Waits, Agree,
              PrevOK, PrevDone, Clean, BagOK, TxOK, CopyOK, RecOK
<1>3. HandlesOK => HandlesOK'
  BY <1>1 DEF HandlesOK, NextIfs
<1>4. PaidOK(C) => PaidOK(C)'
  BY <1>1 DEF PaidOK
<1>5. FollowOK(T, C, S) => FollowOK(T, C, S)'
  BY <1>1 DEF FollowOK, Coming, Open, Clean, Enabled
<1> QED BY <1>2, <1>3, <1>4, <1>5

\* The invariant after such a step, from what it needs of the transactions.
LEMMA StillInv ==
    ASSUME IInv, UNCHANGED <<inRoom, memVars, dbVars>>,
           cheated \subseteq cheated', cheated' \subseteq Quests,
           inRoom \/ txs' = {}, TInv(txs', cheated'),
           FollowOK(txs', cheated', skipped')
    PROVE  IInv'
<1>1. /\ inRoom' = inRoom /\ quests' = quests /\ completes' = completes
      /\ bag' = bag /\ rows' = rows /\ bagRows' = bagRows /\ paid' = paid
  BY DEF memVars, dbVars
<1>2. DataOK'
  BY <1>1 DEF IInv, DataOK, EntryOK, RecOK, Nothing, Absent
<1>3. HandlesOK'
  BY Still DEF IInv
<1>4. PaidOK(cheated')
  BY Grow DEF IInv
<1>5. PaidOK(cheated)'
  BY <1>4, Still
<1>6. TInv(txs, cheated)'
  BY Still
<1>7. FollowOK(txs, cheated, skipped)'
  BY Still
<1> QED BY <1>2, <1>3, <1>5, <1>6, <1>7 DEF IInv

-----------------------------------------------------------------------------
(* What the handlers and commands put into a transaction.                  *)

\* A quest with no gated transaction and no command is as its row is.
LEMMA Free ==
    ASSUME IInv, inRoom, ~Busy, NEW q \in Quests \ cheated
    PROVE  Open(txs, q) = {} /\ Agree(q)
<1>1. QuestOK(txs, q)
  BY DEF IInv, TInv, QuestsOK
<1>2. Open(txs, q) = {}
  BY <1>1 DEF QuestOK, Wants, Open, Busy
<1> QED BY <1>1, <1>2 DEF QuestOK

\* A transaction's copies are those of one quest.
IsCopy(copies, q, crud, rec) ==
    /\ DOMAIN copies = {q} /\ CopyOK(q, copies[q])
    /\ copies[q].crud = crud /\ copies[q].rec = rec

\* Copy puts one quest into the transaction.
LEMMA CopyIs ==
    ASSUME NEW q, NEW crud \in {"Insert", "Update", "Delete"}, NEW rec,
           RecOK(q, rec)
    PROVE  IsCopy(Copy(q, crud, rec), q, crud, rec)
<1> DEFINE copies == Copy(q, crud, rec)
<1>1. DOMAIN copies = {q} /\ copies[q] = [crud |-> crud, rec |-> rec]
  BY DEF Copy
<1> HIDE DEF copies
<1>2. copies[q].crud = crud /\ copies[q].rec = rec
  BY <1>1
<1>3. CopyOK(q, copies[q])
  BY <1>2 DEF CopyOK
<1>4. IsCopy(copies, q, crud, rec)
  BY <1>1, <1>2, <1>3 DEF IsCopy
<1> QED BY <1>4 DEF copies

\* A listed quest has a record of its own at every other state.
LEMMA RecAt ==
    ASSUME DataOK, NEW q \in Quests, quests[q] # Absent, NEW s \in States,
           s = "Progressing" => Conditions[q] # <<>>
    PROVE  LET r == [quests[q] EXCEPT !.state = s] IN
           RecOK(q, r) /\ r.state = s /\ r.count = quests[q].count
<1>1. quests[q] = [state |-> quests[q].state, count |-> quests[q].count]
  BY DEF DataOK, EntryOK, RecOK
<1>2. [quests[q] EXCEPT !.state = s] = [state |-> s, count |-> quests[q].count]
  BY <1>1
<1> QED BY <1>2 DEF RecOK

\* Fresh is the record of a quest that has no counts yet.
LEMMA FreshOK ==
    ASSUME NEW q, NEW s \in States, s = "Progressing" => Conditions[q] # <<>>
    PROVE  RecOK(q, Fresh(s)) /\ Fresh(s).state = s /\ Fresh(s) # Absent
BY DEF RecOK, Fresh, Absent

\* A quest starts at a state it may have.
LEMMA StartIs ==
    ASSUME NEW q
    PROVE  /\ StartState(q) \in States /\ StartState(q) # "Completed"
           /\ StartState(q) = "Progressing" => Conditions[q] # <<>>
BY DEF StartState

\* An event moves quests in progress, and completes none.
EventOK(copies) ==
    /\ DOMAIN copies \subseteq {p \in Quests : quests[p].state = "Progressing"}
    /\ \A p \in DOMAIN copies : /\ CopyOK(p, copies[p])
                                /\ copies[p].crud = "Update"
                                /\ copies[p].rec.state # "Completed"

\* What an event puts into a transaction.
LEMMA EventIs ==
    ASSUME DataOK, NEW type, NEW items, NEW done \in BOOLEAN
    PROVE  EventOK(broadcast(type, onTaskUpdate(type, items, done)))
<1> DEFINE copies == onTaskUpdate(type, items, done)
<1>1. DOMAIN copies \subseteq {p \in Quests : quests[p].state = "Progressing"}
  BY DEF onTaskUpdate
<1>2. ASSUME NEW p \in DOMAIN copies
      PROVE  /\ CopyOK(p, copies[p]) /\ copies[p].crud = "Update"
             /\ copies[p].rec.state # "Completed"
  <2> DEFINE r == Updated(p, Hits(p, type, items), done)
  <2>1. copies[p] = [crud |-> "Update", rec |-> r]
    BY DEF onTaskUpdate
  <2>2. quests[p].state = "Progressing" /\ quests[p] # Absent
    BY <1>1 DEF Absent
  <2>3. RecOK(p, quests[p])
    BY <1>1, <2>2 DEF DataOK, EntryOK
  <2>4. r = [state |-> r.state, count |-> r.count]
    BY DEF Updated
  <2>5. r.state \in {"Completable", "Progressing"}
    BY <2>2 DEF Updated
  <2>6. Conditions[p] # <<>>
    BY <2>2, <2>3 DEF RecOK
  <2> HIDE DEF r
  <2>7. RecOK(p, r)
    BY <2>4, <2>5, <2>6 DEF RecOK
  <2> QED BY <2>1, <2>5, <2>7 DEF CopyOK
<1>3. EventOK(copies)
  BY <1>1, <1>2 DEF EventOK
<1>4. EventOK(NoCopies)
  BY DEF EventOK, NoCopies
<1> QED BY <1>3, <1>4 DEF broadcast

\* The copies of a completion: the quest's own, and those of an event.
LEMMA CompleteIs ==
    ASSUME DataOK, NEW q \in Quests, quests[q].state = "Completable"
    PROVE  LET copies == completeQuest(q) IN
           /\ q \in DOMAIN copies /\ DOMAIN copies \subseteq Quests
           /\ copies[q].crud = "Update" /\ copies[q].rec.state = "Completed"
           /\ \A p \in DOMAIN copies :
                 /\ CopyOK(p, copies[p]) /\ copies[p].crud = "Update"
                 /\ quests[p] # Absent
                 /\ copies[p].rec.state = "Completed" => p = q
<1> DEFINE copies == completeQuest(q)
           event == onItemAcquire(Rewards[q])
           rec == [quests[q] EXCEPT !.state = "Completed"]
           own == Copy(q, "Update", rec)
<1>1. EventOK(event)
  BY EventIs DEF onItemAcquire
<1>2. copies = [p \in {q} \cup DOMAIN event |-> IF p = q THEN own[q] ELSE event[p]]
  BY DEF completeQuest
<1>3. quests[q] # Absent
  BY DEF Absent
<1>4. RecOK(q, rec) /\ rec.state = "Completed"
  BY <1>3, RecAt
<1> HIDE DEF rec
<1>5. IsCopy(own, q, "Update", rec)
  BY <1>4, CopyIs
<1> HIDE DEF own, event
<1>6. CopyOK(q, own[q]) /\ own[q].crud = "Update" /\ own[q].rec.state = "Completed"
  BY <1>4, <1>5 DEF IsCopy
<1>7. copies[q] = own[q]
  BY <1>2
<1>8. ASSUME NEW p \in DOMAIN copies
      PROVE  /\ CopyOK(p, copies[p]) /\ copies[p].crud = "Update"
             /\ quests[p] # Absent
             /\ copies[p].rec.state = "Completed" => p = q
  <2>1. CASE p = q
    BY <1>3, <1>7, <1>6, <2>1
  <2>2. CASE p # q
    <3>1. p \in DOMAIN event /\ copies[p] = event[p]
      BY <1>2, <2>2
    <3>2. quests[p] # Absent
      BY <1>1, <3>1 DEF EventOK, Absent
    <3> QED BY <1>1, <3>1, <3>2 DEF EventOK
  <2> QED BY <2>1, <2>2
<1>9. q \in DOMAIN copies /\ DOMAIN copies \subseteq Quests
  BY <1>1, <1>2 DEF EventOK
<1> QED BY <1>7, <1>8, <1>9, <1>6

\* A transaction more is no transaction less to list what is enabled.
LEMMA ComingMore ==
    ASSUME NEW T, NEW U, T \subseteq U, NEW C, NEW S,
           FollowOK(T, C, S)
    PROVE  FollowOK(U, C, S)
BY DEF FollowOK, Coming, Open

\* The transaction of a handler, behind the gate.
LEMMA Begin ==
    ASSUME IInv, inRoom, ~Busy, NEW kind, NEW q0, NEW copies, NEW items,
           begin(kind, q0, copies, items, txs),
           UNCHANGED <<inRoom, memVars, dbVars, skipped, cheatVars>>,
           DOMAIN copies \subseteq Quests,
           \A q \in DOMAIN copies :
              /\ CopyOK(q, copies[q])
              /\ copies[q].crud # "Insert"
              /\ quests[q] # Absent
              /\ copies[q].crud = "Update" /\ copies[q].rec.state = "Completed" =>
                    quests[q].state = "Completable" /\ kind = "complete",
           kind = "complete" => /\ q0 \in DOMAIN copies
                                /\ copies[q0].crud = "Update"
                                /\ copies[q0].rec.state = "Completed"
    PROVE  IInv'
<1>1. PICK n : /\ IsNew(n, kind, q0, copies, items, TRUE)
               /\ \A t \in txs : t.id # n.id
               /\ txs' = txs \cup {n}
  <2>1. IsFiniteSet(txs) /\ run(kind, q0, copies, items, TRUE, txs)
    BY DEF IInv, TInv, Distinct, begin
  <2> QED BY <2>1, RunIs
<1>2. TxOK(n)
  BY <1>1 DEF TxOK, IsNew
<1>3. ASSUME NEW q \in DOMAIN n.copies \ cheated
      PROVE  Wants(n, q) /\ Open(txs, q) = {}
  <2>1. q \in Quests \ cheated /\ q \in DOMAIN copies
    BY <1>1 DEF IsNew
  <2>2. Open(txs, q) = {} /\ Agree(q)
    BY <2>1, Free
  <2>3. quests[q].state # "Completed"
    BY <2>1, <2>2 DEF Agree
  <2> QED BY <1>1, <2>1, <2>2, <2>3 DEF Wants, IsNew
<1>4. TInv(txs \cup {n}, cheated)
  <2>1. \A q \in DOMAIN n.copies : n.copies[q].crud # "Insert"
    BY <1>1 DEF IsNew
  <2>2. TInv(txs, cheated) /\ n.stage # "ok"
    BY <1>1 DEF IInv, IsNew
  <2> QED BY <1>1, <1>2, <1>3, <2>1, <2>2, AddTx
<1>5. FollowOK(txs \cup {n}, cheated, skipped)
  BY ComingMore DEF IInv
<1>6. cheated' = cheated /\ skipped' = skipped /\ cheated \subseteq Quests
  BY DEF cheatVars, IInv, DataOK
<1> QED BY <1>1, <1>4, <1>5, <1>6, StillInv

\* The transaction of a command, beside any other.
LEMMA Command ==
    ASSUME IInv, NEW kind, NEW q0, NEW copies, NEW items, NEW gate \in BOOLEAN,
           command(kind, q0, copies, items, gate),
           DOMAIN copies \subseteq Quests,
           \A q \in DOMAIN copies : CopyOK(q, copies[q]),
           kind = "complete" => /\ q0 \in DOMAIN copies
                                /\ copies[q0].crud = "Update"
                                /\ copies[q0].rec.state = "Completed"
    PROVE  IInv'
<1> DEFINE D == cheated \cup DOMAIN copies
<1>1. PICK n : /\ IsNew(n, kind, q0, copies, items, gate)
               /\ \A t \in txs : t.id # n.id
               /\ txs' = txs \cup {n}
  <2>1. IsFiniteSet(txs) /\ run(kind, q0, copies, items, gate, txs)
    BY DEF IInv, TInv, Distinct, command
  <2> QED BY <2>1, RunIs
<1>2. /\ inRoom /\ cheated' = D /\ skipped' = skipped
      /\ UNCHANGED <<inRoom, memVars, dbVars>>
  BY DEF command
<1>3. TxOK(n)
  BY <1>1 DEF TxOK, IsNew
<1>4. TInv(txs, D) /\ FollowOK(txs, D, skipped)
  BY Grow DEF IInv
<1>5. TInv(txs \cup {n}, D)
  <2>1. n.copies = copies /\ n.stage = "db"
    BY <1>1 DEF IsNew
  <2>2. \A q \in Clean(D) : q \notin DOMAIN copies
    BY DEF Clean
  <2> QED BY <1>1, <1>3, <1>4, <2>1, <2>2, AddTx
<1>6. FollowOK(txs \cup {n}, D, skipped)
  BY <1>4, ComingMore
<1>7. D \subseteq Quests
  BY DEF IInv, DataOK
<1> QED BY <1>1, <1>2, <1>5, <1>6, <1>7, StillInv

-----------------------------------------------------------------------------
(* The handlers and the commands.                                          *)

\* QUEST_START_REQ
LEMMA StartReqInv ==
    ASSUME IInv, NEW q \in Quests, startReq(q)
    PROVE  IInv'
<1> DEFINE rec == [quests[q] EXCEPT !.state = StartState(q)]
           copies == Copy(q, "Update", rec)
<1>1. /\ inRoom /\ ~Busy /\ quests[q].state = "Available" /\ quests[q] # Absent
      /\ begin("start", q, copies, {}, txs)
      /\ UNCHANGED <<inRoom, memVars, dbVars, skipped, cheatVars>>
  BY DEF startReq, isStartEnable, startQuest, Absent
<1>2. RecOK(q, rec) /\ rec.state # "Completed"
  BY <1>1, StartIs, RecAt DEF IInv
<1> HIDE DEF rec
<1>3. IsCopy(copies, q, "Update", rec)
  BY <1>2, CopyIs
<1> HIDE DEF copies
<1>4. /\ DOMAIN copies = {q} /\ CopyOK(q, copies[q])
      /\ copies[q].crud = "Update" /\ copies[q].rec.state # "Completed"
  BY <1>2, <1>3 DEF IsCopy
<1> QED BY <1>1, <1>4, Begin

\* QUEST_CANCEL_REQ
LEMMA CancelReqInv ==
    ASSUME IInv, NEW q \in Quests, cancelReq(q)
    PROVE  IInv'
<1> DEFINE copies == Copy(q, "Delete", quests[q])
<1>1. /\ inRoom /\ ~Busy /\ quests[q] # Absent
      /\ begin("cancel", q, copies, {}, txs)
      /\ UNCHANGED <<inRoom, memVars, dbVars, skipped, cheatVars>>
  BY DEF cancelReq, findQuest
<1>2. RecOK(q, quests[q])
  BY <1>1 DEF IInv, DataOK, EntryOK
<1>3. IsCopy(copies, q, "Delete", quests[q])
  BY <1>2, CopyIs
<1> HIDE DEF copies
<1>4. DOMAIN copies = {q} /\ CopyOK(q, copies[q]) /\ copies[q].crud = "Delete"
  BY <1>3 DEF IsCopy
<1> QED BY <1>1, <1>4, Begin

\* QUEST_COMPLETE_REQ
LEMMA CompleteReqInv ==
    ASSUME IInv, NEW q \in Quests, completeReq(q)
    PROVE  IInv'
<1> DEFINE copies == completeQuest(q)
<1>1. /\ inRoom /\ ~Busy /\ quests[q].state = "Completable"
      /\ begin("complete", q, copies, Rewards[q], txs)
      /\ UNCHANGED <<inRoom, memVars, dbVars, skipped, cheatVars>>
  BY DEF completeReq, isCompleteEnable, completion
<1>2. /\ q \in DOMAIN copies /\ DOMAIN copies \subseteq Quests
      /\ copies[q].crud = "Update" /\ copies[q].rec.state = "Completed"
      /\ \A p \in DOMAIN copies :
            /\ CopyOK(p, copies[p]) /\ copies[p].crud = "Update"
            /\ quests[p] # Absent
            /\ copies[p].rec.state = "Completed" => p = q
  BY <1>1, CompleteIs DEF IInv
<1> HIDE DEF copies
<1> QED BY <1>1, <1>2, Begin

\* QUEST_NPC_INTERACTION_REQ
LEMMA InteractReqInv ==
    ASSUME IInv, NEW q \in Quests, NEW item \in Items, interactReq(q, item)
    PROVE  IInv'
<1> DEFINE copies == onInteractionNpc(item)
<1>1. /\ inRoom /\ ~Busy
      /\ begin("interact", q, copies, {}, txs)
      /\ UNCHANGED <<inRoom, memVars, dbVars, skipped, cheatVars>>
  BY DEF interactReq
<1>2. EventOK(copies)
  BY EventIs DEF IInv, onInteractionNpc, DeleteItemByInfoId
<1> HIDE DEF copies
<1>3. \A p \in DOMAIN copies : quests[p] # Absent
  BY <1>2 DEF EventOK, Absent
<1>4. /\ DOMAIN copies \subseteq Quests
      /\ \A p \in DOMAIN copies :
            /\ CopyOK(p, copies[p])
            /\ copies[p].crud = "Update" /\ copies[p].rec.state # "Completed"
  BY <1>2 DEF EventOK
<1> QED BY <1>1, <1>3, <1>4, Begin

\* A command whose transaction has one quest, and does not complete it for
\* its reward.
LEMMA OneQuest ==
    ASSUME IInv, NEW q \in Quests, NEW crud \in {"Insert", "Update"}, NEW rec,
           RecOK(q, rec),
           command("cheat", q, Copy(q, crud, rec), {}, FALSE)
    PROVE  IInv'
<1> DEFINE copies == Copy(q, crud, rec)
<1>1. crud \in {"Insert", "Update", "Delete"}
  OBVIOUS
<1>2. IsCopy(copies, q, crud, rec)
  BY <1>1, CopyIs
<1>3. command("cheat", q, copies, {}, FALSE)
  OBVIOUS
<1> HIDE DEF copies
<1>4. DOMAIN copies = {q} /\ CopyOK(q, copies[q])
  BY <1>2 DEF IsCopy
<1> QED BY <1>3, <1>4, Command

\* The quest commands.
LEMMA CheatQuestInv ==
    ASSUME IInv, NEW q \in Quests, cheatQuest(q)
    PROVE  IInv'
<1>1. ASSUME NEW s \in {"Completed", "Completable"}, findQuest(q)
      PROVE  RecOK(q, [quests[q] EXCEPT !.state = s])
  BY <1>1, RecAt DEF IInv, findQuest
<1>2. CASE cheatStart(q)
  <2> DEFINE rec == Fresh(StartState(q))
  <2>1. RecOK(q, rec)
    BY StartIs, FreshOK
  <2>2. command("cheat", q, Copy(q, "Insert", rec), {}, FALSE)
    BY <1>2 DEF cheatStart, insertQuest
  <2> QED BY <2>1, <2>2, OneQuest
<1>3. CASE cheatComp(q)
  <2> DEFINE copies == completeQuest(q)
  <2>1. quests[q].state = "Completable" /\ command("complete", q, copies, Rewards[q], TRUE)
    BY <1>3 DEF cheatComp, isCompleteEnable
  <2>2. /\ q \in DOMAIN copies /\ DOMAIN copies \subseteq Quests
        /\ copies[q].crud = "Update" /\ copies[q].rec.state = "Completed"
        /\ \A p \in DOMAIN copies : CopyOK(p, copies[p])
    BY <2>1, CompleteIs DEF IInv
  <2> HIDE DEF copies
  <2> QED BY <2>1, <2>2, Command
<1>4. CASE cheatAdd(q)
  <2> DEFINE rec == [quests[q] EXCEPT !.state = "Completed"]
  <2>1. RecOK(q, rec) /\ command("cheat", q, Copy(q, "Update", rec), {}, FALSE)
    BY <1>1, <1>4 DEF cheatAdd
  <2> HIDE DEF rec
  <2> QED BY <2>1, OneQuest
<1>5. CASE cheatDel(q)
  <2> DEFINE rec == [quests[q] EXCEPT !.state = "Completable"]
  <2>1. RecOK(q, rec) /\ command("cheat", q, Copy(q, "Update", rec), {}, FALSE)
    BY <1>1, <1>5 DEF cheatDel
  <2> HIDE DEF rec
  <2> QED BY <2>1, OneQuest
<1> QED BY <1>2, <1>3, <1>4, <1>5 DEF cheatQuest

\* The reward command.
LEMMA CheatDropInv ==
    ASSUME IInv, NEW items \in SUBSET Items, cheatDrop(items)
    PROVE  IInv'
<1> DEFINE copies == onItemAcquire(items)
<1>1. EventOK(copies)
  BY EventIs DEF IInv, onItemAcquire
<1>2. command("cheat", NoQuest, copies, items, FALSE)
  BY DEF cheatDrop
<1> HIDE DEF copies
<1>3. DOMAIN copies \subseteq Quests /\ \A q \in DOMAIN copies : CopyOK(q, copies[q])
  BY <1>1 DEF EventOK
<1> QED BY <1>2, <1>3, Command

-----------------------------------------------------------------------------
(* The transactions: what leaves memory and rows alone.                    *)

\* A transaction is alive only while the player is in the room.
LEMMA InRoom == ASSUME IInv, txs # {} PROVE inRoom
BY DEF IInv, DataOK

\* A transaction that fails.
LEMMA DbFailInv ==
    ASSUME IInv, NEW t \in txs, dbFail(t)
    PROVE  IInv'
<1>1. /\ inRoom /\ t.stage = "db" /\ txs' = txs \ {t} /\ cheated' = cheated
      /\ skipped' = skipped \cup Missed(t)
      /\ UNCHANGED <<inRoom, memVars, dbVars>>
  BY InRoom DEF dbFail, cheatVars
<1>2. TInv(txs \ {t}, cheated)
  BY <1>1, RemoveTx DEF IInv
<1>3. ASSUME NEW q \in Enabled(quests, completes) \cap Clean(cheated)
      PROVE  q \in skipped' \/ Coming(txs \ {t}, q)
  <2>1. q \in Quests /\ q \notin cheated /\ quests[q] = Absent /\ q \notin completes
    BY DEF Enabled, Clean
  <2>2. QuestOK(txs, q)
    BY <1>1, <2>1 DEF IInv, TInv, QuestsOK
  <2>3. q \in skipped \/ Coming(txs, q)
    BY <1>1 DEF IInv, FollowOK
  <2>4. CASE q \in skipped \/ Coming(txs \ {t}, q)
    BY <1>1, <2>4
  <2>5. CASE t \in Open(txs, q) /\ t.kind = "chain" /\ rows[q] = Absent
    BY <1>1, <2>5 DEF Missed, Open
  <2>6. CASE t \in Open(txs, q) /\ t.copies[q].crud = "Insert" /\ rows[q] # Absent
    <3>1. ~Agree(q)
      BY <2>1, <2>6 DEF Agree
    <3>2. PICK u \in Open(txs, q) : u.stage # "db"
      BY <2>2, <3>1 DEF QuestOK
    <3>3. u # t /\ u.copies[q].crud = "Insert" /\ Wants(u, q)
      BY <1>1, <2>2, <2>6, <3>2 DEF QuestOK
    <3>4. u \in Open(txs \ {t}, q) /\ u.kind = "chain"
      BY <3>2, <3>3 DEF Wants, Open
    <3> QED BY <3>3, <3>4 DEF Coming
  <2>7. CASE t.stage = "written"
    BY <1>1, <2>7
  <2>8. Coming(txs, q) => \/ Coming(txs \ {t}, q) \/ t.stage = "written"
                         \/ /\ t \in Open(txs, q) /\ t.kind = "chain"
                            /\ t.copies[q].crud = "Insert"
    BY DEF Coming, Open
  <2> QED BY <2>3, <2>4, <2>5, <2>6, <2>7, <2>8
<1>4. FollowOK(txs', cheated', skipped')
  BY <1>1, <1>3 DEF FollowOK, Enabled, Clean, memVars
<1> QED BY <1>1, <1>2, <1>4, StillInv DEF IInv, DataOK

\* A completion that is written back, at another stage after that or without
\* the gate.
LEMMA After ==
    ASSUME NEW T, NEW C, TInv(T, C), NEW t \in T, NEW u, TxOK(u),
           t.stage \in {"written", "told"}, u.stage \in {"written", "told"},
           u.id = t.id, u.copies = t.copies
    PROVE  TInv((T \ {t}) \cup {u}, C)
<1>1. TInv(T \ {t}, C)
  BY RemoveTx
<1>2. \A v \in T \ {t} : v.id # u.id
  BY DEF TInv, Distinct
<1>3. \A q \in Clean(C) :
         q \in DOMAIN u.copies /\ u.copies[q].crud = "Insert" => PrevDone(q)
  BY DEF TInv, PrevOK
<1> QED BY <1>1, <1>2, <1>3, AddTx

\* A CacheTx that ends lets the gate go.
LEMMA EndTxInv ==
    ASSUME IInv, NEW t \in txs, endTx(t)
    PROVE  IInv'
<1>1. /\ inRoom /\ t.stage \in {"written", "told"}
      /\ cheated' = cheated /\ skipped' = skipped
      /\ UNCHANGED <<inRoom, memVars, dbVars>>
  BY InRoom DEF endTx, cheatVars
<1>2. /\ TInv(txs, cheated) /\ TxOK(t) /\ cheated \subseteq Quests
      /\ FollowOK(txs, cheated, skipped)
  BY DEF IInv, DataOK, TInv, TxsOK
<1>3. CASE t.stage = "told"
  <2>1. txs' = txs \ {t}
    BY <1>3 DEF endTx
  <2>2. TInv(txs \ {t}, cheated)
    BY <1>2, <1>3, RemoveTx
  <2>3. FollowOK(txs \ {t}, cheated, skipped)
    BY <1>2, <1>3 DEF FollowOK, Coming, Open
  <2> QED BY <1>1, <1>2, <2>1, <2>2, <2>3, StillInv
<1>4. CASE t.stage = "written"
  <2> DEFINE u == [t EXCEPT !.gate = FALSE]
             U == (txs \ {t}) \cup {u}
  <2>1. txs' = U
    BY <1>4 DEF endTx
  <2>2. /\ TxOK(u) /\ u.stage = t.stage /\ u.id = t.id /\ u.kind = t.kind
        /\ u.copies = t.copies /\ u.items = t.items
    BY <1>2, Ungated
  <2> HIDE DEF u
  <2>3. TInv(U, cheated)
    BY <1>1, <1>2, <2>2, After
  <2>4. FollowOK(U, cheated, skipped)
    BY <1>4, <2>2 DEF FollowOK, Coming
  <2> QED BY <1>1, <1>2, <2>1, <2>3, <2>4, StillInv
<1> QED BY <1>1, <1>3, <1>4

\* What memory has completed, the rows have: nothing takes a completed quest
\* out of them but a command.
LEMMA DoneIs ==
    ASSUME IInv, inRoom, NEW q \in Quests \ cheated, q \in completes
    PROVE  rows[q].state = "Completed"
<1>1. QuestOK(txs, q)
  BY DEF IInv, TInv, QuestsOK
<1>2. \A t \in Open(txs, q) : t.stage = "db"
  BY <1>1 DEF QuestOK, Waits, Open
<1> QED BY <1>1, <1>2 DEF QuestOK, Agree

\* The success callback of a completion: what it enables is listed at once.
LEMMA ChainInv ==
    ASSUME IInv, NEW t \in txs, chain(t)
    PROVE  IInv'
<1> DEFINE enabled == Enabled(quests, completes)
           copies == [q \in enabled |-> [crud |-> "Insert", rec |-> NewQuest(q)]]
           u == [t EXCEPT !.stage = "told"]
           others == (txs \ {t}) \cup IF t.gate THEN {u} ELSE {}
<1>1. /\ inRoom /\ t.stage = "written"
      /\ cheated' = cheated /\ skipped' = skipped /\ cheated \subseteq Quests
      /\ UNCHANGED <<inRoom, memVars, dbVars>>
      /\ IF enabled = {} THEN txs' = others
         ELSE run("chain", t.quest, copies, {}, TRUE, others)
  BY InRoom DEF chain, begin, cheatVars, IInv, DataOK
<1>2. TInv(txs, cheated) /\ TxOK(t)
  BY DEF IInv, TInv, TxsOK
<1>3. TInv(others, cheated)
  <2>1. CASE ~t.gate
    BY <1>1, <1>2, <2>1, RemoveTx
  <2>2. CASE t.gate
    <3>1. t.kind = "complete"
      BY <1>1, <1>2 DEF TxOK
    <3>2. TxOK(u) /\ u.stage = "told" /\ u.id = t.id /\ u.copies = t.copies
      BY <1>2, <3>1, Staged
    <3> HIDE DEF u
    <3>3. TInv((txs \ {t}) \cup {u}, cheated)
      BY <1>1, <1>2, <3>2, After
    <3> QED BY <2>2, <3>3
  <2> QED BY <2>1, <2>2
<1> HIDE DEF u, others, copies
<1>4. CASE enabled = {}
  <2>1. FollowOK(others, cheated, skipped)
    BY <1>4 DEF FollowOK
  <2> QED BY <1>1, <1>3, <1>4, <2>1, StillInv
<1>5. CASE enabled # {}
  <2>1. PICK n : /\ IsNew(n, "chain", t.quest, copies, {}, TRUE)
                 /\ \A v \in others : v.id # n.id
                 /\ txs' = others \cup {n}
    BY <1>1, <1>3, <1>5, RunIs DEF TInv, Distinct
  <2>2. /\ DOMAIN copies = enabled
        /\ \A q \in enabled : /\ copies[q].crud = "Insert"
                              /\ copies[q].rec = NewQuest(q)
    BY DEF copies
  <2>3. \A q \in enabled : /\ RecOK(q, NewQuest(q))
                           /\ NewQuest(q).state # "Completed"
    BY StartIs, FreshOK DEF NewQuest
  <2>4. TxOK(n)
    <3>1. enabled \subseteq Quests
      BY DEF Enabled
    <3>2. \A q \in enabled : CopyOK(q, copies[q])
      BY <2>2, <2>3 DEF CopyOK
    <3> QED BY <2>1, <2>2, <3>1, <3>2 DEF TxOK, IsNew
  <2>5. ASSUME NEW q \in DOMAIN n.copies \ cheated
        PROVE  /\ Wants(n, q)
               /\ \A v \in Open(others, q) : v.copies[q].crud = "Insert"
    <3>1. q \in enabled /\ q \in Quests \ cheated /\ quests[q] = Absent
      BY <2>1, <2>2 DEF IsNew, Enabled
    <3>2. Wants(n, q)
      BY <2>1, <2>2, <2>3, <3>1 DEF Wants, IsNew
    <3>3. \A v \in Open(others, q) : Wants(v, q)
      BY <1>1, <1>3, <3>1 DEF TInv, QuestsOK, QuestOK
    <3> QED BY <3>1, <3>2, <3>3 DEF Wants
  <2>6. ASSUME NEW q \in Clean(cheated), q \in enabled
        PROVE  PrevDone(q)
    <3>1. PrevQuest[q] \in completes \cup {NoQuest}
      BY <2>6 DEF Enabled
    <3>2. PrevQuest[q] # NoQuest => PrevQuest[q] \in Quests \ cheated
      BY <2>6, QuestAssumption DEF Clean
    <3> QED BY <1>1, <3>1, <3>2, DoneIs DEF PrevDone
  <2>7. TInv(others \cup {n}, cheated)
    <3>1. n.stage # "ok" /\ n.copies = copies
      BY <2>1 DEF IsNew
    <3>2. \A q \in DOMAIN n.copies : n.copies[q].crud = "Insert"
      BY <2>2, <3>1
    <3>3. \A q \in Clean(cheated) : q \in DOMAIN n.copies => PrevDone(q)
      BY <2>2, <2>6, <3>1
    <3> QED BY <1>3, <2>1, <2>4, <2>5, <3>1, <3>2, <3>3, AddTx
  <2>8. FollowOK(others \cup {n}, cheated, skipped)
    BY <2>1, <2>2 DEF FollowOK, Coming, Open, IsNew
  <2> QED BY <1>1, <2>1, <2>7, <2>8, StillInv
<1> QED BY <1>4, <1>5

-----------------------------------------------------------------------------
(* The step that stores a transaction.                                     *)

\* What a transaction stores, no other has stored before it, and the row was
\* not completed.
LEMMA Storing ==
    ASSUME IInv, NEW t \in txs, t.stage = "db", ~Conflict(t),
           NEW q \in DOMAIN t.copies, q \notin cheated
    PROVE  /\ \A v \in Open(txs, q) : v.stage = "db"
           /\ Agree(q) /\ Wants(t, q)
           /\ rows[q].state # "Completed" /\ q \notin completes
           /\ Stored(t, q) = IF t.copies[q].crud = "Delete" THEN Absent
                             ELSE t.copies[q].rec
           /\ t.copies[q].crud = "Insert" => quests[q] = Absent
<1>1. q \in Quests /\ CopyOK(q, t.copies[q])
  BY DEF IInv, TInv, TxsOK, TxOK
<1>2. QuestOK(txs, q) /\ t \in Open(txs, q)
  BY <1>1, InRoom DEF IInv, TInv, QuestsOK, Open
<1>3. ASSUME NEW v \in Open(txs, q), v.stage = "ok" PROVE FALSE
  <2>1. /\ t.copies[q].crud = "Insert" /\ v.copies[q].crud = "Insert"
        /\ Waits(v, q)
    BY <1>2, <1>3 DEF QuestOK
  <2>2. RecOK(q, v.copies[q].rec)
    BY <1>3 DEF Open, IInv, TInv, TxsOK, TxOK, CopyOK
  <2>3. rows[q] # Absent
    BY <2>1, <2>2 DEF Waits, RecOK, Absent
  <2> QED BY <2>1, <2>3 DEF Conflict
<1>4. \A v \in Open(txs, q) : v.stage = "db"
  BY <1>3 DEF Open
<1>5. Agree(q) /\ Wants(t, q)
  BY <1>2, <1>4 DEF QuestOK
<1>6. CASE t.copies[q].crud = "Insert"
  <2>1. rows[q] = Absent
    BY <1>6 DEF Conflict
  <2> QED BY <1>4, <1>5, <1>6, <2>1 DEF Agree, Absent, Stored
<1>7. CASE t.copies[q].crud # "Insert"
  <2>1. quests[q] # Absent
    BY <1>5, <1>7 DEF Wants
  <2>2. rows[q].state # "Completed" /\ rows[q] # Absent /\ q \notin completes
    BY <1>5, <2>1 DEF Agree
  <2> QED BY <1>4, <1>5, <1>7, <2>2 DEF Stored
<1> QED BY <1>6, <1>7

\* The invariant survives the commit.
LEMMA DbCommitInv ==
    ASSUME IInv, NEW t \in txs, dbCommit(t)
    PROVE  IInv'
<1> DEFINE u == [t EXCEPT !.stage = "ok"]
           U == (txs \ {t}) \cup {u}
<1>1. /\ inRoom /\ t.stage = "db" /\ ~Conflict(t) /\ txs' = U
      /\ inRoom' = inRoom /\ quests' = quests /\ completes' = completes
      /\ checkIfs' = checkIfs /\ handles' = handles /\ bag' = bag
      /\ cheated' = cheated /\ skipped' = skipped
  BY InRoom DEF dbCommit, At, memVars, cheatVars
<1>2. /\ rows' = [q \in Quests |->
                    IF q \in DOMAIN t.copies THEN Stored(t, q) ELSE rows[q]]
      /\ bagRows' = [i \in Items |-> bagRows[i] + IF i \in t.items THEN 1 ELSE 0]
      /\ paid' = [q \in Quests |->
                    IF t.kind = "complete" /\ t.quest = q /\ paid[q] < 2
                    THEN paid[q] + 1 ELSE paid[q]]
  BY DEF dbCommit
<1>3. TxOK(t) /\ TInv(txs, cheated) /\ DataOK
  BY DEF IInv, TInv, TxsOK
<1>4. /\ TxOK(u) /\ u.stage = "ok" /\ u.id = t.id /\ u.kind = t.kind
      /\ u.quest = t.quest /\ u.copies = t.copies /\ u.items = t.items
      /\ u.gate = t.gate
  BY <1>3, Staged
<1> HIDE DEF u
<1>5. \A q \in Quests : q \in DOMAIN t.copies \ cheated =>
         /\ \A v \in Open(txs, q) : v.stage = "db"
         /\ Agree(q) /\ Wants(t, q)
         /\ rows[q].state # "Completed" /\ q \notin completes
         /\ rows'[q] = IF t.copies[q].crud = "Delete" THEN Absent
                       ELSE t.copies[q].rec
         /\ t.copies[q].crud = "Insert" => quests[q] = Absent
  BY <1>1, <1>2, Storing
<1>6. \A q \in Quests : q \notin DOMAIN t.copies => rows'[q] = rows[q]
  BY <1>2
<1>7. DataOK'
  <2>1. \A q \in Quests : EntryOK(q, rows'[q])
    <3>1. \A q \in DOMAIN t.copies : EntryOK(q, Stored(t, q))
      BY <1>3 DEF Stored, EntryOK, TxOK, CopyOK
    <3> QED BY <1>2, <1>3, <3>1 DEF DataOK
  <2>2. bagRows' \in [Items -> Nat] /\ paid' \in [Quests -> Nat]
    BY <1>2, <1>3 DEF DataOK
  <2>3. rows' = [q \in Quests |-> rows'[q]]
    BY <1>2
  <2> QED BY <1>1, <1>3, <2>1, <2>2, <2>3 DEF DataOK, EntryOK, RecOK
<1>8. HandlesOK'
  BY <1>1 DEF IInv, HandlesOK, NextIfs
<1>9. PaidOK(cheated)'
  <2>1. ASSUME NEW q \in Quests \ cheated
        PROVE  paid'[q] <= 1 /\ (paid'[q] = 1 => rows'[q].state = "Completed")
    <3>1. /\ paid[q] \in Nat /\ paid[q] <= 1
          /\ paid[q] = 1 => rows[q].state = "Completed"
      BY <1>3 DEF IInv, PaidOK, DataOK
    <3>2. CASE q \notin DOMAIN t.copies
      <4>1. paid'[q] = paid[q]
        BY <1>2, <1>3, <3>2 DEF TxOK
      <4> QED BY <1>6, <3>1, <3>2, <4>1
    <3>3. CASE q \in DOMAIN t.copies
      <4>1. paid[q] = 0
        BY <1>5, <3>1, <3>3
      <4>2. paid'[q] <= 1
        BY <1>2, <4>1
      <4>3. ASSUME paid'[q] = 1 PROVE rows'[q].state = "Completed"
        <5>1. t.kind = "complete" /\ t.quest = q
          BY <1>2, <4>1, <4>3
        <5>2. t.copies[q].crud = "Update" /\ t.copies[q].rec.state = "Completed"
          BY <1>3, <5>1 DEF TxOK
        <5> QED BY <1>5, <3>3, <5>2
      <4> QED BY <4>2, <4>3
    <3> QED BY <3>2, <3>3
  <2> QED BY <1>1, <2>1 DEF PaidOK
<1>10. TxsOK(U) /\ Distinct(U)
  <2>1. TxsOK(U)
    BY <1>3, <1>4 DEF TInv, TxsOK
  <2>2. IsFiniteSet(txs \ {t})
    BY <1>3, FS_Subset DEF TInv, Distinct
  <2>3. IsFiniteSet(U)
    BY <2>2, FS_AddElement
  <2> QED BY <1>3, <1>4, <2>1, <2>3 DEF TInv, Distinct
<1>11. ASSUME NEW q \in Quests \ cheated PROVE QuestOK(txs, q)'
  <2>1. QuestOK(txs, q)
    BY <1>1, <1>3 DEF TInv, QuestsOK
  <2>2. CASE q \notin DOMAIN t.copies
    <3>1. Open(U, q) = Open(txs, q)
      BY <1>4, <2>2 DEF Open
    <3>2. \A v \in Open(U, q) : Wants(v, q)'
      BY <1>1, <2>1, <3>1 DEF QuestOK, Wants
    <3>3. \A v \in Open(U, q) : v.stage = "ok" => Waits(v, q)'
      BY <1>1, <1>6, <2>1, <2>2, <3>1 DEF QuestOK, Waits
    <3>4. (\A v \in Open(U, q) : v.stage = "db") => Agree(q)'
      BY <1>1, <1>6, <2>1, <2>2, <3>1 DEF QuestOK, Agree
    <3>5. /\ \A v, w \in Open(U, q) : \/ v = w
                                      \/ v.copies[q].crud = "Insert"
                                         /\ w.copies[q].crud = "Insert"
          /\ \A v, w \in Open(U, q) : v.stage = "ok" /\ w.stage = "ok" => v = w
      BY <2>1, <3>1 DEF QuestOK
    <3>6. Open(txs, q)' = Open(U, q)
      BY <1>1 DEF Open
    <3> QED BY <3>2, <3>3, <3>4, <3>5, <3>6 DEF QuestOK
  <2>3. CASE q \in DOMAIN t.copies
    <3>1. Open(U, q) = (Open(txs, q) \ {t}) \cup {u} /\ t \in Open(txs, q)
      BY <1>1, <1>4, <2>3 DEF Open
    <3>2. \A v \in Open(txs, q) : v.stage = "db"
      BY <1>5, <2>3
    <3>3. \A v \in Open(U, q) : Wants(v, q)'
      <4>1. \A v \in Open(txs, q) : Wants(v, q)'
        BY <1>1, <2>1 DEF QuestOK, Wants
      <4>2. Wants(u, q)'
        BY <1>4, <3>1, <4>1 DEF Wants
      <4> QED BY <3>1, <4>1, <4>2
    <3>4. Waits(u, q)'
      BY <1>1, <1>4, <1>5, <2>3 DEF Waits
    <3>5. \A v, w \in Open(U, q) : \/ v = w
                                   \/ v.copies[q].crud = "Insert"
                                      /\ w.copies[q].crud = "Insert"
      BY <1>4, <2>1, <3>1 DEF QuestOK
    <3>6. \A v \in Open(U, q) : v.stage = "ok" => v = u
      BY <3>1, <3>2
    <3>7. u \in Open(U, q) /\ u.stage = "ok"
      BY <1>4, <3>1
    <3>8. Open(txs, q)' = Open(U, q)
      BY <1>1 DEF Open
    <3> QED BY <3>3, <3>4, <3>5, <3>6, <3>7, <3>8 DEF QuestOK
  <2> QED BY <2>2, <2>3
<1>12. QuestsOK(txs, cheated)'
  BY <1>1, <1>11 DEF QuestsOK
<1>13. PrevOK(txs, cheated)'
  <2>1. ASSUME NEW q \in Clean(cheated), PrevDone(q) PROVE PrevDone(q)'
    <3>1. PrevQuest[q] # NoQuest => PrevQuest[q] \in Quests \ cheated
      BY QuestAssumption DEF Clean
    <3> QED BY <1>5, <1>6, <2>1, <3>1 DEF PrevDone
  <2>2. ASSUME NEW q \in Clean(cheated), rows'[q] # Absent PROVE PrevDone(q)
    <3>1. q \in Quests \ cheated
      BY DEF Clean
    <3>2. CASE rows[q] # Absent
      BY <1>3, <3>2 DEF TInv, PrevOK
    <3>3. CASE rows[q] = Absent
      <4>1. q \in DOMAIN t.copies /\ rows'[q] = Stored(t, q)
        BY <1>2, <1>6, <2>2, <3>1, <3>3
      <4>2. t.copies[q].crud \in {"Insert", "Update", "Delete"}
        BY <1>3, <4>1 DEF TxOK, CopyOK
      <4>3. t.copies[q].crud = "Insert"
        BY <2>2, <3>3, <4>1, <4>2 DEF Stored
      <4> QED BY <1>3, <4>1, <4>3 DEF TInv, PrevOK
    <3> QED BY <3>2, <3>3
  <2>3. ASSUME NEW q \in Clean(cheated), NEW v \in U,
               q \in DOMAIN v.copies, v.copies[q].crud = "Insert"
        PROVE  PrevDone(q)
    BY <1>3, <1>4, <2>3 DEF TInv, PrevOK
  <2>4. Clean(cheated)' = Clean(cheated)
    BY <1>1 DEF Clean
  <2> QED BY <1>1, <2>1, <2>2, <2>3, <2>4 DEF PrevOK
<1>14. BagOK(txs)'
  <2>1. ASSUME NEW i \in Items
        PROVE  bag[i] + Cardinality({v \in U : v.stage = "ok" /\ i \in v.items})
                  = bagRows'[i]
    <3> DEFINE S == {v \in txs : v.stage = "ok" /\ i \in v.items}
               R == {v \in U : v.stage = "ok" /\ i \in v.items}
    <3>1. /\ bag[i] + Cardinality(S) = bagRows[i] /\ bag[i] \in Nat
          /\ bagRows'[i] = bagRows[i] + IF i \in t.items THEN 1 ELSE 0
      BY <1>1, <1>2, <1>3 DEF TInv, BagOK, DataOK
    <3>2. IsFiniteSet(S)
      BY <1>3, FS_Subset DEF TInv, Distinct
    <3>3. R = IF i \in t.items THEN S \cup {u} ELSE S
      BY <1>1, <1>4
    <3>4. u \notin S
      BY <1>1, <1>3, <1>4 DEF TInv, Distinct
    <3> HIDE DEF S, R
    <3>5. Cardinality(S) \in Nat /\ Cardinality(S \cup {u}) = Cardinality(S) + 1
      BY <3>2, <3>4, FS_AddElement, FS_CardinalityType
    <3>6. bag[i] + Cardinality(R) = bagRows'[i]
      BY <3>1, <3>3, <3>5
    <3> QED BY <3>6 DEF R
  <2> QED BY <1>1, <2>1 DEF BagOK
<1>15. FollowOK(txs, cheated, skipped)'
  <2>1. FollowOK(txs, cheated, skipped)
    BY DEF IInv
  <2>2. ASSUME NEW q, Coming(txs, q) PROVE Coming(U, q)
    <3>1. CASE \E v \in txs : v.stage = "written"
      BY <1>1, <3>1 DEF Coming
    <3>2. CASE \E v \in Open(txs, q) : v.kind = "chain" /\ v.copies[q].crud = "Insert"
      BY <1>4, <3>2 DEF Coming, Open
    <3> QED BY <2>2, <3>1, <3>2 DEF Coming
  <2>3. Enabled(quests, completes)' = Enabled(quests, completes)
    BY <1>1 DEF Enabled
  <2>4. Clean(cheated)' = Clean(cheated)
    BY <1>1 DEF Clean
  <2>5. \A q : Coming(U, q) => Coming(txs, q)'
    BY <1>1 DEF Coming, Open
  <2> QED BY <1>1, <2>1, <2>2, <2>3, <2>4, <2>5 DEF FollowOK
<1>16. TInv(txs, cheated)'
  <2>1. TxsOK(txs)' /\ Distinct(txs)'
    BY <1>1, <1>10 DEF TxsOK, Distinct
  <2> QED BY <2>1, <1>12, <1>13, <1>14 DEF TInv
<1> QED BY <1>7, <1>8, <1>9, <1>15, <1>16 DEF IInv

-----------------------------------------------------------------------------
(* The step that writes a transaction back to memory.                      *)

\* The delegates after any change of _quests that is validated.
LEMMA Validated ==
    ASSUME HandlesOK, NEW some, validateDelegate(some),
           NextIfs(quests)' = NextIfs(some)
    PROVE  HandlesOK'
<1>1. Heard \subseteq EIfCondition
  BY DEF Heard, EIfCondition
<1>2. handles' = [type \in EIfCondition |->
          IF type \notin Heard THEN handles[type]
          ELSE handles[type] + (IF type \in NextIfs(some) \ checkIfs THEN 1 ELSE 0)
                             - (IF type \in checkIfs \ NextIfs(some) THEN 1 ELSE 0)]
  BY DEF validateDelegate
<1>3. \A type \in EIfCondition : handles'[type] \in Int
  BY <1>2 DEF HandlesOK
<1>4. checkIfs' = NextIfs(some)
  BY DEF validateDelegate
<1>5. ASSUME NEW type \in Heard
      PROVE  handles'[type] = IF type \in checkIfs' THEN 1 ELSE 0
  <2>1. handles[type] = IF type \in checkIfs THEN 1 ELSE 0
    BY DEF HandlesOK
  <2>2. handles'[type] =
          handles[type] + (IF type \in NextIfs(some) \ checkIfs THEN 1 ELSE 0)
                        - (IF type \in checkIfs \ NextIfs(some) THEN 1 ELSE 0)
    BY <1>1, <1>2
  <2> QED BY <1>4, <2>1, <2>2
<1> QED BY <1>2, <1>3, <1>4, <1>5 DEF HandlesOK

\* What a stored transaction does to a quest no command has had: memory gets
\* what the row has, and any other that works on it is an insert not stored.
LEMMA Writing ==
    ASSUME IInv, NEW t \in txs, t.stage = "ok",
           NEW q \in DOMAIN t.copies, q \notin cheated
    PROVE  /\ \A v \in Open(txs, q) : v # t => v.stage = "db"
                                               /\ v.copies[q].crud = "Insert"
           /\ IF rows[q].state = "Completed"
              THEN q \in Completed(t) /\ Applied(t, q) = Absent
              ELSE q \notin Completed(t) /\ Applied(t, q) = rows[q]
           /\ q \in Finished(t) => t.kind = "complete"
           /\ t.copies[q].crud = "Update" => quests[q] # Absent
<1>1. q \in Quests /\ CopyOK(q, t.copies[q]) /\ EntryOK(q, quests[q])
  BY DEF IInv, TInv, TxsOK, TxOK, DataOK
<1>2. QuestOK(txs, q) /\ t \in Open(txs, q)
  BY <1>1, InRoom DEF IInv, TInv, QuestsOK, Open
<1>3. Wants(t, q) /\ Waits(t, q)
  BY <1>2 DEF QuestOK
<1>4. \A v \in Open(txs, q) : v # t => v.stage = "db" /\ v.copies[q].crud = "Insert"
  BY <1>2 DEF QuestOK, Open
<1>5. CASE t.copies[q].crud = "Delete"
  BY <1>3, <1>4, <1>5 DEF Waits, Finished, Completed, Applied, Absent
<1>6. CASE t.copies[q].crud = "Insert"
  BY <1>3, <1>4, <1>6 DEF Waits, Wants, Finished, Completed, Applied, Inserted,
                          findQuest
<1>7. CASE t.copies[q].crud = "Update"
  <2>1. quests[q] # Absent /\ rows[q] = t.copies[q].rec /\ q \notin completes
    BY <1>3, <1>7 DEF Wants, Waits
  <2>2. CASE t.copies[q].rec.state = "Completed"
    <3>1. quests[q].state = "Completable" /\ t.kind = "complete"
      BY <1>3, <1>7, <2>2 DEF Wants
    <3>2. q \in Finished(t)
      BY <1>7, <2>2, <3>1 DEF Finished
    <3>3. Applied(t, q) = Absent /\ q \in Completed(t)
      BY <1>7, <2>1, <3>2 DEF Completed, Applied, findQuest
    <3> QED BY <1>4, <2>1, <2>2, <3>1, <3>3
  <2>3. CASE t.copies[q].rec.state # "Completed"
    <3>1. q \notin Finished(t)
      BY <2>3 DEF Finished
    <3> QED BY <1>4, <1>7, <2>1, <2>3, <3>1 DEF Completed, Applied, findQuest
  <2> QED BY <2>2, <2>3
<1> QED BY <1>1, <1>5, <1>6, <1>7 DEF CopyOK

\* The invariant survives the write-back.
LEMMA WriteBackInv ==
    ASSUME IInv, NEW t \in txs, writeBack(t)
    PROVE  IInv'
<1> DEFINE u == [t EXCEPT !.stage = "written"]
           U == IF t.kind = "complete" THEN (txs \ {t}) \cup {u} ELSE txs \ {t}
           written == [q \in Quests |-> IF q \in DOMAIN t.copies
                                        THEN Applied(t, q) ELSE quests[q]]
           moved == Finished(t) \cup
                       {q \in DOMAIN t.copies : t.copies[q].crud # "Update"}
           Copied(crud) == {q \in DOMAIN t.copies : t.copies[q].crud = crud}
<1>1. /\ inRoom /\ t.stage = "ok" /\ txs' = U
      /\ inRoom' = inRoom /\ rows' = rows /\ bagRows' = bagRows /\ paid' = paid
      /\ cheated' = cheated
  BY InRoom DEF writeBack, At, dbVars, cheatVars
<1>2. /\ quests' = written /\ completes' = Completed(t)
      /\ bag' = [i \in Items |-> bag[i] + IF i \in t.items THEN 1 ELSE 0]
      /\ skipped' = (skipped \ Copied("Insert")) \cup Copied("Delete")
      /\ IF moved = {} THEN UNCHANGED <<checkIfs, handles>>
         ELSE validateDelegate(written)
  BY DEF writeBack
<1>3. TxOK(t) /\ TInv(txs, cheated) /\ DataOK
  BY DEF IInv, TInv, TxsOK
<1>4. t.kind = "complete" =>
         /\ TxOK(u) /\ u.stage = "written" /\ u.id = t.id /\ u.kind = t.kind
         /\ u.copies = t.copies
  BY <1>3, Staged
<1> HIDE DEF u
<1>5. \A q \in Quests : q \in DOMAIN t.copies \ cheated =>
         /\ \A v \in Open(txs, q) : v # t => v.stage = "db"
                                             /\ v.copies[q].crud = "Insert"
         /\ IF rows[q].state = "Completed"
            THEN q \in completes' /\ quests'[q] = Absent
            ELSE q \notin completes' /\ quests'[q] = rows[q]
         /\ q \in Finished(t) => t.kind = "complete"
         /\ t.copies[q].crud = "Update" => quests[q] # Absent
  BY <1>1, <1>2, Writing
<1>6. \A q \in Quests : q \notin DOMAIN t.copies =>
         quests'[q] = quests[q] /\ (q \in completes' <=> q \in completes)
  BY <1>2 DEF Completed, Finished
<1>7. DataOK'
  <2>1. \A q \in Quests : EntryOK(q, quests'[q])
    <3>1. \A q \in DOMAIN t.copies : EntryOK(q, Applied(t, q))
      BY <1>3 DEF Applied, Inserted, EntryOK, TxOK, CopyOK, DataOK
    <3> QED BY <1>2, <1>3, <3>1 DEF DataOK
  <2>2. bag' \in [Items -> Nat]
    BY <1>2, <1>3 DEF DataOK
  <2>3. quests' = [q \in Quests |-> quests'[q]]
    BY <1>2
  <2>4. completes' \subseteq Quests
    BY <1>2, <1>3 DEF Completed, Finished, DataOK, TxOK
  <2> QED BY <1>1, <1>3, <2>1, <2>2, <2>3, <2>4 DEF DataOK, EntryOK, RecOK
<1>8. HandlesOK'
  <2>1. NextIfs(quests)' = NextIfs(written)
    BY <1>2 DEF NextIfs
  <2>2. CASE moved # {}
    BY <1>2, <2>1, <2>2, Validated DEF IInv
  <2>3. CASE moved = {}
    <3>1. \A q \in Quests : written[q] # Absent <=> quests[q] # Absent
      <4>1. ASSUME NEW q \in DOMAIN t.copies
            PROVE  Applied(t, q) # Absent <=> quests[q] # Absent
        <5>1. t.copies[q].crud = "Update" /\ q \notin Finished(t)
          BY <2>3
        <5>2. RecOK(q, t.copies[q].rec)
          BY <1>3 DEF TxOK, CopyOK
        <5>3. t.copies[q].rec # Absent
          BY <5>2 DEF RecOK, Absent
        <5> QED BY <5>1, <5>3 DEF Applied, findQuest
      <4> QED BY <4>1
    <3> HIDE DEF written
    <3>2. {p \in Quests : written[p] # Absent} = {p \in Quests : quests[p] # Absent}
      BY <3>1
    <3>3. NextIfs(written) = NextIfs(quests)
      BY <3>2 DEF NextIfs
    <3>4. checkIfs' = checkIfs /\ handles' = handles
      BY <1>2, <2>3
    <3> QED BY <2>1, <3>3, <3>4 DEF IInv, HandlesOK
  <2> QED BY <2>2, <2>3
<1>9. PaidOK(cheated)'
  BY <1>1 DEF IInv, PaidOK
<1>10. TxsOK(U) /\ Distinct(U)
  <2>1. TxsOK(U)
    BY <1>3, <1>4 DEF TInv, TxsOK
  <2>2. IsFiniteSet(txs \ {t})
    BY <1>3, FS_Subset DEF TInv, Distinct
  <2>3. IsFiniteSet(U)
    BY <2>2, FS_AddElement
  <2> QED BY <1>3, <1>4, <2>1, <2>3 DEF TInv, Distinct
<1>11. ASSUME NEW q \in Quests \ cheated PROVE QuestOK(txs, q)'
  <2>1. QuestOK(txs, q)
    BY <1>1, <1>3 DEF TInv, QuestsOK
  <2>2. Open(U, q) = Open(txs, q) \ {t}
    BY <1>4 DEF Open
  <2>3. Open(txs, q)' = Open(U, q)
    BY <1>1 DEF Open
  <2>4. /\ \A v, w \in Open(U, q) : \/ v = w
                                    \/ v.copies[q].crud = "Insert"
                                       /\ w.copies[q].crud = "Insert"
        /\ \A v, w \in Open(U, q) : v.stage = "ok" /\ w.stage = "ok" => v = w
    BY <2>1, <2>2 DEF QuestOK
  <2>5. CASE q \notin DOMAIN t.copies
    <3>1. Open(U, q) = Open(txs, q)
      BY <2>2, <2>5 DEF Open
    <3>2. \A v \in Open(U, q) : Wants(v, q)'
      BY <1>6, <2>1, <2>5, <3>1 DEF QuestOK, Wants
    <3>3. \A v \in Open(U, q) : v.stage = "ok" => Waits(v, q)'
      BY <1>1, <1>6, <2>1, <2>5, <3>1 DEF QuestOK, Waits
    <3>4. (\A v \in Open(U, q) : v.stage = "db") => Agree(q)'
      BY <1>1, <1>6, <2>1, <2>5, <3>1 DEF QuestOK, Agree
    <3> QED BY <2>3, <2>4, <3>2, <3>3, <3>4 DEF QuestOK
  <2>6. CASE q \in DOMAIN t.copies
    <3>1. \A v \in Open(U, q) : v.stage = "db" /\ v.copies[q].crud = "Insert"
      BY <1>5, <2>2, <2>6
    <3>2. \A v \in Open(U, q) : Wants(v, q)'
      BY <2>1, <2>2, <3>1 DEF QuestOK, Wants
    <3>3. Agree(q)'
      BY <1>1, <1>5, <2>6 DEF Agree
    <3> QED BY <2>3, <2>4, <3>1, <3>2, <3>3 DEF QuestOK
  <2> QED BY <2>5, <2>6
<1>12. QuestsOK(txs, cheated)'
  BY <1>1, <1>11 DEF QuestsOK
<1>13. PrevOK(txs, cheated)'
  <2>1. ASSUME NEW q \in Clean(cheated), NEW v \in U,
               q \in DOMAIN v.copies, v.copies[q].crud = "Insert"
        PROVE  PrevDone(q)
    BY <1>3, <1>4, <2>1 DEF TInv, PrevOK
  <2>2. Clean(cheated)' = Clean(cheated)
    BY <1>1 DEF Clean
  <2>3. \A q \in Clean(cheated) : rows[q] # Absent => PrevDone(q)
    BY <1>3 DEF TInv, PrevOK
  <2> QED BY <1>1, <2>1, <2>2, <2>3 DEF PrevOK, PrevDone
<1>14. BagOK(txs)'
  <2>1. ASSUME NEW i \in Items
        PROVE  bag'[i] + Cardinality({v \in U : v.stage = "ok" /\ i \in v.items})
                  = bagRows[i]
    <3> DEFINE S == {v \in txs : v.stage = "ok" /\ i \in v.items}
               R == {v \in U : v.stage = "ok" /\ i \in v.items}
    <3>1. /\ bag[i] + Cardinality(S) = bagRows[i] /\ bag[i] \in Nat
          /\ bag'[i] = bag[i] + IF i \in t.items THEN 1 ELSE 0
      BY <1>1, <1>2, <1>3 DEF TInv, BagOK, DataOK
    <3>2. IsFiniteSet(S)
      BY <1>3, FS_Subset DEF TInv, Distinct
    <3>3. R = S \ {t}
      BY <1>4
    <3>4. t \in S <=> i \in t.items
      BY <1>1
    <3> HIDE DEF S, R
    <3>5. Cardinality(S) \in Nat /\ Cardinality(R) \in Nat
          /\ Cardinality(R) = IF i \in t.items THEN Cardinality(S) - 1
                              ELSE Cardinality(S)
      BY <3>2, <3>3, <3>4, FS_RemoveElement, FS_CardinalityType
    <3>6. bag'[i] + Cardinality(R) = bagRows[i]
      BY <3>1, <3>5
    <3> QED BY <3>6 DEF R
  <2> QED BY <1>1, <2>1 DEF BagOK
<1>15. FollowOK(txs, cheated, skipped)'
  <2>1. ASSUME NEW q \in Clean(cheated), q \in Enabled(quests, completes)',
               t.kind # "complete"
        PROVE  q \in skipped' \/ Coming(U, q)
    <3>1. /\ PrevQuest[q] \in completes' \cup {NoQuest}
          /\ q \notin completes' /\ quests'[q] = Absent /\ q \in Quests \ cheated
      BY <2>1 DEF Enabled, Clean
    <3>2. PrevQuest[q] # NoQuest => PrevQuest[q] \in Quests \ cheated
      BY <2>1, QuestAssumption DEF Clean
    <3>3. PrevQuest[q] \in completes \cup {NoQuest}
      <4>1. \A p \in Quests \ cheated : p \notin Finished(t)
        BY <1>5, <2>1 DEF Finished
      <4> QED BY <1>2, <3>1, <3>2, <4>1 DEF Completed
    <3>4. CASE q \notin DOMAIN t.copies
      <4>1. q \in Enabled(quests, completes)
        BY <1>6, <3>1, <3>3, <3>4 DEF Enabled
      <4>2. q \in skipped \/ Coming(txs, q)
        BY <1>1, <2>1, <4>1 DEF IInv, FollowOK
      <4>3. q \in skipped => q \in skipped'
        BY <1>2, <3>4
      <4>4. Coming(txs, q) => Coming(U, q)
        BY <1>1, <2>1, <3>4 DEF Coming, Open
      <4> QED BY <4>2, <4>3, <4>4
    <3>5. CASE q \in DOMAIN t.copies
      <4>1. rows[q] = Absent
        BY <1>5, <3>1, <3>5
      <4>2. QuestOK(txs, q) /\ t \in Open(txs, q) /\ CopyOK(q, t.copies[q])
        BY <1>1, <1>3, <3>1, <3>5 DEF TInv, QuestsOK, Open, TxOK
      <4>3. t.copies[q].crud = "Delete"
        BY <1>1, <4>1, <4>2 DEF QuestOK, Waits, CopyOK, RecOK, Absent
      <4> QED BY <1>2, <3>5, <4>3
    <3> QED BY <3>4, <3>5
  <2>2. ASSUME NEW q, t.kind = "complete" PROVE Coming(U, q)
    BY <1>4, <2>2 DEF Coming
  <2>3. \A q : Coming(U, q) => Coming(txs, q)'
    BY <1>1 DEF Coming, Open
  <2>4. Clean(cheated)' = Clean(cheated)
    BY <1>1 DEF Clean
  <2> QED BY <2>1, <2>2, <2>3, <2>4 DEF FollowOK
<1>16. TInv(txs, cheated)'
  <2>1. TxsOK(txs)' /\ Distinct(txs)'
    BY <1>1, <1>10 DEF TxsOK, Distinct
  <2> QED BY <2>1, <1>12, <1>13, <1>14 DEF TInv
<1> QED BY <1>7, <1>8, <1>9, <1>15, <1>16 DEF IInv

-----------------------------------------------------------------------------
(* The player comes and goes.                                              *)

\* With no transaction there is nothing to say of them, but of the rows.
LEMMA NoTxs ==
    ASSUME txs' = {},
           inRoom' => \A q \in Quests \ cheated' : Agree(q)',
           \A q \in Clean(cheated') : rows'[q] # Absent => PrevDone(q)',
           inRoom' => bag' = bagRows' /\ bag' \in [Items -> Nat]
    PROVE  TInv(txs, cheated)'
<1>1. TxsOK(txs)' /\ Distinct(txs)'
  BY FS_EmptySet DEF TxsOK, Distinct
<1>2. QuestsOK(txs, cheated)'
  BY DEF QuestsOK, QuestOK, Open
<1>3. PrevOK(txs, cheated)'
  BY DEF PrevOK, Clean
<1>4. BagOK(txs)'
  <2>1. \A i : {t \in txs' : t.stage = "ok" /\ i \in t.items} = {}
    OBVIOUS
  <2>2. Cardinality({}) = 0
    BY FS_EmptySet
  <2> QED BY <2>1, <2>2 DEF BagOK
<1> QED BY <1>1, <1>2, <1>3, <1>4 DEF TInv

\* The player leaves, or the server stops.
LEMMA LeaveInv ==
    ASSUME IInv, unload \/ crash
    PROVE  IInv'
<1>1. /\ inRoom' = FALSE /\ quests' = Nothing /\ completes' = {}
      /\ checkIfs' = {} /\ handles' = Silent /\ bag' = [i \in Items |-> 0]
      /\ rows' = rows /\ bagRows' = bagRows /\ paid' = paid
      /\ txs' = {} /\ skipped' = skipped /\ cheated' = cheated
  BY DEF unload, crash, dbVars, cheatVars
<1>2. DataOK'
  BY <1>1 DEF IInv, DataOK, EntryOK, RecOK, Nothing
<1>3. HandlesOK'
  <2>1. NextIfs(quests)' = {}
    BY <1>1 DEF NextIfs, Nothing
  <2>2. handles' = [type \in EIfCondition |-> 0]
    BY <1>1 DEF Silent
  <2>3. Heard \subseteq EIfCondition
    BY DEF Heard, EIfCondition
  <2> QED BY <1>1, <2>1, <2>2, <2>3 DEF HandlesOK
<1>4. PaidOK(cheated)'
  BY <1>1 DEF IInv, PaidOK
<1>5. TInv(txs, cheated)'
  BY <1>1, NoTxs DEF IInv, TInv, PrevOK, PrevDone, Clean
<1>6. FollowOK(txs, cheated, skipped)'
  BY <1>1 DEF FollowOK
<1> QED BY <1>2, <1>3, <1>4, <1>5, <1>6 DEF IInv

\* The player is loaded.
LEMMA LoadInv ==
    ASSUME IInv, NEW failed \in SUBSET Quests, load(failed)
    PROVE  IInv'
<1> DEFINE loaded == initializeDBPost(failed)
           fresh == New \ failed
<1>1. /\ ~inRoom /\ txs = {} /\ quests = Nothing
      /\ inRoom' = TRUE /\ completes' = DoneRows /\ quests' = loaded
      /\ rows' = [q \in Quests |-> IF q \in (New \cup Outdated) \ failed
                                   THEN loaded[q] ELSE rows[q]]
      /\ bag' = bagRows /\ validateDelegate(loaded) /\ skipped' = New \cap failed
      /\ bagRows' = bagRows /\ paid' = paid /\ txs' = txs /\ cheated' = cheated
  BY DEF load, beginPlay, cheatVars, IInv, DataOK
<1>2. \A q \in Quests : EntryOK(q, rows[q])
  BY DEF IInv, DataOK
<1>3. Outdated = {}
  <2>1. ASSUME NEW q \in Outdated PROVE FALSE
    <3>1. q \in Quests /\ initializeDB[q].state = "Progressing" /\ Conditions[q] = <<>>
      BY DEF Outdated
    <3>2. initializeDB[q] = rows[q] \/ initializeDB[q] = Absent
      BY <3>1 DEF initializeDB
    <3>3. EntryOK(q, initializeDB[q]) /\ initializeDB[q] # Absent
      BY <1>2, <3>1, <3>2 DEF EntryOK, Absent
    <3> QED BY <3>1, <3>3 DEF EntryOK, RecOK
  <2> QED BY <2>1
<1>4. /\ quests' = [q \in Quests |->
                      IF q \in fresh THEN NewQuest(q)
                      ELSE IF rows[q].state = "Completed" THEN Absent ELSE rows[q]]
      /\ rows' = [q \in Quests |-> IF q \in fresh THEN NewQuest(q) ELSE rows[q]]
  BY <1>1, <1>3 DEF initializeDBPost, initializeDB
<1>5. \A q : /\ RecOK(q, NewQuest(q)) /\ NewQuest(q).state # "Completed"
             /\ NewQuest(q) # Absent
  BY StartIs, FreshOK DEF NewQuest
<1>6. /\ DoneRows = {q \in Quests : rows[q].state = "Completed"}
      /\ New = {q \in Quests :
                  /\ PrevQuest[q] \in DoneRows \cup {NoQuest} /\ q \notin DoneRows
                  /\ (IF rows[q].state = "Completed" THEN Absent ELSE rows[q]) = Absent}
  BY DEF DoneRows, New, Enabled, initializeDB
<1> HIDE DEF loaded, fresh
<1>7. fresh = New \ failed
  BY DEF fresh
<1>8. DataOK'
  <2>1. \A q \in Quests : EntryOK(q, quests'[q]) /\ EntryOK(q, rows'[q])
    BY <1>2, <1>4, <1>5 DEF EntryOK
  <2>2. quests' = [q \in Quests |-> quests'[q]] /\ rows' = [q \in Quests |-> rows'[q]]
    BY <1>4
  <2>3. completes' \subseteq Quests
    BY <1>1, <1>6
  <2> QED BY <1>1, <2>1, <2>2, <2>3 DEF IInv, DataOK, EntryOK, RecOK
<1>9. HandlesOK'
  <2>1. NextIfs(quests)' = NextIfs(loaded)
    BY <1>1 DEF NextIfs
  <2> QED BY <1>1, <2>1, Validated DEF IInv
<1>10. \A q \in Quests : rows[q].state = "Completed" => rows'[q] = rows[q]
  BY <1>4, <1>6, <1>7
<1>11. PaidOK(cheated)'
  BY <1>1, <1>10 DEF IInv, PaidOK
<1>12. ASSUME NEW q \in Quests PROVE Agree(q)'
  BY <1>1, <1>4, <1>5, <1>6, <1>7 DEF Agree
<1>13. ASSUME NEW q \in Clean(cheated), rows'[q] # Absent PROVE PrevDone(q)'
  <2>1. q \in Quests /\ (PrevQuest[q] # NoQuest => PrevQuest[q] \in Quests)
    BY QuestAssumption DEF Clean
  <2>2. CASE q \in fresh
    <3>1. PrevQuest[q] \in DoneRows \cup {NoQuest}
      BY <1>6, <1>7, <2>2
    <3> QED BY <1>6, <1>10, <3>1 DEF PrevDone
  <2>3. CASE q \notin fresh
    <3>1. rows[q] # Absent
      BY <1>4, <1>13, <2>1, <2>3
    <3>2. PrevDone(q)
      BY <3>1 DEF IInv, TInv, PrevOK
    <3> QED BY <1>10, <2>1, <3>2 DEF PrevDone
  <2> QED BY <2>2, <2>3
<1>14. TInv(txs, cheated)'
  <2>1. Clean(cheated') = Clean(cheated)
    BY <1>1
  <2>2. bag' = bagRows' /\ bag' \in [Items -> Nat] /\ txs' = {}
    BY <1>1 DEF IInv, DataOK
  <2> QED BY <1>12, <1>13, <2>1, <2>2, NoTxs
<1>15. FollowOK(txs, cheated, skipped)'
  <2>1. ASSUME NEW q \in Enabled(quests, completes)' PROVE q \in skipped'
    <3>1. /\ q \in Quests /\ PrevQuest[q] \in DoneRows \cup {NoQuest}
          /\ q \notin DoneRows /\ quests'[q] = Absent
      BY <1>1, <2>1 DEF Enabled
    <3>2. q \notin fresh /\ rows[q] = Absent
      BY <1>4, <1>5, <1>6, <3>1
    <3>3. q \in New
      BY <1>6, <3>1, <3>2
    <3> QED BY <1>1, <1>7, <3>2, <3>3
  <2> QED BY <2>1 DEF FollowOK
<1> QED BY <1>8, <1>9, <1>11, <1>14, <1>15 DEF IInv

-----------------------------------------------------------------------------
(* The invariant and what follows from it.                                 *)

\* The invariant holds before the player is loaded.
LEMMA InitIInv == Init => IInv
<1> SUFFICES ASSUME Init PROVE IInv
  OBVIOUS
<1>1. /\ inRoom = FALSE /\ quests = Nothing /\ completes = {} /\ checkIfs = {}
      /\ handles = [type \in EIfCondition |-> 0]
      /\ bag = [i \in Items |-> 0] /\ rows = Nothing
      /\ bagRows \in [Items -> 0..MaxItems] /\ txs = {}
      /\ paid = [q \in Quests |-> 0] /\ cheated = {}
  BY DEF Init, Silent
<1>2. DataOK
  <2>1. bagRows \in [Items -> Nat]
    BY <1>1, QuestAssumption
  <2> QED BY <1>1, <2>1 DEF DataOK, EntryOK, Nothing
<1>3. HandlesOK
  <2>1. NextIfs(quests) = {}
    BY <1>1 DEF NextIfs, Nothing
  <2>2. Heard \subseteq EIfCondition
    BY DEF Heard, EIfCondition
  <2> QED BY <1>1, <2>1, <2>2 DEF HandlesOK
<1>4. PaidOK(cheated)
  BY <1>1 DEF PaidOK
<1>5. TInv(txs, cheated)
  <2>1. TxsOK(txs) /\ Distinct(txs)
    BY <1>1, FS_EmptySet DEF TxsOK, Distinct
  <2>2. QuestsOK(txs, cheated) /\ BagOK(txs)
    BY <1>1 DEF QuestsOK, BagOK
  <2>3. PrevOK(txs, cheated)
    BY <1>1 DEF PrevOK, Clean, Nothing
  <2> QED BY <2>1, <2>2, <2>3 DEF TInv
<1>6. FollowOK(txs, cheated, skipped)
  BY <1>1 DEF FollowOK
<1> QED BY <1>2, <1>3, <1>4, <1>5, <1>6 DEF IInv

\* Every step preserves the invariant.
LEMMA NextIInv == IInv /\ [Next]_vars => IInv'
<1> SUFFICES ASSUME IInv, [Next]_vars PROVE IInv'
  OBVIOUS
<1>1. CASE Player
  <2>1. ASSUME NEW failed \in SUBSET Quests, load(failed) PROVE IInv'
    BY <2>1, LoadInv
  <2>2. CASE unload \/ crash
    BY <2>2, LeaveInv
  <2>3. ASSUME NEW q \in Quests, startReq(q) \/ cancelReq(q) \/ completeReq(q)
        PROVE  IInv'
    BY <2>3, StartReqInv, CancelReqInv, CompleteReqInv
  <2>4. ASSUME NEW q \in Quests, NEW item \in Items, interactReq(q, item)
        PROVE  IInv'
    BY <2>4, InteractReqInv
  <2>5. CASE chatReq
    <3>1. \A q \in Commanded : cheatQuest(q) => IInv'
      BY QuestAssumption, CheatQuestInv
    <3>2. \A items \in SUBSET Items \ {{}} : cheatDrop(items) => IInv'
      BY CheatDropInv
    <3> QED BY <2>5, <3>1, <3>2 DEF chatReq
  <2> QED BY <1>1, <2>1, <2>2, <2>3, <2>4, <2>5 DEF Player
<1>2. CASE Transactions
  <2>1. PICK t \in txs :
           dbCommit(t) \/ dbFail(t) \/ writeBack(t) \/ endTx(t) \/ chain(t)
    BY <1>2 DEF Transactions
  <2> QED BY <2>1, DbCommitInv, DbFailInv, WriteBackInv, EndTxInv, ChainInv
<1>3. CASE UNCHANGED vars
  <2>1. /\ UNCHANGED <<inRoom, memVars, dbVars>>
        /\ txs' = txs /\ cheated' = cheated /\ skipped' = skipped
    BY <1>3 DEF vars, cheatVars
  <2> QED BY <2>1, StillInv, InRoom DEF IInv, DataOK
<1> QED BY <1>1, <1>2, <1>3 DEF Next

\* In every reachable state memory, rows and the transactions under way are
\* as IInv says.
THEOREM Invariance == Spec => []IInv
BY InitIInv, NextIInv, PTL DEF Spec

\* A quest completed by its own requests pays its reward once.
THEOREM PaysOnce == Spec => []RewardedOnce
<1>1. IInv => RewardedOnce
  BY DEF IInv, PaidOK, RewardedOnce, Untouched
<1> QED BY <1>1, Invariance, PTL

\* Between transactions the quests and the bag in memory are the rows.
THEOREM MemoryAgrees == Spec => []MemoryIsRows
<1>1. IInv => MemoryIsRows
  <2> SUFFICES ASSUME IInv, Quiet
               PROVE  (\A q \in Untouched : Agree(q)) /\ bag = bagRows
    BY DEF MemoryIsRows, Agree, Untouched
  <2>1. \A q \in Untouched : Agree(q)
    BY DEF IInv, TInv, QuestsOK, QuestOK, Open, Quiet, Untouched
  <2>2. ASSUME NEW i \in Items PROVE bag[i] = bagRows[i]
    <3>1. {t \in txs : t.stage = "ok" /\ i \in t.items} = {}
      BY DEF Quiet
    <3>2. bag[i] + Cardinality({}) = bagRows[i]
      BY <3>1 DEF IInv, TInv, BagOK, Quiet
    <3> QED BY <3>2, FS_EmptySet DEF IInv, DataOK
  <2> QED BY <2>1, <2>2 DEF IInv, DataOK
<1> QED BY <1>1, Invariance, PTL

\* A stored quest follows a completed one, whenever the server stops.
THEOREM PreviousFirst == Spec => []PrevFirst
<1>1. IInv => PrevFirst
  BY DEF IInv, TInv, PrevOK, PrevDone, Clean, PrevFirst, Untouched
<1> QED BY <1>1, Invariance, PTL

\* What a completed quest enables is listed once its transactions end, also by
\* the other completion when one batch of inserts is refused.
THEOREM FollowersAreListed == Spec => []FollowersListed
<1>1. IInv => FollowersListed
  BY DEF IInv, FollowOK, Coming, Open, Clean, FollowersListed, Untouched, Quiet
<1> QED BY <1>1, Invariance, PTL

\* The component listens once to each event a listed quest waits for.
THEOREM ListensOnce == Spec => []ListensExactly
<1>1. IInv => ListensExactly
  BY DEF IInv, HandlesOK, ListensExactly
<1> QED BY <1>1, Invariance, PTL
=============================================================================
