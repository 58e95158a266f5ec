---------------------------- MODULE PlayerTxProofs ----------------------------
(***************************************************************************)
(* Proofs about PlayerTx: one connection and no cheats lose no update, for *)
(* any objects, packets and queue length.                                  *)
(*                                                                         *)
(* The busy state counts the transactions that hold the gate, and one that *)
(* changes something holds it from its handler to its end: a handler that  *)
(* finds the gate open finds no change under way.  Without either          *)
(* hypothesis that is false: a transaction of the last connection, or of a *)
(* command, holds no gate the handler looks at.                            *)
(***************************************************************************)
EXTENDS PlayerTx, FiniteSetTheorems, TLAPS

\* The fields of a transaction.
TxOK(t) ==
    /\ "id" \in DOMAIN t /\ "holder" \in DOMAIN t /\ "stage" \in DOMAIN t
    /\ "clone" \in DOMAIN t
    /\ t.id \in Nat
    /\ t.holder \in Users \cup {NoUser}
    /\ t.stage \in {"db", "ok", "written", "told"}
    /\ DOMAIN t.clone \subseteq Objects

Counters == [Objects -> Int]

DataOK ==
    /\ owner \in Users \cup {NoUser}
    /\ "at" \in DOMAIN loop /\ "user" \in DOMAIN loop
    /\ loop.at # "idle" => loop.user \in Users
    /\ gated = [u \in Users |-> gated[u]] /\ free = [u \in Users |-> free[u]]
    /\ \A u \in Users : /\ gated[u] \in Seq(GatedPackets)
                        /\ free[u] \in Seq(FreePackets)
    /\ busy \in [Users -> Int]
    /\ memory \in Counters /\ rows \in Counters /\ applied \in Counters

\* CacheTx objects are different objects, and there are finitely many.
TxsOK(T) ==
    /\ IsFiniteSet(T)
    /\ \A t \in T : TxOK(t)
    /\ \A t, v \in T : t.id = v.id => t = v

\* The busy state of a connection counts the transactions that hold it.
Holding(T, u) == {t \in T : t.holder = u}

CountOK(T, B) == \A u \in Users : B[u] = Cardinality(Holding(T, u))

\* A change of o that is not in memory yet.
Touches(t, o) == o \in DOMAIN t.clone /\ t.stage \in {"db", "ok"}

\* It holds the gate, and is the only one.
GateOK(T) ==
    /\ \A t \in T, o \in Objects : Touches(t, o) => t.holder # NoUser
    /\ \A t, v \in T, o, x \in Objects : Touches(t, o) /\ Touches(v, x) => t = v

\* Memory and rows of an object, from its handler to its write-back.
ValuesOK(T) ==
    \A o \in Objects :
        /\ (\A t \in T : ~Touches(t, o)) =>
              memory[o] = applied[o] /\ rows[o] = applied[o]
        /\ \A t \in T : Touches(t, o) =>
              IF t.stage = "db"
              THEN /\ memory[o] = applied[o] /\ rows[o] = applied[o]
                   /\ t.clone[o] = memory[o] + 1
              ELSE rows[o] = applied[o] /\ t.clone[o] = applied[o]

Inside(T) == GateOK(T) /\ ValuesOK(T)

IInv == DataOK /\ TxsOK(txs) /\ CountOK(txs, busy) /\ Inside(txs)

-----------------------------------------------------------------------------
(* Sets of transactions.                                                   *)

\* Of n + 1 numbers one is the id of none of n transactions.
LEMMA FreeId ==
    ASSUME NEW T, IsFiniteSet(T)
    PROVE  \E n \in 1..Cardinality(T) + 1 : \A t \in T : t.id # n
<1> DEFINE N == 1..Cardinality(T) + 1
           ids == {t.id : t \in T}
           f == [t \in T |-> t.id]
<1>1. Cardinality(T) \in Nat
  BY FS_CardinalityType
<1>2. IsFiniteSet(N) /\ Cardinality(N) = Cardinality(T) + 1
  BY <1>1, FS_Interval
<1>3. f \in Surjection(T, ids)
  BY DEF Surjection
<1>4. IsFiniteSet(ids) /\ Cardinality(ids) <= Cardinality(T)
  BY <1>3, FS_Surjection
<1>5. ASSUME N \subseteq ids PROVE FALSE
  <2>1. Cardinality(N) <= Cardinality(ids)
    BY <1>4, <1>5, FS_Subset
  <2>2. Cardinality(ids) \in Nat
    BY <1>4, FS_CardinalityType
  <2> QED BY <1>1, <1>2, <1>4, <2>1, <2>2
<1> QED BY <1>5

\* What is known of a transaction that begins beside those of T.
IsNew(n, objects, holder, from, T) ==
    /\ TxOK(n) /\ n.holder = holder /\ n.stage = "db"
    /\ \A t \in T : t.id # n.id
    /\ DOMAIN n.clone = objects
    /\ \A o \in objects : n.clone[o] = from[o] + 1

\* A new transaction has an id of its own and is not stored.
LEMMA NewTxIs ==
    ASSUME NEW T, IsFiniteSet(T), NEW objects \in SUBSET Objects, NEW chains,
           NEW holder \in Users \cup {NoUser}, NEW from
    PROVE  IsNew(NewTx(objects, chains, holder, from, T), objects, holder, from, T)
<1> DEFINE id == CHOOSE k \in 1..Cardinality(T) + 1 : \A t \in T : t.id # k
           clone == [o \in objects |-> from[o] + 1]
           n == [id |-> id, holder |-> holder, chains |-> chains, stage |-> "db",
                 clone |-> clone]
<1>1. NewTx(objects, chains, holder, from, T) = n
  BY DEF NewTx
<1>2. id \in 1..Cardinality(T) + 1 /\ \A t \in T : t.id # id
  BY FreeId
<1>3. id \in Nat
  BY <1>2, FS_CardinalityType
<1>4. DOMAIN clone = objects /\ \A o \in objects : clone[o] = from[o] + 1
  OBVIOUS
<1> HIDE DEF id, clone
<1>5. n.id = id /\ n.holder = holder /\ n.stage = "db" /\ n.clone = clone
  OBVIOUS
<1>6. TxOK(n)
  BY <1>3, <1>4 DEF TxOK
<1> HIDE DEF n
<1>7. IsNew(n, objects, holder, from, T)
  BY <1>2, <1>4, <1>5, <1>6 DEF IsNew
<1> QED BY <1>1, <1>7

\* The busy state after a transaction begins.
LEMMA AddTx ==
    ASSUME NEW T, TxsOK(T), NEW B \in [Users -> Int], CountOK(T, B),
           NEW n, TxOK(n), \A t \in T : t.id # n.id,
           NEW C, \A u \in Users : C[u] = B[u] + IF u = n.holder THEN 1 ELSE 0
    PROVE  TxsOK(T \cup {n}) /\ CountOK(T \cup {n}, C)
<1> DEFINE U == T \cup {n}
<1>1. TxsOK(U)
  BY FS_AddElement DEF TxsOK
<1>2. ASSUME NEW u \in Users PROVE C[u] = Cardinality(Holding(U, u))
  <2> DEFINE H == Holding(T, u)
  <2>1. IsFiniteSet(H) /\ B[u] = Cardinality(H) /\ n \notin H
    BY FS_Subset DEF TxsOK, CountOK, Holding
  <2>2. Holding(U, u) = IF n.holder = u THEN H \cup {n} ELSE H
    BY DEF Holding
  <2> HIDE DEF H
  <2>3. Cardinality(H \cup {n}) = Cardinality(H) + 1 /\ Cardinality(H) \in Nat
    BY <2>1, FS_AddElement, FS_CardinalityType
  <2>4. CASE n.holder = u
    BY <2>1, <2>2, <2>3, <2>4
  <2>5. CASE n.holder # u
    BY <2>1, <2>2, <2>3, <2>5
  <2> QED BY <2>4, <2>5
<1> QED BY <1>1, <1>2 DEF CountOK

\* The busy state after a transaction ends.
LEMMA RemoveTx ==
    ASSUME NEW T, TxsOK(T), NEW B \in [Users -> Int], CountOK(T, B), NEW t \in T,
           NEW C, \A u \in Users : C[u] = B[u] - IF u = t.holder THEN 1 ELSE 0
    PROVE  TxsOK(T \ {t}) /\ CountOK(T \ {t}, C)
<1> DEFINE U == T \ {t}
<1>1. TxsOK(U)
  BY FS_Subset DEF TxsOK
<1>2. ASSUME NEW u \in Users PROVE C[u] = Cardinality(Holding(U, u))
  <2> DEFINE H == Holding(T, u)
  <2>1. IsFiniteSet(H) /\ B[u] = Cardinality(H) /\ (t \in H <=> t.holder = u)
    BY FS_Subset DEF TxsOK, CountOK, Holding
  <2>2. Holding(U, u) = H \ {t}
    BY DEF Holding
  <2> HIDE DEF H
  <2>3. Cardinality(H \ {t}) = IF t \in H THEN Cardinality(H) - 1 ELSE Cardinality(H)
    BY <2>1, FS_RemoveElement
  <2>4. Cardinality(H) \in Nat
    BY <2>1, FS_CardinalityType
  <2>5. CASE t.holder = u
    BY <2>1, <2>2, <2>3, <2>4, <2>5
  <2>6. CASE t.holder # u
    BY <2>1, <2>2, <2>3, <2>4, <2>6
  <2> QED BY <2>5, <2>6
<1> QED BY <1>1, <1>2 DEF CountOK

\* A transaction at another stage is the same in all else.
LEMMA Staged ==
    ASSUME NEW t, TxOK(t), NEW s \in {"db", "ok", "written", "told"}
    PROVE  LET v == [t EXCEPT !.stage = s] IN
           /\ TxOK(v) /\ v.id = t.id /\ v.holder = t.holder /\ v.stage = s
           /\ v.clone = t.clone
BY DEF TxOK

\* The holder of a change from t to v has moved with it.
Moves(B, C, t, v) ==
    \A u \in Users : C[u] = B[u] - (IF u = t.holder THEN 1 ELSE 0)
                                 + (IF u = v.holder THEN 1 ELSE 0)

\* The busy state after a transaction changes.
LEMMA SwapTx ==
    ASSUME NEW T, TxsOK(T), NEW B \in [Users -> Int], CountOK(T, B), NEW t \in T,
           NEW v, TxOK(v), v.id = t.id,
           NEW C, Moves(B, C, t, v)
    PROVE  TxsOK((T \ {t}) \cup {v}) /\ CountOK((T \ {t}) \cup {v}, C)
<1> DEFINE D == [u \in Users |-> B[u] - IF u = t.holder THEN 1 ELSE 0]
<1>1. D \in [Users -> Int] /\ \A u \in Users : D[u] = B[u] - IF u = t.holder THEN 1
                                                             ELSE 0
  OBVIOUS
<1>2. \A u \in Users : C[u] = D[u] + IF u = v.holder THEN 1 ELSE 0
  BY DEF Moves
<1> HIDE DEF D
<1>3. TxsOK(T \ {t}) /\ CountOK(T \ {t}, D)
  BY <1>1, RemoveTx
<1>4. \A x \in T \ {t} : x.id # v.id
  BY DEF TxsOK
<1> QED BY <1>1, <1>2, <1>3, <1>4, AddTx

-----------------------------------------------------------------------------
(* Steps that leave memory, rows and what was applied alone.               *)

Values == <<memory, rows, applied>>

\* What is said of changes and values holds after such a step.
LEMMA InsideStill ==
    ASSUME NEW T, UNCHANGED Values, Inside(T)
    PROVE  Inside(T)'
BY DEF Values, Inside, GateOK, ValuesOK, Touches

\* The invariant after such a step.
LEMMA StillInv ==
    ASSUME IInv, UNCHANGED Values, DataOK',
           TxsOK(txs'), CountOK(txs', busy'), Inside(txs')
    PROVE  IInv'
<1>1. Inside(txs)'
  BY InsideStill
<1>2. TxsOK(txs)' /\ CountOK(txs, busy)'
  BY DEF TxsOK, TxOK, CountOK, Holding
<1> QED BY <1>1, <1>2 DEF IInv

\* Transactions that change nothing come, and those that are not stored or
\* changed nothing go.
LEMMA InsideKept ==
    ASSUME NEW T, Inside(T), NEW U,
           \A v \in U, o \in Objects : Touches(v, o) => v \in T,
           \A t \in T, o \in Objects : Touches(t, o) /\ t \notin U => t.stage = "db"
    PROVE  Inside(U)
<1>1. GateOK(U)
  BY DEF Inside, GateOK
<1>2. ASSUME NEW o \in Objects, \A v \in U : ~Touches(v, o)
      PROVE  memory[o] = applied[o] /\ rows[o] = applied[o]
  <2>1. CASE \A t \in T : ~Touches(t, o)
    BY <2>1 DEF Inside, ValuesOK
  <2>2. CASE \E t \in T : Touches(t, o)
    BY <1>2, <2>2 DEF Inside, ValuesOK
  <2> QED BY <2>1, <2>2
<1>3. ValuesOK(U)
  BY <1>2 DEF Inside, ValuesOK
<1> QED BY <1>1, <1>3 DEF Inside

\* The steps of connections, queues and the loop.
LEMMA QueueInv ==
    ASSUME IInv, UNCHANGED <<Values, txs, busy>>, DataOK'
    PROVE  IInv'
BY StillInv DEF IInv, Values

\* A connection starts or ends.
LEMMA OwnerInv ==
    ASSUME IInv, owner' \in Users \cup {NoUser},
           UNCHANGED <<gated, free, busy, loop, txs, Values>>
    PROVE  IInv'
<1>1. DataOK'
  BY DEF IInv, DataOK, Values
<1> QED BY <1>1, QueueInv

\* The queues change.
LEMMA QueuesInv ==
    ASSUME IInv, UNCHANGED <<owner, busy, loop, txs, Values>>,
           gated' = [u \in Users |-> gated'[u]], free' = [u \in Users |-> free'[u]],
           \A u \in Users : /\ gated'[u] \in Seq(GatedPackets)
                            /\ free'[u] \in Seq(FreePackets)
    PROVE  IInv'
<1>1. DataOK'
  BY DEF IInv, DataOK, Values
<1> QED BY <1>1, QueueInv

\* The loop moves on.
LEMMA LoopInv ==
    ASSUME IInv, UNCHANGED <<owner, gated, free, busy, txs, Values>>,
           "at" \in DOMAIN loop', "user" \in DOMAIN loop',
           loop'.at # "idle" => loop'.user \in Users
    PROVE  IInv'
<1>1. DataOK'
  BY DEF IInv, DataOK, Values
<1> QED BY <1>1, QueueInv

\* The client's steps.
LEMMA ClientInv ==
    ASSUME IInv, Client
    PROVE  IInv'
<1> PICK u \in Users :
        \/ possess(u) \/ close(u) \/ release(u)
        \/ kickout(u) \/ pushTimeout(u)
        \/ \E p \in GatedPackets : dispatchGated(u, p)
        \/ \E p \in FreePackets : dispatchFree(u, p)
  BY DEF Client
<1>1. DataOK
  BY DEF IInv
<1>2. CASE possess(u) \/ close(u) \/ kickout(u) \/ pushTimeout(u)
  BY <1>2, OwnerInv DEF possess, close, kickout, pushTimeout, Values
<1>3. CASE release(u)
  <2>1. /\ gated' = [gated EXCEPT ![u] = <<>>] /\ free' = [free EXCEPT ![u] = <<>>]
        /\ UNCHANGED <<owner, busy, loop, txs, Values>>
    BY <1>3 DEF release, Values
  <2>2. <<>> \in Seq(GatedPackets) /\ <<>> \in Seq(FreePackets)
    OBVIOUS
  <2>3. \A v \in Users : /\ gated'[v] \in Seq(GatedPackets)
                         /\ free'[v] \in Seq(FreePackets)
    BY <1>1, <2>1, <2>2 DEF DataOK
  <2> QED BY <1>1, <2>1, <2>3, QueuesInv DEF DataOK
<1>4. ASSUME NEW p \in GatedPackets, dispatchGated(u, p) PROVE IInv'
  <2>1. /\ gated' = [gated EXCEPT ![u] = Append(gated[u], p)] /\ free' = free
        /\ UNCHANGED <<owner, busy, loop, txs, Values>>
    BY <1>1, <1>4 DEF dispatchGated, Values, DataOK
  <2>2. \A v \in Users : gated'[v] \in Seq(GatedPackets)
    BY <1>1, <2>1 DEF DataOK
  <2> QED BY <1>1, <2>1, <2>2, QueuesInv DEF DataOK
<1>5. ASSUME NEW p \in FreePackets, dispatchFree(u, p) PROVE IInv'
  <2>1. /\ free' = [free EXCEPT ![u] = Append(free[u], p)] /\ gated' = gated
        /\ UNCHANGED <<owner, busy, loop, txs, Values>>
    BY <1>1, <1>5 DEF dispatchFree, Values, DataOK
  <2>2. \A v \in Users : free'[v] \in Seq(FreePackets)
    BY <1>1, <2>1 DEF DataOK
  <2> QED BY <1>1, <2>1, <2>2, QueuesInv DEF DataOK
<1> QED BY <1>2, <1>3, <1>4, <1>5

-----------------------------------------------------------------------------
(* The handlers.                                                           *)

\* A handler of a packet that changes nothing, or behind an open gate: no
\* change is under way, for the one connection holds none.
LEMMA HandleIs ==
    ASSUME IInv, NUsers = 1, NEW u \in Users, NEW p \in Packet, handle(u, p),
           p.writes = {} \/ (p.updater /\ busy[u] = 0)
    PROVE  /\ TxsOK(txs') /\ CountOK(txs', busy') /\ Inside(txs')
           /\ busy' \in [Users -> Int]
<1>1. /\ DataOK /\ TxsOK(txs) /\ CountOK(txs, busy) /\ Inside(txs)
      /\ busy \in [Users -> Int]
  BY DEF IInv, DataOK
<1>2. CASE UNCHANGED <<txs, busy>>
  BY <1>1, <1>2
<1>3. CASE ~UNCHANGED <<txs, busy>>
  <2> DEFINE w == p.writes
             c == p.chains
  <2> PICK n : n = NewTx(w, c, u, memory, txs)
    OBVIOUS
  <2>1. /\ p.updater /\ busy[u] = 0
        /\ txs' = txs \cup {n}
        /\ busy' = [v \in Users |-> busy[v] + IF v = u THEN 1 ELSE 0]
    BY <1>3 DEF handle, createBusyUpdater
  <2>2. w \in SUBSET Objects /\ u \in Users \cup {NoUser} /\ IsFiniteSet(txs)
    BY <1>1 DEF Packet, TxsOK
  <2> HIDE DEF w, c
  <2>3. /\ TxOK(n) /\ n.holder = u /\ n.stage = "db"
        /\ \A t \in txs : t.id # n.id
        /\ DOMAIN n.clone = w
        /\ \A o \in w : n.clone[o] = memory[o] + 1
    <3>1. IsNew(n, w, u, memory, txs)
      BY <2>2, NewTxIs
    <3> QED BY <3>1 DEF IsNew
  <2>4. /\ busy' \in [Users -> Int]
        /\ \A v \in Users : busy'[v] = busy[v] + IF v = n.holder THEN 1 ELSE 0
    BY <1>1, <2>1, <2>3
  <2>5. TxsOK(txs \cup {n}) /\ CountOK(txs \cup {n}, busy')
    BY <1>1, <2>3, <2>4, AddTx
  <2>6. \A t \in txs, o \in Objects : ~Touches(t, o)
    <3>1. Users = {1}
      BY DEF Users
    <3>2. ASSUME NEW t \in txs, t.holder = u PROVE FALSE
      <4>1. t \in Holding(txs, u) /\ Cardinality(Holding(txs, u)) = 0
        BY <1>1, <2>1, <3>2 DEF Holding, CountOK
      <4>2. IsFiniteSet(Holding(txs, u))
        BY <1>1, FS_Subset DEF TxsOK, Holding
      <4> QED BY <4>1, <4>2, FS_EmptySet
    <3>3. \A t \in txs : t.holder = NoUser
      BY <1>1, <3>1, <3>2 DEF TxsOK, TxOK
    <3> QED BY <1>1, <3>3 DEF Inside, GateOK
  <2>7. GateOK(txs \cup {n})
    BY <2>3, <2>6, PlayerTxAssumption DEF GateOK, Users, NoUser
  <2>8. ValuesOK(txs \cup {n})
    <3>1. ASSUME NEW o \in Objects
          PROVE  memory[o] = applied[o] /\ rows[o] = applied[o]
      BY <1>1, <2>6 DEF Inside, ValuesOK
    <3> QED BY <2>3, <2>6, <3>1 DEF ValuesOK, Touches
  <2> QED BY <2>1, <2>4, <2>5, <2>7, <2>8 DEF Inside
<1> QED BY <1>2, <1>3

\* The room's steps.
LEMMA RoomInv ==
    ASSUME IInv, NUsers = 1, Cheats = FALSE, Room
    PROVE  IInv'
<1>1. DataOK
  BY DEF IInv
<1>2. CASE update
  <2>1. /\ loop' = [at |-> "free", user |-> owner] /\ owner \in Users
        /\ UNCHANGED <<owner, gated, free, busy, txs, Values>>
    BY <1>1, <1>2 DEF update, Values, DataOK
  <2>2. "at" \in DOMAIN loop' /\ "user" \in DOMAIN loop' /\ loop'.user \in Users
    BY <2>1
  <2> QED BY <2>1, <2>2, LoopInv
<1>3. CASE endFree \/ endGated
  <2>1. /\ (loop' = [loop EXCEPT !.at = "gated"] /\ loop.at # "idle") \/ loop' = Idle
        /\ UNCHANGED <<owner, gated, free, busy, txs, Values>>
    BY <1>3 DEF endFree, endGated, Values
  <2>2. "at" \in DOMAIN loop' /\ "user" \in DOMAIN loop'
        /\ (loop'.at # "idle" => loop'.user \in Users)
    <3>1. CASE loop' = Idle
      BY <3>1 DEF Idle
    <3>2. CASE loop' = [loop EXCEPT !.at = "gated"] /\ loop.at # "idle"
      BY <1>1, <3>2 DEF DataOK
    <3> QED BY <2>1, <3>1, <3>2
  <2> QED BY <2>1, <2>2, LoopInv
<1>4. CASE consumeFree
  <2> DEFINE u == loop.user
             q == free[u]
  <2>1. /\ u \in Users /\ q # <<>> /\ handle(u, Head(q))
        /\ free' = [free EXCEPT ![u] = Tail(q)]
        /\ UNCHANGED <<owner, gated, loop, Values>>
    BY <1>1, <1>4 DEF consumeFree, Values, DataOK
  <2>2. q \in Seq(FreePackets)
    BY <1>1, <2>1 DEF DataOK
  <2>3. Head(q) \in FreePackets /\ Tail(q) \in Seq(FreePackets)
    BY <2>1, <2>2
  <2>4. Head(q) \in Packet /\ Head(q).writes = {}
    BY <2>3 DEF FreePackets
  <2> HIDE DEF q
  <2>5. /\ TxsOK(txs') /\ CountOK(txs', busy') /\ Inside(txs')
        /\ busy' \in [Users -> Int]
    BY <2>1, <2>4, HandleIs
  <2>6. DataOK'
    BY <1>1, <2>1, <2>3, <2>5 DEF DataOK, Values
  <2> QED BY <2>1, <2>5, <2>6, StillInv
<1>5. CASE consumeGated
  <2> DEFINE u == loop.user
             q == gated[u]
  <2>1. /\ u \in Users /\ q # <<>> /\ handle(u, Head(q)) /\ busy[u] = 0
        /\ gated' = [gated EXCEPT ![u] = Tail(q)]
        /\ UNCHANGED <<owner, free, loop, Values>>
    BY <1>1, <1>5 DEF consumeGated, Values, DataOK
  <2>2. q \in Seq(GatedPackets)
    BY <1>1, <2>1 DEF DataOK
  <2>3. Head(q) \in GatedPackets /\ Tail(q) \in Seq(GatedPackets)
    BY <2>1, <2>2
  <2>4. Head(q) \in Packet /\ Head(q).updater
    BY <2>3 DEF GatedPackets
  <2> HIDE DEF q
  <2>5. /\ TxsOK(txs') /\ CountOK(txs', busy') /\ Inside(txs')
        /\ busy' \in [Users -> Int]
    BY <2>1, <2>4, HandleIs
  <2>6. DataOK'
    BY <1>1, <2>1, <2>3, <2>5 DEF DataOK, Values
  <2> QED BY <2>1, <2>5, <2>6, StillInv
<1> QED BY <1>2, <1>3, <1>4, <1>5 DEF Room

-----------------------------------------------------------------------------
(* The transactions.                                                       *)

\* The busy state when the updaters of a transaction are released.
LEMMA ReleaseIs ==
    ASSUME IInv, NEW t
    PROVE  /\ Release(t) \in [Users -> Int]
           /\ \A u \in Users : Release(t)[u] = busy[u] - IF u = t.holder THEN 1
                                                         ELSE 0
BY DEF IInv, DataOK, Release

\* The parts of the invariant about a set of transactions.
SetOK(T, B) == TxsOK(T) /\ CountOK(T, B) /\ Inside(T)

\* The invariant after a step of a transaction that leaves values alone.
LEMMA TxStepInv ==
    ASSUME IInv, UNCHANGED <<owner, gated, free, loop, Values>>,
           busy' \in [Users -> Int], SetOK(txs', busy')
    PROVE  IInv'
<1>1. DataOK'
  BY DEF IInv, DataOK, Values
<1> QED BY <1>1, StillInv DEF SetOK

\* A failed transaction ends.
LEMMA FailInv ==
    ASSUME IInv, NEW t \in txs, dbFail(t)
    PROVE  IInv'
<1>1. /\ TxsOK(txs) /\ CountOK(txs, busy) /\ Inside(txs)
      /\ busy \in [Users -> Int]
  BY DEF IInv, DataOK
<1>2. /\ t.stage = "db" /\ txs' = txs \ {t} /\ busy' = Release(t)
      /\ UNCHANGED <<owner, gated, free, loop, Values>>
  BY DEF dbFail, Values
<1>3. /\ busy' \in [Users -> Int]
      /\ \A u \in Users : busy'[u] = busy[u] - IF u = t.holder THEN 1 ELSE 0
  BY <1>2, ReleaseIs
<1>4. TxsOK(txs \ {t}) /\ CountOK(txs \ {t}, busy')
  BY <1>1, <1>3, RemoveTx
<1>5. \A x \in txs, o \in Objects :
          Touches(x, o) /\ x \notin txs \ {t} => x.stage = "db"
  BY <1>2
<1>6. Inside(txs \ {t})
  BY <1>1, <1>5, InsideKept
<1> QED BY <1>2, <1>3, <1>4, <1>6, TxStepInv DEF SetOK

\* A quest completion whose CacheTx ends before its callback.
LEMMA HolderGone ==
    ASSUME NEW t, TxOK(t)
    PROVE  LET v == [t EXCEPT !.holder = NoUser] IN
           /\ TxOK(v) /\ v.id = t.id /\ v.holder = NoUser /\ v.stage = t.stage
           /\ v.clone = t.clone
BY DEF TxOK

\* The CacheTx of a quest completion ends.
LEMMA EndInv ==
    ASSUME IInv, NEW t \in txs, endTx(t)
    PROVE  IInv'
<1>1. /\ TxsOK(txs) /\ CountOK(txs, busy) /\ Inside(txs)
      /\ busy \in [Users -> Int]
  BY DEF IInv, DataOK
<1>2. /\ t.stage \in {"written", "told"} /\ busy' = Release(t)
      /\ UNCHANGED <<owner, gated, free, loop, Values>>
  BY DEF endTx, Values
<1>3. /\ busy' \in [Users -> Int]
      /\ \A u \in Users : busy'[u] = busy[u] - IF u = t.holder THEN 1 ELSE 0
  BY <1>2, ReleaseIs
<1>4. \A o \in Objects : ~Touches(t, o)
  BY <1>2 DEF Touches
<1>5. CASE t.stage = "told"
  <2>1. txs' = txs \ {t}
    BY <1>5 DEF endTx
  <2>2. TxsOK(txs \ {t}) /\ CountOK(txs \ {t}, busy')
    BY <1>1, <1>3, RemoveTx
  <2>3. Inside(txs \ {t})
    BY <1>1, <1>4, InsideKept
  <2> QED BY <1>2, <1>3, <2>1, <2>2, <2>3, TxStepInv DEF SetOK
<1>6. CASE t.stage # "told"
  <2> PICK v : v = [t EXCEPT !.holder = NoUser]
    OBVIOUS
  <2>1. txs' = (txs \ {t}) \cup {v}
    BY <1>6 DEF endTx
  <2>2. TxOK(v) /\ v.id = t.id /\ v.holder = NoUser /\ v.stage = t.stage
    BY <1>1, HolderGone DEF TxsOK
  <2>3. Moves(busy, busy', t, v)
    BY <1>1, <1>3, <2>2 DEF Users, NoUser, Moves
  <2>4. TxsOK((txs \ {t}) \cup {v}) /\ CountOK((txs \ {t}) \cup {v}, busy')
    BY <1>1, <2>2, <2>3, SwapTx
  <2>5. \A o \in Objects : ~Touches(v, o)
    BY <1>2, <2>2 DEF Touches
  <2>6. Inside((txs \ {t}) \cup {v})
    BY <1>1, <1>4, <2>5, InsideKept
  <2> QED BY <1>2, <1>3, <2>1, <2>4, <2>6, TxStepInv DEF SetOK
<1> QED BY <1>5, <1>6

\* The transaction a callback starts, if it does, changes nothing.
LEMMA ChainedIs ==
    ASSUME IInv, NEW others, SetOK(others, busy), Chained(others)
    PROVE  SetOK(txs', busy') /\ busy' \in [Users -> Int]
<1>1. /\ TxsOK(others) /\ CountOK(others, busy) /\ Inside(others)
      /\ busy \in [Users -> Int] /\ owner \in Users \cup {NoUser}
  BY DEF IInv, DataOK, SetOK
<1>2. CASE txs' = others /\ UNCHANGED busy
  BY <1>1, <1>2
<1>3. CASE ~(txs' = others /\ UNCHANGED busy)
  <2> PICK n : n = NewTx({}, FALSE, owner, memory, others)
    OBVIOUS
  <2>1. /\ txs' = others \cup {n}
        /\ busy' = [u \in Users |-> busy[u] + IF u = owner THEN 1 ELSE 0]
    BY <1>3 DEF Chained, createBusyUpdater
  <2>2. /\ TxOK(n) /\ n.holder = owner /\ \A t \in others : t.id # n.id
        /\ DOMAIN n.clone = {}
    <3>1. IsFiniteSet(others) /\ {} \in SUBSET Objects
      BY <1>1 DEF TxsOK
    <3>2. IsNew(n, {}, owner, memory, others)
      BY <1>1, <3>1, NewTxIs
    <3> QED BY <3>2 DEF IsNew
  <2>3. /\ busy' \in [Users -> Int]
        /\ \A u \in Users : busy'[u] = busy[u] + IF u = n.holder THEN 1 ELSE 0
    <3>1. busy' = [u \in Users |-> busy[u] + IF u = owner THEN 1 ELSE 0]
      BY <2>1
    <3>2. n.holder = owner
      BY <2>2
    <3>3. \A u \in Users : busy[u] \in Int
      BY <1>1
    <3>4. busy' \in [Users -> Int]
      BY <3>1, <3>3
    <3>5. \A u \in Users : busy'[u] = busy[u] + IF u = n.holder THEN 1 ELSE 0
      BY <3>1, <3>2
    <3> QED BY <3>4, <3>5
  <2>4. TxsOK(others \cup {n}) /\ CountOK(others \cup {n}, busy')
    <3>1. ASSUME NEW C \in [Users -> Int],
                 \A u \in Users : C[u] = busy[u] + IF u = n.holder THEN 1 ELSE 0
          PROVE  TxsOK(others \cup {n}) /\ CountOK(others \cup {n}, C)
      <4>1. TxsOK(others) /\ CountOK(others, busy) /\ busy \in [Users -> Int]
        BY <1>1
      <4>2. TxOK(n) /\ \A t \in others : t.id # n.id
        BY <2>2
      <4> QED BY ONLY <3>1, <4>1, <4>2, AddTx
    <3> QED BY ONLY <2>3, <3>1
  <2>5. \A o \in Objects : ~Touches(n, o)
    BY <2>2 DEF Touches
  <2>6. Inside(others \cup {n})
    BY <1>1, <2>5, InsideKept
  <2> QED BY <2>1, <2>3, <2>4, <2>6 DEF SetOK
<1> QED BY <1>2, <1>3

\* The callback of a quest completion.
LEMMA ChainInv ==
    ASSUME IInv, NEW t \in txs, chain(t)
    PROVE  IInv'
<1>1. /\ TxsOK(txs) /\ CountOK(txs, busy) /\ Inside(txs)
      /\ busy \in [Users -> Int]
  BY DEF IInv, DataOK
<1>2. t.stage = "written" /\ UNCHANGED <<owner, gated, free, loop, Values>>
  BY DEF chain, Values
<1>3. \A o \in Objects : ~Touches(t, o)
  BY <1>2 DEF Touches
<1>4. CASE t.holder = NoUser
  <2>1. Chained(txs \ {t})
    <3>1. (txs \ {t}) \cup {} = txs \ {t}
      OBVIOUS
    <3> QED BY <1>4, <3>1 DEF chain
  <2>2. \A u \in Users : busy[u] = busy[u] - IF u = t.holder THEN 1 ELSE 0
    BY <1>1, <1>4 DEF Users, NoUser
  <2>3. TxsOK(txs \ {t}) /\ CountOK(txs \ {t}, busy)
    BY <1>1, <2>2, RemoveTx
  <2>4. Inside(txs \ {t})
    BY <1>1, <1>3, InsideKept
  <2> QED BY <1>2, <2>1, <2>3, <2>4, ChainedIs, TxStepInv DEF SetOK
<1>5. CASE t.holder # NoUser
  <2> PICK v : v = [t EXCEPT !.stage = "told"]
    OBVIOUS
  <2>1. Chained((txs \ {t}) \cup {v})
    BY <1>5 DEF chain
  <2>2. TxOK(v) /\ v.id = t.id /\ v.holder = t.holder /\ v.stage = "told"
    BY <1>1, Staged DEF TxsOK
  <2>3. Moves(busy, busy, t, v)
    BY <1>1, <2>2 DEF Moves
  <2>4. TxsOK((txs \ {t}) \cup {v}) /\ CountOK((txs \ {t}) \cup {v}, busy)
    BY <1>1, <2>2, <2>3, SwapTx
  <2>5. \A o \in Objects : ~Touches(v, o)
    BY <2>2 DEF Touches
  <2>6. Inside((txs \ {t}) \cup {v})
    BY <1>1, <1>3, <2>5, InsideKept
  <2> QED BY <1>2, <2>1, <2>4, <2>6, ChainedIs, TxStepInv DEF SetOK
<1> QED BY <1>4, <1>5

\* Beside a change under way no other transaction touches an object.
LEMMA OthersTouchNothing ==
    ASSUME NEW T, TxsOK(T), Inside(T), NEW t \in T, t.stage \in {"db", "ok"},
           DOMAIN t.clone # {}, NEW x \in T \ {t}, NEW o \in Objects
    PROVE  ~Touches(x, o)
<1>1. PICK y \in Objects : Touches(t, y)
  BY DEF TxsOK, TxOK, Touches
<1> QED BY <1>1 DEF Inside, GateOK

\* The database commits: rows and what was applied follow the clones, and
\* memory is behind until the write-back.
LEMMA CommitInv ==
    ASSUME IInv, NEW t \in txs, dbCommit(t)
    PROVE  IInv'
<1>1. /\ DataOK /\ TxsOK(txs) /\ CountOK(txs, busy) /\ GateOK(txs)
      /\ ValuesOK(txs) /\ Inside(txs) /\ busy \in [Users -> Int]
  BY DEF IInv, DataOK, Inside
<1> PICK v : v = [t EXCEPT !.stage = "ok"]
  OBVIOUS
<1>2. /\ t.stage = "db" /\ txs' = (txs \ {t}) \cup {v}
      /\ UNCHANGED <<owner, gated, free, busy, loop, memory>>
  BY DEF dbCommit
<1>3. \A o \in Objects :
          /\ rows'[o] = IF o \in DOMAIN t.clone THEN t.clone[o] ELSE rows[o]
          /\ applied'[o] = applied[o] + IF o \in DOMAIN t.clone THEN 1 ELSE 0
  BY DEF dbCommit
<1>4. /\ TxOK(v) /\ v.id = t.id /\ v.holder = t.holder /\ v.stage = "ok"
      /\ v.clone = t.clone
  BY <1>1, Staged DEF TxsOK
<1>5. Moves(busy, busy, t, v)
  BY <1>1, <1>4 DEF Moves
<1>6. TxsOK(txs') /\ CountOK(txs', busy')
  BY <1>1, <1>2, <1>4, <1>5, SwapTx
<1>7. \A o \in Objects : Touches(v, o) <=> Touches(t, o)
  BY <1>2, <1>4 DEF Touches
<1>8. GateOK(txs')
  <2>1. ASSUME NEW x \in txs', NEW o \in Objects, Touches(x, o)
        PROVE  \/ x = v /\ Touches(t, o)
               \/ x \in txs \ {t}
    BY <1>2, <1>7, <2>1
  <2>2. ASSUME NEW x \in txs', NEW o \in Objects, Touches(x, o)
        PROVE  x.holder # NoUser
    BY <1>1, <1>4, <2>1, <2>2 DEF GateOK
  <2>3. ASSUME NEW x \in txs', NEW y \in txs', NEW o \in Objects, NEW z \in Objects,
               Touches(x, o), Touches(y, z)
        PROVE  x = y
    BY <1>1, <2>1, <2>3 DEF GateOK
  <2> QED BY <2>2, <2>3 DEF GateOK
<1>9. \A o \in Objects : o \in DOMAIN t.clone => Touches(t, o)
  BY <1>2 DEF Touches
<1>10. \A o \in Objects :
           memory[o] \in Int /\ rows[o] \in Int /\ applied[o] \in Int
  BY <1>1 DEF DataOK, Counters
<1>11. ASSUME NEW o \in Objects, o \in DOMAIN t.clone
       PROVE  memory[o] = applied[o] /\ t.clone[o] = memory[o] + 1
  BY <1>1, <1>2, <1>9, <1>11 DEF ValuesOK
<1>12. ASSUME NEW o \in Objects, \A x \in txs' : ~Touches(x, o)
       PROVE  memory'[o] = applied'[o] /\ rows'[o] = applied'[o]
  <2>1. o \notin DOMAIN t.clone /\ \A x \in txs : ~Touches(x, o)
    BY <1>2, <1>7, <1>9, <1>12
  <2>2. memory[o] = applied[o] /\ rows[o] = applied[o]
    BY <1>1, <2>1 DEF ValuesOK
  <2>3. rows'[o] = rows[o] /\ applied'[o] = applied[o]
    BY <1>3, <1>10, <2>1
  <2> QED BY <1>2, <2>2, <2>3
<1>13. ASSUME NEW o \in Objects, NEW x \in txs', Touches(x, o)
       PROVE  IF x.stage = "db"
              THEN /\ memory'[o] = applied'[o] /\ rows'[o] = applied'[o]
                   /\ x.clone[o] = memory'[o] + 1
              ELSE rows'[o] = applied'[o] /\ x.clone[o] = applied'[o]
  <2>1. CASE x = v
    <3>1. o \in DOMAIN t.clone
      BY <1>4, <1>13, <2>1 DEF Touches
    <3>2. rows'[o] = t.clone[o] /\ applied'[o] = applied[o] + 1
      BY <1>3, <3>1
    <3> QED BY <1>4, <1>11, <2>1, <3>1, <3>2
  <2>2. CASE x # v
    <3>1. x \in txs \ {t}
      BY <1>2, <2>2
    <3>2. o \notin DOMAIN t.clone
      BY <1>1, <1>2, <1>13, <3>1, OthersTouchNothing
    <3>3. rows'[o] = rows[o] /\ applied'[o] = applied[o] /\ memory'[o] = memory[o]
      BY <1>2, <1>3, <1>10, <3>2
    <3>4. IF x.stage = "db"
          THEN /\ memory[o] = applied[o] /\ rows[o] = applied[o]
               /\ x.clone[o] = memory[o] + 1
          ELSE rows[o] = applied[o] /\ x.clone[o] = applied[o]
      BY <1>1, <1>13, <3>1 DEF ValuesOK
    <3> QED BY <3>3, <3>4
  <2> QED BY <2>1, <2>2
<1>14. DataOK'
  <2>1. rows' = [o \in Objects |->
                    IF o \in DOMAIN t.clone THEN t.clone[o] ELSE rows[o]]
        /\ applied' = [o \in Objects |->
                        applied[o] + IF o \in DOMAIN t.clone THEN 1 ELSE 0]
    BY DEF dbCommit
  <2>2. \A o \in Objects : rows'[o] \in Int /\ applied'[o] \in Int
    BY <1>3, <1>10, <1>11
  <2>3. rows' \in Counters /\ applied' \in Counters
    BY <2>1, <2>2 DEF Counters
  <2> QED BY <1>1, <1>2, <2>3 DEF DataOK
<1>15. ValuesOK(txs)' /\ GateOK(txs)'
  BY <1>8, <1>12, <1>13 DEF ValuesOK, GateOK, Touches
<1>16. TxsOK(txs)' /\ CountOK(txs, busy)'
  BY <1>6 DEF TxsOK, TxOK, CountOK, Holding
<1> QED BY <1>14, <1>15, <1>16 DEF IInv, Inside

\* The write-back brings memory level with the rows.
LEMMA WriteBackInv ==
    ASSUME IInv, NEW t \in txs, writeBack(t)
    PROVE  IInv'
<1>1. /\ DataOK /\ TxsOK(txs) /\ CountOK(txs, busy) /\ GateOK(txs)
      /\ ValuesOK(txs) /\ Inside(txs) /\ busy \in [Users -> Int]
  BY DEF IInv, DataOK, Inside
<1>2. /\ t.stage = "ok" /\ memory' = Written(t)
      /\ UNCHANGED <<owner, gated, free, loop, rows, applied>>
  BY DEF writeBack
<1>3. \A o \in Objects :
          memory'[o] = IF o \in DOMAIN t.clone THEN t.clone[o] ELSE memory[o]
  BY <1>2 DEF Written
<1> DEFINE Kept == \A x \in txs', o \in Objects :
                       Touches(x, o) => x \in txs \ {t}
           Left == \A x \in txs \ {t} : x \in txs'
<1>4. /\ TxsOK(txs') /\ CountOK(txs', busy') /\ busy' \in [Users -> Int]
      /\ Kept /\ Left
  <2>1. CASE t.chains
    <3> PICK v : v = [t EXCEPT !.stage = "written"]
      OBVIOUS
    <3>1. txs' = (txs \ {t}) \cup {v} /\ busy' = busy
      BY <2>1 DEF writeBack
    <3>2. TxOK(v) /\ v.id = t.id /\ v.holder = t.holder /\ v.stage = "written"
      BY <1>1, Staged DEF TxsOK
    <3>3. Moves(busy, busy, t, v)
      BY <1>1, <3>2 DEF Moves
    <3>4. TxsOK(txs') /\ CountOK(txs', busy')
      BY <1>1, <3>1, <3>2, <3>3, SwapTx
    <3>5. Kept /\ Left
      BY <3>1, <3>2 DEF Touches
    <3> QED BY <1>1, <3>1, <3>4, <3>5
  <2>2. CASE ~t.chains
    <3>1. txs' = txs \ {t} /\ busy' = Release(t)
      BY <2>2 DEF writeBack
    <3>2. /\ busy' \in [Users -> Int]
          /\ \A u \in Users : busy'[u] = busy[u] - IF u = t.holder THEN 1 ELSE 0
      BY <3>1, ReleaseIs
    <3>3. TxsOK(txs') /\ CountOK(txs', busy')
      BY <1>1, <3>1, <3>2, RemoveTx
    <3> QED BY <3>1, <3>2, <3>3
  <2> QED BY <2>1, <2>2
<1>5. GateOK(txs')
  BY <1>1, <1>4 DEF GateOK
<1>6. \A o \in Objects : o \in DOMAIN t.clone => Touches(t, o)
  BY <1>2 DEF Touches
<1>7. ASSUME NEW o \in Objects, o \in DOMAIN t.clone
      PROVE  rows[o] = applied[o] /\ t.clone[o] = applied[o]
  BY <1>1, <1>2, <1>6, <1>7 DEF ValuesOK
<1>8. ASSUME NEW o \in Objects, \A x \in txs' : ~Touches(x, o)
      PROVE  memory'[o] = applied[o] /\ rows[o] = applied[o]
  <2>1. CASE o \in DOMAIN t.clone
    BY <1>3, <1>7, <2>1
  <2>2. CASE o \notin DOMAIN t.clone
    <3>1. \A x \in txs : ~Touches(x, o)
      BY <1>4, <1>8, <2>2 DEF Touches
    <3> QED BY <1>1, <1>3, <2>2, <3>1 DEF ValuesOK
  <2> QED BY <2>1, <2>2
<1>9. ASSUME NEW o \in Objects, NEW x \in txs', Touches(x, o)
      PROVE  IF x.stage = "db"
             THEN /\ memory'[o] = applied[o] /\ rows[o] = applied[o]
                  /\ x.clone[o] = memory'[o] + 1
             ELSE rows[o] = applied[o] /\ x.clone[o] = applied[o]
  <2>1. x \in txs \ {t}
    BY <1>4, <1>9
  <2>2. o \notin DOMAIN t.clone
    BY <1>1, <1>2, <1>9, <2>1, OthersTouchNothing
  <2>3. memory'[o] = memory[o]
    BY <1>3, <2>2
  <2>4. IF x.stage = "db"
        THEN /\ memory[o] = applied[o] /\ rows[o] = applied[o]
             /\ x.clone[o] = memory[o] + 1
        ELSE rows[o] = applied[o] /\ x.clone[o] = applied[o]
    BY <1>1, <1>9, <2>1 DEF ValuesOK
  <2> QED BY <2>3, <2>4
<1>10. DataOK'
  <2>1. \A o \in Objects : memory'[o] \in Int
    BY <1>1, <1>3, <1>7 DEF DataOK, Counters
  <2>2. memory' \in Counters
    BY <1>2, <2>1 DEF Written, Counters
  <2> QED BY <1>1, <1>2, <1>4, <2>2 DEF DataOK
<1>11. ValuesOK(txs)' /\ GateOK(txs)'
  BY <1>2, <1>5, <1>8, <1>9 DEF ValuesOK, GateOK, Touches
<1>12. TxsOK(txs)' /\ CountOK(txs, busy)'
  BY <1>4 DEF TxsOK, TxOK, CountOK, Holding
<1> QED BY <1>10, <1>11, <1>12 DEF IInv, Inside

-----------------------------------------------------------------------------
(* The theorems.                                                           *)

\* Nothing is under way at the start.
LEMMA InitIInv == Init => IInv
<1> SUFFICES ASSUME Init PROVE IInv
  OBVIOUS
<1>1. <<>> \in Seq(GatedPackets) /\ <<>> \in Seq(FreePackets)
  OBVIOUS
<1>2. DataOK
  BY <1>1 DEF Init, DataOK, Idle, Counters
<1>3. TxsOK(txs)
  BY FS_EmptySet DEF Init, TxsOK
<1>4. CountOK(txs, busy)
  <2>1. \A u \in Users : Holding(txs, u) = {}
    BY DEF Init, Holding
  <2>2. \A u \in Users : busy[u] = 0
    BY DEF Init
  <2> QED BY <2>1, <2>2, FS_EmptySet DEF CountOK
<1>5. Inside(txs)
  BY DEF Init, Inside, GateOK, ValuesOK
<1> QED BY <1>2, <1>3, <1>4, <1>5 DEF IInv

\* Every step keeps the invariant.
LEMMA NextIInv ==
    ASSUME NUsers = 1, Cheats = FALSE, IInv, [Next]_vars
    PROVE  IInv'
<1>1. CASE Client
  BY <1>1, ClientInv
<1>2. CASE Room
  BY <1>2, RoomInv
<1>3. ASSUME NEW t \in txs, writeBack(t) \/ endTx(t) \/ chain(t) PROVE IInv'
  BY <1>3, WriteBackInv, EndInv, ChainInv
<1>4. ASSUME NEW t \in txs, dbCommit(t) \/ dbFail(t) PROVE IInv'
  BY <1>4, CommitInv, FailInv
<1>5. CASE UNCHANGED vars
  <2>1. UNCHANGED <<owner, gated, free, busy, loop, txs, Values>>
    BY <1>5 DEF vars, Values
  <2>2. owner \in Users \cup {NoUser}
    BY DEF IInv, DataOK
  <2> QED BY <2>1, <2>2, OwnerInv
<1> QED BY <1>1, <1>2, <1>3, <1>4, <1>5 DEF Next, WriteBacks, Database

\* With one connection and no cheats the busy state counts the transactions
\* that hold the gate, one change at most is under way, and it holds the gate.
THEOREM Invariance ==
    ASSUME NUsers = 1, Cheats = FALSE
    PROVE  Spec => []IInv
<1>1. IInv /\ [Next]_vars => IInv'
  BY NextIInv
<1> QED BY <1>1, InitIInv, PTL DEF Spec

\* With one connection and no cheats the gate keeps two changes of the same
\* object apart: every committed change is in memory and in the rows.
THEOREM GateProtects ==
    ASSUME NUsers = 1, Cheats = FALSE
    PROVE  Spec => []NoLostUpdate
<1>1. IInv => NoLostUpdate
  BY DEF IInv, Inside, ValuesOK, NoLostUpdate, Touching, Touches
<1> QED BY <1>1, Invariance, PTL
=============================================================================
