---------------------------- MODULE ItemsProofs ----------------------------
(***************************************************************************)
(* Proofs about Items, for any items, stacks, reward groups and bounds:    *)
(* the four invariants of ItemsFlow.                                       *)
(***************************************************************************)
EXTENDS Items, FiniteSetTheorems, WellFoundedInduction, TLAPS

-----------------------------------------------------------------------------
(* What the community modules' folds and sums compute.  The library's      *)
(* induction theorems take an operator, which no prover instantiates: here *)
(* an induction is over the numbers in a set, and ends in `NatSet'.        *)

\* Induction over the natural numbers.
LEMMA NatSet ==
    ASSUME NEW N \in SUBSET Nat, 0 \in N, \A n \in N : n + 1 \in N
    PROVE  N = Nat
<1> DEFINE T == Nat \ N
           R == OpToRel(<, Nat)
<1> SUFFICES ASSUME T # {} PROVE FALSE
  OBVIOUS
<1>1. IsWellFoundedOn(R, Nat)
  BY NatLessThanWellFounded
<1>2. \A x, y \in Nat : <<x, y>> \in R <=> x < y
  BY DEF OpToRel
<1> HIDE DEF R
<1>3. \E x \in T : \A y \in T : ~(<<y, x>> \in R)
  BY <1>1, WFMin
<1> PICK x \in T : \A y \in T : ~(y < x)
  BY <1>2, <1>3
<1>4. x - 1 \in T /\ x - 1 < x
  OBVIOUS
<1> QED BY <1>4

\* Every nonempty subset of S has an element that c chooses.
Chooses(c, S) == \A s \in (SUBSET S) \ {{}} : c[s] \in s

\* A finite set without one of its elements.
LEMMA Smaller ==
    ASSUME NEW s, IsFiniteSet(s), NEW x \in s
    PROVE  /\ IsFiniteSet(s \ {x}) /\ Cardinality(s \ {x}) \in Nat
           /\ Cardinality(s) = Cardinality(s \ {x}) + 1
<1>1. IsFiniteSet(s \ {x}) /\ Cardinality(s \ {x}) = Cardinality(s) - 1
  BY FS_RemoveElement
<1> QED BY <1>1, FS_CardinalityType

\* Induction over the subsets of a finite set, by the elements c chooses.
LEMMA SetInduction ==
    ASSUME NEW S, IsFiniteSet(S), NEW c, Chooses(c, S),
           NEW G, {} \in G,
           \A s \in (SUBSET S) \ {{}} : s \ {c[s]} \in G => s \in G
    PROVE  SUBSET S \subseteq G
<1> DEFINE N == {n \in Nat : \A s \in SUBSET S : Cardinality(s) = n => s \in G}
<1>1. \A s \in SUBSET S : IsFiniteSet(s) /\ Cardinality(s) \in Nat
  BY FS_Subset, FS_CardinalityType
<1>2. 0 \in N
  BY <1>1, FS_EmptySet
<1>3. ASSUME NEW n \in N PROVE n + 1 \in N
  <2> SUFFICES ASSUME NEW s \in SUBSET S, Cardinality(s) = n + 1 PROVE s \in G
    OBVIOUS
  <2>1. s # {}
    <3>1. n \in Nat
      OBVIOUS
    <3> HIDE DEF N
    <3> QED BY <3>1, FS_EmptySet
  <2>2. c[s] \in s
    BY <2>1 DEF Chooses
  <2>3. Cardinality(s \ {c[s]}) = n
    BY <1>1, <2>2, Smaller
  <2> QED BY <2>1, <2>3
<1>4. N = Nat
  <2> HIDE DEF N
  <2>1. N \in SUBSET Nat
    BY DEF N
  <2> QED BY <1>2, <1>3, <2>1, NatSet
<1> QED BY <1>1, <1>4

\* What a fold has reached after each set of elements.
IsFold(g, c, F, base, S) ==
    \A s \in SUBSET S :
        g[s] = IF s = {} THEN base ELSE F[c[s]][g[s \ {c[s]}]]

\* There is the function a fold over a finite set is defined by.
LEMMA FoldExists ==
    ASSUME NEW S, IsFiniteSet(S), NEW c, Chooses(c, S),
           NEW W, NEW base \in W, NEW F \in [S -> [W -> W]]
    PROVE  \E g \in [SUBSET S -> W] : IsFold(g, c, F, base, S)
<1> DEFINE Upto(n) == {s \in SUBSET S : Cardinality(s) <= n}
           Folds(g, n) == \A s \in Upto(n) :
               g[s] = IF s = {} THEN base ELSE F[c[s]][g[s \ {c[s]}]]
           N == {n \in Nat : \E g \in [Upto(n) -> W] : Folds(g, n)}
<1>1. \A s \in SUBSET S : IsFiniteSet(s) /\ Cardinality(s) \in Nat
  BY FS_Subset, FS_CardinalityType
<1>2. 0 \in N
  <2> DEFINE g == [s \in Upto(0) |-> base]
  <2>1. g \in [Upto(0) -> W]
    OBVIOUS
  <2>2. \A s \in Upto(0) : s = {}
    BY <1>1, FS_EmptySet
  <2>3. Folds(g, 0)
    BY <2>2
  <2> QED BY <2>1, <2>3
<1>3. ASSUME NEW n \in N PROVE n + 1 \in N
  <2> PICK g \in [Upto(n) -> W] : Folds(g, n)
    OBVIOUS
  <2> DEFINE h == [s \in Upto(n + 1) |->
                     IF s = {} THEN base ELSE F[c[s]][g[s \ {c[s]}]]]
  <2>1. ASSUME NEW s \in Upto(n + 1), s # {}
        PROVE  c[s] \in S /\ s \ {c[s]} \in Upto(n) /\ s \ {c[s]} \in Upto(n + 1)
    <3>1. c[s] \in s
      BY <2>1 DEF Chooses
    <3> QED BY <1>1, <3>1, Smaller
  <2>2. h \in [Upto(n + 1) -> W]
    BY <2>1
  <2>3. ASSUME NEW s \in Upto(n) PROVE h[s] = g[s] /\ s \in Upto(n + 1)
    <3>1. n \in Nat /\ Cardinality(s) \in Nat /\ Cardinality(s) <= n
      BY <1>1
    <3>2. s \in Upto(n + 1)
      BY <3>1
    <3>3. h[s] = IF s = {} THEN base ELSE F[c[s]][g[s \ {c[s]}]]
      BY <3>2
    <3> QED BY <3>2, <3>3
  <2>4. ASSUME NEW s \in Upto(n + 1)
        PROVE  h[s] = IF s = {} THEN base ELSE F[c[s]][h[s \ {c[s]}]]
    <3>1. h[s] = IF s = {} THEN base ELSE F[c[s]][g[s \ {c[s]}]]
      OBVIOUS
    <3>2. s # {} => h[s \ {c[s]}] = g[s \ {c[s]}]
      BY <2>1, <2>3
    <3> QED BY <3>1, <3>2
  <2>5. n + 1 \in Nat
    OBVIOUS
  <2> HIDE DEF h, Upto
  <2> QED BY <2>2, <2>4, <2>5
<1>4. N = Nat
  <2> HIDE DEF N
  <2>1. N \in SUBSET Nat
    BY DEF N
  <2> QED BY <1>2, <1>3, <2>1, NatSet
<1>5. Upto(Cardinality(S)) = SUBSET S
  BY <1>1, FS_Subset
<1>6. Cardinality(S) \in N
  BY <1>1, <1>4
<1> QED BY <1>5, <1>6 DEF IsFold

-----------------------------------------------------------------------------
(* Sums.                                                                   *)

First(s) == CHOOSE x \in s : TRUE

\* h[s] is the sum of f over s, for the subsets s of S.
Sums(h, f, S) ==
    /\ h \in [SUBSET S -> Int]
    /\ \A s \in SUBSET S :
          h[s] = IF s = {} THEN 0 ELSE f[First(s)] + h[s \ {First(s)}]

LEMMA SumIs ==
    ASSUME NEW S, IsFiniteSet(S), NEW f, \A x \in S : f[x] \in Int
    PROVE  \E h : Sums(h, f, S) /\ SumFunctionOnSet(f, S) = h[S]
<1> DEFINE c == [s \in SUBSET S |-> First(s)]
           F == [x \in S |-> [n \in Int |-> f[x] + n]]
           Body(h) == [s \in SUBSET S |->
               IF s = {} THEN 0 ELSE f[First(s)] + h[s \ {First(s)}]]
<1>1. \A s \in (SUBSET S) \ {{}} : First(s) \in s /\ c[s] = First(s)
  BY DEF First
<1>2. Chooses(c, S) /\ F \in [S -> [Int -> Int]] /\ 0 \in Int
  BY <1>1 DEF Chooses
<1> PICK g \in [SUBSET S -> Int] : IsFold(g, c, F, 0, S)
  <2> DEFINE W == Int
             base == 0
  <2>1. Chooses(c, S) /\ F \in [S -> [W -> W]] /\ base \in W
    BY <1>2
  <2> HIDE DEF c, F, Body, W, base
  <2>2. \E g \in [SUBSET S -> W] : IsFold(g, c, F, base, S)
    BY <2>1, FoldExists
  <2> QED BY <2>2 DEF W, base
<1>3. ASSUME NEW s \in SUBSET S
      PROVE  g[s] = IF s = {} THEN 0 ELSE f[First(s)] + g[s \ {First(s)}]
  <2>1. CASE s = {}
    BY <2>1 DEF IsFold
  <2>2. CASE s # {}
    <3>1. c[s] = First(s) /\ First(s) \in S /\ s \ {First(s)} \in SUBSET S
      BY <1>1, <2>2
    <3>2. F[First(s)][g[s \ {First(s)}]] = f[First(s)] + g[s \ {First(s)}]
      BY <3>1
    <3> QED BY <2>2, <3>1, <3>2 DEF IsFold
  <2> QED BY <2>1, <2>2
<1>4. g = Body(g)
  BY <1>3
<1> DEFINE H == CHOOSE h : h = Body(h)
<1>5. H = Body(H)
  <2> HIDE DEF Body
  <2> QED BY <1>4
<1>6. SumFunctionOnSet(f, S) = H[S]
  BY DEF SumFunctionOnSet, FoldFunctionOnSet, MapThenFoldSet, First
<1> HIDE DEF H
<1>7. \A s \in SUBSET S :
          H[s] = IF s = {} THEN 0 ELSE f[First(s)] + H[s \ {First(s)}]
  BY <1>5
<1>8. ASSUME NEW s \in SUBSET S PROVE H[s] \in Int
  <2> DEFINE G == {t \in SUBSET S : H[t] \in Int}
  <2>1. {} \in G
    <3>1. H[{}] = 0
      BY <1>7
    <3> QED BY <3>1
  <2>2. ASSUME NEW t \in (SUBSET S) \ {{}}, t \ {c[t]} \in G PROVE t \in G
    <3>1. c[t] = First(t) /\ First(t) \in S /\ H[t \ {First(t)}] \in Int
      BY <1>1, <2>2
    <3>2. H[t] = f[First(t)] + H[t \ {First(t)}]
      BY <1>7
    <3> QED BY <3>1, <3>2
  <2>3. Chooses(c, S)
    BY <1>2
  <2> HIDE DEF G, c
  <2>4. SUBSET S \subseteq G
    BY ONLY IsFiniteSet(S), <2>1, <2>2, <2>3, SetInduction
  <2> QED BY <2>4 DEF G
<1>9. H \in [SUBSET S -> Int]
  BY <1>5, <1>8
<1> QED BY <1>6, <1>7, <1>9 DEF Sums

\* The sum over a part of S, whichever function the sum over S is.
LEMMA SumPart ==
    ASSUME NEW S, IsFiniteSet(S), NEW f, \A x \in S : f[x] \in Int,
           NEW h, Sums(h, f, S), NEW T \in SUBSET S
    PROVE  SumFunctionOnSet(f, T) = h[T]
<1>1. IsFiniteSet(T) /\ \A x \in T : f[x] \in Int
  BY FS_Subset
<1> PICK k : Sums(k, f, T) /\ SumFunctionOnSet(f, T) = k[T]
  BY <1>1, SumIs
<1> DEFINE c == [s \in SUBSET T |-> First(s)]
           G == {s \in SUBSET T : k[s] = h[s]}
<1>2. Chooses(c, T)
  BY DEF Chooses, First
<1>3. {} \in G
  <2>1. k[{}] = 0 /\ h[{}] = 0
    BY DEF Sums
  <2> QED BY <2>1
<1>4. ASSUME NEW s \in (SUBSET T) \ {{}}, s \ {c[s]} \in G PROVE s \in G
  <2>1. c[s] = First(s) /\ k[s \ {First(s)}] = h[s \ {First(s)}]
    BY <1>4
  <2>2. k[s] = f[First(s)] + k[s \ {First(s)}]
    BY DEF Sums
  <2>3. h[s] = f[First(s)] + h[s \ {First(s)}]
    BY DEF Sums
  <2> QED BY <2>1, <2>2, <2>3
<1>5. SUBSET T \subseteq G
  <2> HIDE DEF G, c
  <2> QED BY ONLY <1>1, <1>2, <1>3, <1>4, SetInduction
<1>6. T \in G
  BY <1>5
<1> QED BY <1>6

\* Any element can be added last.
LEMMA SumLast ==
    ASSUME NEW S, IsFiniteSet(S), NEW f, \A x \in S : f[x] \in Int,
           NEW h, Sums(h, f, S)
    PROVE  \A s \in SUBSET S, x \in S : x \in s => h[s] = f[x] + h[s \ {x}]
<1> DEFINE EachLast(s) == \A x \in s : h[s] = f[x] + h[s \ {x}]
           N == {n \in Nat : \A s \in SUBSET S : Cardinality(s) = n => EachLast(s)}
<1>1. \A s \in SUBSET S : IsFiniteSet(s) /\ Cardinality(s) \in Nat
  BY FS_Subset, FS_CardinalityType
<1>2. 0 \in N
  BY <1>1, FS_EmptySet
<1>3. ASSUME NEW n \in N PROVE n + 1 \in N
  <2> SUFFICES ASSUME NEW s \in SUBSET S, Cardinality(s) = n + 1, NEW x \in s
               PROVE  h[s] = f[x] + h[s \ {x}]
    OBVIOUS
  <2> DEFINE y == First(s)
             rest == s \ {x, y}
  <2>1. y \in s
    BY DEF First
  <2>2. h[s] = f[y] + h[s \ {y}]
    BY DEF Sums
  <2>3. CASE x = y
    BY <2>2, <2>3
  <2>4. CASE x # y
    <3>1. /\ s \ {x} \in SUBSET S /\ Cardinality(s \ {x}) = n
          /\ s \ {y} \in SUBSET S /\ Cardinality(s \ {y}) = n
      BY <1>1, <2>1, Smaller
    <3>2. EachLast(s \ {x}) /\ EachLast(s \ {y})
      BY <3>1
    <3>3. (s \ {x}) \ {y} = rest /\ (s \ {y}) \ {x} = rest
      OBVIOUS
    <3>4. h[s \ {x}] = f[y] + h[rest]
      BY <2>1, <2>4, <3>2, <3>3
    <3>5. h[s \ {y}] = f[x] + h[rest]
      BY <2>1, <2>4, <3>2, <3>3
    <3>6. f[x] \in Int /\ f[y] \in Int /\ h[rest] \in Int
      BY <2>1 DEF Sums
    <3> HIDE DEF y, rest
    <3> QED BY <2>2, <3>4, <3>5, <3>6
  <2> QED BY <2>3, <2>4
<1>4. N = Nat
  <2> HIDE DEF N
  <2>1. N \in SUBSET Nat
    BY DEF N
  <2> QED BY <1>2, <1>3, <2>1, NatSet
<1> QED BY <1>1, <1>4

\* The sum over a set, one element after the other.
LEMMA SumAdd ==
    ASSUME NEW S, IsFiniteSet(S), NEW f, \A x \in S : f[x] \in Int
    PROVE  /\ SumFunctionOnSet(f, S) \in Int
           /\ SumFunctionOnSet(f, {}) = 0
           /\ \A x \in S : SumFunctionOnSet(f, S) =
                              f[x] + SumFunctionOnSet(f, S \ {x})
<1> PICK h : Sums(h, f, S)
  BY SumIs
<1>1. \A T \in SUBSET S : SumFunctionOnSet(f, T) = h[T]
  BY SumPart
<1>2. h[S] \in Int /\ h[{}] = 0
  BY DEF Sums
<1>3. \A x \in S : h[S] = f[x] + h[S \ {x}]
  BY SumLast
<1>4. S \in SUBSET S /\ {} \in SUBSET S /\ \A x \in S : S \ {x} \in SUBSET S
  OBVIOUS
<1> QED BY <1>1, <1>2, <1>3, <1>4

\* Functions that agree on a set have the same sum over it.
LEMMA SumSame ==
    ASSUME NEW S, IsFiniteSet(S), NEW f, NEW g,
           \A x \in S : f[x] \in Int /\ g[x] = f[x]
    PROVE  SumFunctionOnSet(g, S) = SumFunctionOnSet(f, S)
<1> PICK h : Sums(h, f, S)
  BY SumIs
<1>1. \A s \in (SUBSET S) \ {{}} : First(s) \in S
  BY DEF First
<1>2. Sums(h, g, S)
  BY <1>1 DEF Sums
<1> QED BY <1>2, SumPart

-----------------------------------------------------------------------------
\* A finite set of integers has a greatest element.
LEMMA MaxIn ==
    ASSUME NEW S, S \subseteq Int, IsFiniteSet(S)
    PROVE  \A s \in (SUBSET S) \ {{}} : Max(s) \in s /\ \A y \in s : y <= Max(s)
<1> DEFINE HasMax(s) == \E m \in s : \A y \in s : m >= y
           c == [s \in SUBSET S |-> First(s)]
           G == {s \in SUBSET S : s = {} \/ HasMax(s)}
<1>1. Chooses(c, S)
  BY DEF Chooses, First
<1>2. {} \in G
  OBVIOUS
<1>3. ASSUME NEW s \in (SUBSET S) \ {{}}, s \ {c[s]} \in G PROVE s \in G
  <2>1. c[s] \in s
    BY DEF First
  <2>2. PICK x \in Int : x = c[s]
    BY <2>1
  <2>3. x \in s /\ (s \ {x} = {} \/ HasMax(s \ {x}))
    BY <1>3, <2>1, <2>2
  <2>4. CASE s \ {x} = {}
    <3>1. \A y \in s : x >= y
      BY <2>4
    <3> QED BY <2>3, <3>1
  <2>5. CASE HasMax(s \ {x})
    <3> PICK m \in s \ {x} : \A y \in s \ {x} : m >= y
      BY <2>5
    <3>1. m \in Int /\ m \in s /\ \A y \in s : y \in Int
      OBVIOUS
    <3>2. CASE m >= x
      <4>1. \A y \in s : m >= y
        BY <3>1, <3>2
      <4> QED BY <3>1, <4>1
    <3>3. CASE ~(m >= x)
      <4>1. \A y \in s : x >= y
        BY <3>1, <3>3
      <4> QED BY <2>3, <4>1
    <3> QED BY <3>2, <3>3
  <2> QED BY <2>3, <2>4, <2>5
<1>4. SUBSET S \subseteq G
  <2>1. IsFiniteSet(S)
    OBVIOUS
  <2> HIDE DEF G, c, HasMax
  <2> QED BY ONLY <1>1, <1>2, <1>3, <2>1, SetInduction
<1> SUFFICES ASSUME NEW s \in (SUBSET S) \ {{}}
             PROVE  Max(s) \in s /\ \A y \in s : y <= Max(s)
  OBVIOUS
<1>5. HasMax(s)
  BY <1>4
<1>6. Max(s) \in s /\ \A y \in s : Max(s) >= y
  BY <1>5 DEF Max
<1> QED BY <1>6

-----------------------------------------------------------------------------

Stacked == [info : Infos, accum : Int]

Copies == [crud : {"Insert", "Update"}, info : Infos, accum : Int, owned : BOOLEAN]

Stored == [info : Infos, accum : Int, owned : BOOLEAN]

\* Maps from ids.
Maps(S) == UNION {[D -> S] : D \in SUBSET Nat}

\* A copy or a row within the limits.
Fits(item) ==
    IF item.owned THEN item.accum \in 1..AccumMax[item.info] ELSE item.accum = 0

\* The tables and the bag.
DataOK ==
    /\ inRoom \in BOOLEAN /\ beside \in BOOLEAN
    /\ used \in Nat /\ started \in Nat
    /\ rows \in Maps(Stored) /\ DOMAIN rows \subseteq 1..used
    /\ \A id \in DOMAIN rows : Fits(rows[id])
    /\ inven \in Maps(Stacked) /\ DOMAIN inven \subseteq 1..used
    /\ \A id \in DOMAIN inven : inven[id].accum \in 1..AccumMax[inven[id].info]
    /\ balance \in [Infos -> Int]
    /\ ~inRoom => txs = {}

\* What a handler put into a transaction.
CopiesOK(copies, note) ==
    /\ copies \in Maps(Copies)
    /\ \A id \in DOMAIN copies : Fits(copies[id])
    /\ note = exportTo(copies)

Tx == [no : Nat, copies : Maps(Copies), note : Maps(Stacked), equip : Int,
       updater : BOOLEAN, cheat : BOOLEAN, delta : [Infos -> Int],
       stage : {"db", "ok"}]

TxOK(t) ==
    /\ t \in Tx
    /\ CopiesOK(t.copies, t.note) /\ DOMAIN t.copies \subseteq 1..used
    /\ t.updater \/ t.cheat

\* Copies are of stacks in the bag, or new.
Fresh(copies) ==
    \A id \in DOMAIN copies :
        IF copies[id].crud = "Insert" THEN copies[id].owned /\ id \notin DOMAIN inven
        ELSE id \in DOMAIN inven /\ copies[id].info = inven[id].info

\* What was asked for is what the copies add.
Adds(copies, delta) ==
    \A i \in Infos : Amount(Over(copies, rows), i) = Amount(rows, i) + delta[i]

\* Before the commit memory is the rows, after it what the write-back makes.
Memory ==
    inRoom /\ (\A t \in txs : t.stage = "db")
        => inven = _initByList /\ equips = equipRows

CleanTx(t) ==
    /\ Fresh(t.copies)
    /\ t.stage = "db" => Adds(t.copies, t.delta)
    /\ t.stage = "ok" => Items(t) = _initByList /\ Equipped(t) = equipRows

\* With no cheat beside another transaction there is one at a time.
Clean ==
    ~beside =>
        /\ \A t, v \in txs : t = v
        /\ inRoom => client = inven
        /\ Memory
        /\ \A t \in txs : CleanTx(t)
        /\ \A i \in Infos : Amount(rows, i) = balance[i]

IInv == DataOK /\ (\A t \in txs : TxOK(t)) /\ Clean

-----------------------------------------------------------------------------
(* Amounts.                                                                *)

\* Items whose accum is a number, finitely many.
Countable(R) == IsFiniteSet(DOMAIN R) /\ \A n \in DOMAIN R : R[n].accum \in Int

\* Only what is counted matters.
LEMMA AmountSame ==
    ASSUME NEW R, Countable(R), NEW Q, DOMAIN Q = DOMAIN R,
           \A n \in DOMAIN R : Q[n].accum = R[n].accum /\ Q[n].info = R[n].info,
           NEW i
    PROVE  Amount(Q, i) = Amount(R, i) /\ Amount(R, i) \in Int
<1> DEFINE S == {n \in DOMAIN R : R[n].info = i}
           f == [n \in DOMAIN R |-> R[n].accum]
           g == [n \in DOMAIN Q |-> Q[n].accum]
<1>1. IsFiniteSet(S) /\ \A n \in S : f[n] \in Int /\ g[n] = f[n]
  BY FS_Subset DEF Countable
<1>2. S = {n \in DOMAIN Q : Q[n].info = i}
  OBVIOUS
<1>3. Amount(Q, i) = SumFunctionOnSet(g, S) /\ Amount(R, i) = SumFunctionOnSet(f, S)
  BY <1>2 DEF Amount
<1> HIDE DEF S, f, g
<1> QED BY <1>1, <1>3, SumSame, SumAdd

\* One item is put, of the info it had.
LEMMA AmountPut ==
    ASSUME NEW R, Countable(R), NEW Q, NEW id, DOMAIN Q = DOMAIN R \cup {id},
           \A n \in DOMAIN R \ {id} : Q[n].accum = R[n].accum /\ Q[n].info = R[n].info,
           Q[id].accum \in Int, id \in DOMAIN R => Q[id].info = R[id].info,
           NEW i
    PROVE  /\ Countable(Q) /\ Amount(R, i) \in Int
           /\ Amount(Q, i) = Amount(R, i) +
                 IF Q[id].info # i THEN 0
                 ELSE Q[id].accum - IF id \in DOMAIN R THEN R[id].accum ELSE 0
<1> DEFINE SR == {n \in DOMAIN R : R[n].info = i}
           SQ == {n \in DOMAIN Q : Q[n].info = i}
           f == [n \in DOMAIN R |-> R[n].accum]
           g == [n \in DOMAIN Q |-> Q[n].accum]
           rest == SR \ {id}
<1>1. Countable(Q)
  BY FS_AddElement DEF Countable
<1>2. SQ \ {id} = rest
  OBVIOUS
<1>3. /\ IsFiniteSet(SR) /\ \A n \in SR : f[n] \in Int
      /\ IsFiniteSet(SQ) /\ \A n \in SQ : g[n] \in Int
  BY <1>1, FS_Subset DEF Countable
<1>4. IsFiniteSet(rest) /\ \A n \in rest : f[n] \in Int /\ g[n] = f[n]
  BY <1>3, FS_Subset
<1>5. Amount(R, i) = SumFunctionOnSet(f, SR) /\ Amount(Q, i) = SumFunctionOnSet(g, SQ)
  BY DEF Amount
<1>6. id \in SR <=> id \in DOMAIN R /\ Q[id].info = i
  OBVIOUS
<1>7. id \in SQ <=> Q[id].info = i
  OBVIOUS
<1>8. (id \in SR => f[id] = R[id].accum) /\ g[id] = Q[id].accum
  OBVIOUS
<1>9. (id \notin SR => SR = rest) /\ (id \notin SQ => SQ = rest)
  BY <1>2
<1>10. rest = SR \ {id}
  OBVIOUS
<1> HIDE DEF SR, SQ, f, g, rest
<1>11. SumFunctionOnSet(g, rest) = SumFunctionOnSet(f, rest)
  BY <1>4, SumSame
<1>12. SumFunctionOnSet(f, rest) \in Int
  BY <1>4, SumAdd
<1>13. SumFunctionOnSet(f, SR) = SumFunctionOnSet(f, rest)
                                   + IF id \in SR THEN f[id] ELSE 0
  <2>1. CASE id \in SR
    <3>1. SumFunctionOnSet(f, SR) = f[id] + SumFunctionOnSet(f, rest)
      BY <1>3, <1>10, <2>1, SumAdd
    <3>2. f[id] \in Int
      BY <1>3, <2>1
    <3> QED BY <1>12, <2>1, <3>1, <3>2
  <2>2. CASE id \notin SR
    BY <1>9, <1>12, <2>2
  <2> QED BY <2>1, <2>2
<1>14. SumFunctionOnSet(g, SQ) = SumFunctionOnSet(f, rest)
                                   + IF id \in SQ THEN g[id] ELSE 0
  <2>1. CASE id \in SQ
    <3>1. SumFunctionOnSet(g, SQ) = g[id] + SumFunctionOnSet(g, rest)
      BY <1>2, <1>3, <2>1, SumAdd
    <3>2. g[id] \in Int
      BY <1>3, <2>1
    <3> QED BY <1>11, <1>12, <2>1, <3>1, <3>2
  <2>2. CASE id \notin SQ
    BY <1>9, <1>11, <1>12, <2>2
  <2> QED BY <2>1, <2>2
<1>15. Amount(R, i) \in Int
  BY <1>3, <1>5, SumAdd
<1>16. id \in DOMAIN R => R[id].accum \in Int
  BY DEF Countable
<1>17. CASE Q[id].info # i
  BY <1>5, <1>6, <1>7, <1>12, <1>13, <1>14, <1>17, <1>1, <1>15
<1>18. CASE Q[id].info = i /\ id \in DOMAIN R
  BY <1>5, <1>6, <1>7, <1>8, <1>12, <1>13, <1>14, <1>16, <1>18, <1>1, <1>15
<1>19. CASE Q[id].info = i /\ id \notin DOMAIN R
  BY <1>5, <1>6, <1>7, <1>8, <1>12, <1>13, <1>14, <1>19, <1>1, <1>15
<1> QED BY <1>17, <1>18, <1>19

-----------------------------------------------------------------------------
(* The work of a handler.                                                  *)

Works == [copies : Maps(Copies), note : Maps(Stacked), used : Nat, left : Nat]

\* The rows once the copies are stored.
Later(w) == Over(w.copies, rows)

\* Memory has the rows that are owned, as it has between transactions.
Backed ==
    \A id \in DOMAIN inven :
        /\ id \in DOMAIN rows /\ rows[id].info = inven[id].info
        /\ rows[id].accum = inven[id].accum

WorkOK(w) ==
    /\ w \in Works /\ w.used >= used
    /\ CopiesOK(w.copies, w.note) /\ DOMAIN w.copies \subseteq 1..w.used
    /\ Fresh(w.copies)
    /\ \A id \in DOMAIN w.copies : w.copies[id].crud = "Insert" => id > used

\* The work of a reward takes nothing away.
Gives(w) == WorkOK(w) /\ \A id \in DOMAIN w.copies : w.copies[id].owned

\* A map with one more value.
LEMMA OverPut ==
    ASSUME NEW S, NEW f \in Maps(S), NEW id \in Nat, NEW x \in S
    PROVE  Over(Only(id, x), f) \in Maps(S)
<1> DEFINE D == DOMAIN f \cup {id}
           g == [n \in D |-> IF n = id THEN x ELSE f[n]]
<1>1. Over(Only(id, x), f) = g
  BY DEF Over, Only
<1>2. D \in SUBSET Nat /\ \A n \in DOMAIN f : f[n] \in S
  BY DEF Maps
<1>3. g \in [D -> S]
  BY <1>2
<1> QED BY <1>1, <1>2, <1>3 DEF Maps

\* Rows and copies are countable.
LEMMA LaterCounts ==
    ASSUME DataOK, NEW w, WorkOK(w)
    PROVE  /\ Countable(Later(w)) /\ Countable(rows)
           /\ DOMAIN Later(w) = DOMAIN w.copies \cup DOMAIN rows
           /\ \A id \in DOMAIN Later(w) :
                 Later(w)[id] = IF id \in DOMAIN w.copies THEN w.copies[id]
                                ELSE rows[id]
<1>1. /\ DOMAIN Later(w) = DOMAIN w.copies \cup DOMAIN rows
      /\ \A id \in DOMAIN Later(w) :
            Later(w)[id] = IF id \in DOMAIN w.copies THEN w.copies[id] ELSE rows[id]
  BY DEF Later, Over
<1>2. IsFiniteSet(1..used) /\ IsFiniteSet(1..w.used)
  BY FS_Interval DEF DataOK, WorkOK, Works
<1>3. IsFiniteSet(DOMAIN rows) /\ IsFiniteSet(DOMAIN w.copies)
  BY <1>2, FS_Subset DEF DataOK, WorkOK
<1>4. IsFiniteSet(DOMAIN Later(w))
  BY <1>1, <1>3, FS_Union
<1>5. \A id \in DOMAIN rows : rows[id] \in Stored
  BY DEF DataOK, Maps
<1>6. \A id \in DOMAIN w.copies : w.copies[id] \in Copies
  BY DEF WorkOK, CopiesOK, Maps
<1> QED BY <1>1, <1>3, <1>4, <1>5, <1>6 DEF Countable, Stored, Copies

\* One field of a work, or of a copy, changes.
LEMMA LeftIs ==
    ASSUME NEW w \in Works, NEW n \in Nat, NEW v, v = [w EXCEPT !.left = n]
    PROVE  /\ v \in Works /\ v.copies = w.copies /\ v.note = w.note
           /\ v.used = w.used /\ v.left = n
BY DEF Works

LEMMA UsedIs ==
    ASSUME NEW w \in Works, NEW n \in Nat, NEW v, v = [w EXCEPT !.used = n]
    PROVE  /\ v \in Works /\ v.copies = w.copies /\ v.note = w.note
           /\ v.used = n /\ v.left = w.left
BY DEF Works

LEMMA AccumIs ==
    ASSUME NEW c \in Copies, NEW n \in Int, NEW d, d = [c EXCEPT !.accum = n]
    PROVE  /\ d \in Copies /\ d.crud = c.crud /\ d.info = c.info
           /\ d.owned = c.owned /\ d.accum = n
BY DEF Copies

\* A copy is put into the work.
LEMMA PutOK ==
    ASSUME DataOK, NEW w, WorkOK(w), NEW id \in Nat, NEW c \in Copies, Fits(c),
           c.crud = "Insert" => c.owned /\ id > used,
           c.crud = "Update" => id \in DOMAIN inven /\ c.info = inven[id].info,
           id \in DOMAIN w.copies => w.copies[id].info = c.info,
           NEW v, v = Put(w, id, c)
    PROVE  /\ v \in Works /\ v.used = w.used /\ v.left = w.left
           /\ CopiesOK(v.copies, v.note) /\ Fresh(v.copies)
           /\ DOMAIN v.copies = DOMAIN w.copies \cup {id} /\ v.copies[id] = c
           /\ \A n \in DOMAIN w.copies \ {id} : v.copies[n] = w.copies[n]
           /\ \A n \in DOMAIN v.copies : v.copies[n].crud = "Insert" => n > used
           /\ Backed => \A i \in Infos : Amount(Later(v), i) = Amount(Later(w), i) +
                  IF c.info # i THEN 0
                  ELSE c.accum - (IF id \in DOMAIN w.copies THEN w.copies[id].accum
                                  ELSE IF id \in DOMAIN inven THEN inven[id].accum ELSE 0)
<1>1. /\ w \in Works /\ w.copies \in Maps(Copies) /\ w.note \in Maps(Stacked)
      /\ w.note = exportTo(w.copies) /\ Fresh(w.copies)
      /\ \A n \in DOMAIN w.copies : Fits(w.copies[n])
  BY DEF WorkOK, CopiesOK, Works
<1>2. exportItem(c) \in Stacked
  BY DEF exportItem, Copies, Stacked
<1> DEFINE copies == Over(Only(id, c), w.copies)
           note == Over(Only(id, exportItem(c)), w.note)
<1>3. /\ copies \in Maps(Copies) /\ DOMAIN copies = DOMAIN w.copies \cup {id}
      /\ copies[id] = c /\ \A n \in DOMAIN w.copies \ {id} : copies[n] = w.copies[n]
  <2>1. copies = Over(Only(id, c), w.copies)
    OBVIOUS
  <2>2. copies \in Maps(Copies)
    BY <1>1, OverPut
  <2> HIDE DEF copies
  <2>3. DOMAIN copies = DOMAIN w.copies \cup {id}
    BY <2>1 DEF Over, Only
  <2>4. copies[id] = c
    BY <2>1 DEF Over, Only
  <2>5. \A n \in DOMAIN w.copies \ {id} : copies[n] = w.copies[n]
    BY <2>1 DEF Over, Only
  <2> QED BY <2>2, <2>3, <2>4, <2>5
<1>4. note \in Maps(Stacked)
  BY <1>1, <1>2, OverPut
<1>5. v = [w EXCEPT !.copies = copies, !.note = note]
  BY DEF Put
<1>6. note = exportTo(copies)
  <2>1. DOMAIN note = DOMAIN w.copies \cup {id}
    BY <1>1 DEF Over, Only, exportTo
  <2>2. ASSUME NEW n \in DOMAIN copies PROVE note[n] = exportItem(copies[n])
    BY <1>1, <1>3 DEF Over, Only, exportTo
  <2>3. note = [n \in DOMAIN note |-> note[n]]
    BY DEF Over
  <2> HIDE DEF copies, note
  <2> QED BY <1>3, <2>1, <2>2, <2>3 DEF exportTo
<1> HIDE DEF copies, note
<1>7. /\ v \in Works /\ v.used = w.used /\ v.left = w.left
      /\ v.copies = copies /\ v.note = note
  BY <1>1, <1>3, <1>4, <1>5 DEF Works
<1>8. \A n \in DOMAIN copies : Fits(copies[n])
  BY <1>1, <1>3
<1>9. Fresh(copies)
  <2>1. c.crud \in {"Insert", "Update"} /\ (id \in DOMAIN inven => id <= used)
    BY DEF Copies, DataOK
  <2>2. used \in Nat
    BY DEF DataOK
  <2> QED BY <1>1, <1>3, <2>1, <2>2 DEF Fresh
<1>10. \A n \in DOMAIN copies : copies[n].crud = "Insert" => n > used
  BY <1>3 DEF WorkOK
<1>11. ASSUME Backed, NEW i \in Infos
       PROVE  Amount(Later(v), i) = Amount(Later(w), i) +
                  IF c.info # i THEN 0
                  ELSE c.accum - (IF id \in DOMAIN w.copies THEN w.copies[id].accum
                                  ELSE IF id \in DOMAIN inven THEN inven[id].accum ELSE 0)
  <2> DEFINE R == Later(w)
             Q == Later(v)
  <2>1. /\ Countable(R) /\ DOMAIN R = DOMAIN w.copies \cup DOMAIN rows
        /\ \A n \in DOMAIN R : R[n] = IF n \in DOMAIN w.copies THEN w.copies[n]
                                      ELSE rows[n]
    BY LaterCounts
  <2>2. /\ DOMAIN Q = DOMAIN copies \cup DOMAIN rows
        /\ \A n \in DOMAIN Q : Q[n] = IF n \in DOMAIN copies THEN copies[n]
                                      ELSE rows[n]
    BY <1>7 DEF Later, Over
  <2> HIDE DEF R, Q
  <2>3. DOMAIN Q = DOMAIN R \cup {id} /\ Q[id] = c
    BY <1>3, <2>1, <2>2
  <2>4. \A n \in DOMAIN R \ {id} : Q[n] = R[n]
    BY <1>3, <2>1, <2>2
  <2>5. /\ id \in DOMAIN R <=> id \in DOMAIN w.copies \/ id \in DOMAIN inven
        /\ id \in DOMAIN R => R[id].info = c.info
        /\ id \in DOMAIN R => R[id].accum = IF id \in DOMAIN w.copies
                                THEN w.copies[id].accum ELSE inven[id].accum
    <3>1. CASE id \in DOMAIN w.copies
      BY <2>1, <3>1
    <3>2. CASE id \notin DOMAIN w.copies /\ c.crud = "Update"
      BY <1>11, <2>1, <3>2 DEF Backed
    <3>3. CASE id \notin DOMAIN w.copies /\ c.crud = "Insert"
      <4>1. id \notin 1..used
        BY <3>3 DEF DataOK
      <4>2. id \notin DOMAIN rows /\ id \notin DOMAIN inven
        BY <4>1 DEF DataOK
      <4> QED BY <2>1, <3>3, <4>2
    <3> QED BY <3>1, <3>2, <3>3 DEF Copies
  <2>6. c.accum \in Int
    BY DEF Copies
  <2>7. Amount(Q, i) = Amount(R, i) +
             IF Q[id].info # i THEN 0
             ELSE Q[id].accum - IF id \in DOMAIN R THEN R[id].accum ELSE 0
    BY <2>1, <2>3, <2>4, <2>5, <2>6, AmountPut
  <2>8. (IF id \in DOMAIN R THEN R[id].accum ELSE 0)
           = IF id \in DOMAIN w.copies THEN w.copies[id].accum
             ELSE IF id \in DOMAIN inven THEN inven[id].accum ELSE 0
    BY <2>5
  <2> QED BY <2>3, <2>7, <2>8 DEF R, Q
<1> QED BY <1>3, <1>6, <1>7, <1>8, <1>9, <1>10, <1>11 DEF CopiesOK

LEMMA MinOfTwo ==
    ASSUME NEW a \in Int, NEW b \in Int
    PROVE  Min({a, b}) = IF a <= b THEN a ELSE b
BY DEF Min

\* What a handler finds when it asks for a copy of a stack.
LEMMA AcquireIs ==
    ASSUME DataOK, NEW w, WorkOK(w), NEW id \in DOMAIN inven
    PROVE  /\ acquire(w, id) \in Copies /\ acquire(w, id).crud = "Update"
           /\ acquire(w, id).info = inven[id].info /\ Fits(acquire(w, id))
           /\ id \in DOMAIN w.copies => acquire(w, id) = w.copies[id]
           /\ id \notin DOMAIN w.copies => acquire(w, id) = Item(id)
           /\ Item(id).owned /\ Item(id).accum = inven[id].accum
<1>1. inven[id] \in Stacked /\ inven[id].accum \in 1..AccumMax[inven[id].info]
  BY DEF DataOK, Maps
<1>2. /\ Item(id) \in Copies /\ Item(id).crud = "Update" /\ Fits(Item(id))
      /\ Item(id).info = inven[id].info /\ Item(id).owned
      /\ Item(id).accum = inven[id].accum
  BY <1>1 DEF Item, Copies, Stacked, Fits
<1>3. CASE id \in DOMAIN w.copies
  <2>1. w.copies[id] \in Copies /\ Fits(w.copies[id]) /\ w.copies[id].crud = "Update"
        /\ w.copies[id].info = inven[id].info
    BY <1>3 DEF WorkOK, CopiesOK, Maps, Fresh, Copies
  <2> QED BY <1>2, <1>3, <2>1 DEF acquire
<1>4. CASE id \notin DOMAIN w.copies
  BY <1>2, <1>4 DEF acquire
<1> QED BY <1>3, <1>4

\* One stack of the first loop: what it takes is not left.
LEMMA FillOK ==
    ASSUME ItemsAssumption, DataOK, NEW w, Gives(w), NEW id \in DOMAIN inven,
           NEW v, v = fill(w, id)
    PROVE  /\ Gives(v) /\ v.used = w.used
           /\ Backed => \A i \in Infos :
                 Amount(Later(v), i) + (IF inven[id].info = i THEN v.left ELSE 0)
                 = Amount(Later(w), i) + (IF inven[id].info = i THEN w.left ELSE 0)
<1>1. WorkOK(w) /\ w \in Works /\ w.left \in Nat /\ w.used \in Nat /\ w.used >= used
  BY DEF Gives, WorkOK, Works
<1>2. ASSUME NEW i \in Infos PROVE Amount(Later(w), i) \in Int
  BY <1>1, LaterCounts, AmountSame
<1>3. CASE v = w
  BY <1>1, <1>2, <1>3
<1>4. CASE v # w
  <2> DEFINE copy == acquire(w, id)
             max == AccumMax[copy.info]
             more == Min({max - copy.accum, w.left})
             c == [copy EXCEPT !.accum = @ + more]
             p == Put(w, id, c)
  <2>1. v = [p EXCEPT !.left = @ - more]
    BY <1>4 DEF fill
  <2>2. /\ copy \in Copies /\ copy.crud = "Update" /\ copy.info = inven[id].info
        /\ Fits(copy) /\ copy.owned
        /\ copy.accum = IF id \in DOMAIN w.copies THEN w.copies[id].accum
                        ELSE inven[id].accum
        /\ id \in DOMAIN w.copies => copy = w.copies[id]
    BY <1>1, AcquireIs DEF Gives
  <2> HIDE DEF copy
  <2>3. max \in Nat /\ copy.accum \in 1..max
    BY <2>2 DEF ItemsAssumption, Copies, Fits
  <2>4. more \in Nat /\ more <= w.left /\ copy.accum + more <= max
    <3>1. more = IF max - copy.accum <= w.left THEN max - copy.accum ELSE w.left
      <4>1. max - copy.accum \in Int /\ w.left \in Int
        BY <1>1, <2>3
      <4> HIDE DEF max
      <4> QED BY <4>1, MinOfTwo
    <3> HIDE DEF more, max
    <3> QED BY <1>1, <2>3, <3>1
  <2> HIDE DEF more
  <2>5. /\ c \in Copies /\ c.crud = "Update" /\ c.info = copy.info /\ c.owned
        /\ c.accum = copy.accum + more
    <3>1. copy.accum + more \in Int
      BY <2>3, <2>4
    <3>2. c = [copy EXCEPT !.accum = copy.accum + more]
      OBVIOUS
    <3> HIDE DEF c
    <3> QED BY <2>2, <3>1, <3>2, AccumIs
  <2>6. Fits(c)
    BY <2>3, <2>4, <2>5 DEF Fits
  <2> HIDE DEF c, max
  <2>7. id \in Nat /\ id \in 1..w.used
    BY <1>1 DEF DataOK
  <2>8. /\ p \in Works /\ p.used = w.used /\ p.left = w.left
        /\ CopiesOK(p.copies, p.note) /\ Fresh(p.copies)
        /\ DOMAIN p.copies = DOMAIN w.copies \cup {id} /\ p.copies[id] = c
        /\ \A n \in DOMAIN w.copies \ {id} : p.copies[n] = w.copies[n]
        /\ \A n \in DOMAIN p.copies : p.copies[n].crud = "Insert" => n > used
        /\ Backed => \A i \in Infos : Amount(Later(p), i) = Amount(Later(w), i) +
                  IF c.info # i THEN 0
                  ELSE c.accum - (IF id \in DOMAIN w.copies THEN w.copies[id].accum
                                  ELSE IF id \in DOMAIN inven THEN inven[id].accum ELSE 0)
    BY <1>1, <2>2, <2>5, <2>6, <2>7, PutOK
  <2> HIDE DEF p
  <2>9. /\ v \in Works /\ v.copies = p.copies /\ v.note = p.note /\ v.used = w.used
        /\ v.left = w.left - more
    <3>1. w.left - more \in Nat
      BY <1>1, <2>4
    <3>2. v = [p EXCEPT !.left = w.left - more]
      BY <2>1, <2>8
    <3> QED BY <2>8, <3>1, <3>2, LeftIs
  <2>10. Gives(v)
    <3>1. DOMAIN v.copies \subseteq 1..v.used
      BY <1>1, <2>7, <2>8, <2>9 DEF WorkOK
    <3>2. \A n \in DOMAIN v.copies : v.copies[n].owned
      BY <2>5, <2>8, <2>9 DEF Gives
    <3> QED BY <1>1, <2>8, <2>9, <3>1, <3>2 DEF Gives, WorkOK
  <2>11. ASSUME Backed, NEW i \in Infos
         PROVE  Amount(Later(v), i) + (IF inven[id].info = i THEN v.left ELSE 0)
                = Amount(Later(w), i) + (IF inven[id].info = i THEN w.left ELSE 0)
    <3>1. Later(v) = Later(p)
      BY <2>9 DEF Later
    <3>2. Amount(Later(p), i) = Amount(Later(w), i) + IF inven[id].info # i THEN 0 ELSE more
      <4>1. c.accum - (IF id \in DOMAIN w.copies THEN w.copies[id].accum
                       ELSE IF id \in DOMAIN inven THEN inven[id].accum ELSE 0) = more
        <5>1. copy.accum \in Int /\ more \in Int
          BY <2>3, <2>4
        <5>2. (IF id \in DOMAIN w.copies THEN w.copies[id].accum
               ELSE IF id \in DOMAIN inven THEN inven[id].accum ELSE 0) = copy.accum
          BY <2>2
        <5> QED BY ONLY <5>1, <5>2, <2>5
      <4>2. c.info = inven[id].info
        BY <2>2, <2>5
      <4>3. Amount(Later(p), i) = Amount(Later(w), i) + IF c.info # i THEN 0
                  ELSE c.accum - (IF id \in DOMAIN w.copies THEN w.copies[id].accum
                                  ELSE IF id \in DOMAIN inven THEN inven[id].accum ELSE 0)
        BY <2>8, <2>11
      <4> QED BY ONLY <4>1, <4>2, <4>3
    <3> QED BY <1>1, <1>2, <2>4, <2>9, <3>1, <3>2
  <2> QED BY <2>9, <2>10, <2>11
<1> QED BY <1>3, <1>4

\* The first loop.
LEMMA FillsOK ==
    ASSUME ItemsAssumption, DataOK, NEW w, Gives(w), NEW info,
           NEW v, v = fillStacks(w, info)
    PROVE  /\ Gives(v) /\ v.used = w.used
           /\ Backed => \A i \in Infos :
                 Amount(Later(v), i) + (IF info = i THEN v.left ELSE 0)
                 = Amount(Later(w), i) + (IF info = i THEN w.left ELSE 0)
<1> DEFINE S == Stacks(info)
           W == {x \in Works : Gives(x)}
           c == [s \in SUBSET S |-> Max(s)]
           F == [id \in S |-> [x \in W |-> fill(x, id)]]
           Body(h) == [s \in SUBSET S |->
               IF s = {} THEN w ELSE fill(h[s \ {Max(s)}], Max(s))]
<1>1. S \subseteq DOMAIN inven /\ \A id \in S : inven[id].info = info
  BY DEF Stacks
<1>2. IsFiniteSet(S) /\ S \subseteq Int
  <2>1. S \subseteq 1..used /\ IsFiniteSet(1..used) /\ 1..used \subseteq Int
    BY <1>1, FS_Interval DEF DataOK
  <2> QED BY <2>1, FS_Subset
<1>3. \A s \in (SUBSET S) \ {{}} : Max(s) \in s /\ c[s] = Max(s)
  <2> HIDE DEF S
  <2> QED BY <1>2, MaxIn
<1>4. Chooses(c, S) /\ w \in W
  BY <1>3 DEF Chooses, Gives, WorkOK
<1>5. F \in [S -> [W -> W]]
  <2>1. ASSUME NEW id \in S, NEW x \in W PROVE fill(x, id) \in W
    <3>1. Gives(fill(x, id))
      BY <1>1, FillOK
    <3> QED BY <3>1 DEF Gives, WorkOK
  <2> HIDE DEF S, W
  <2> QED BY <2>1
<1> HIDE DEF S, W
<1> PICK g \in [SUBSET S -> W] : IsFold(g, c, F, w, S)
  <2> HIDE DEF c, F
  <2> QED BY <1>2, <1>4, <1>5, FoldExists
<1>6. ASSUME NEW s \in SUBSET S
      PROVE  g[s] = IF s = {} THEN w ELSE fill(g[s \ {Max(s)}], Max(s))
  <2>1. CASE s = {}
    BY <2>1 DEF IsFold
  <2>2. CASE s # {}
    <3>1. c[s] = Max(s) /\ Max(s) \in S /\ s \ {Max(s)} \in SUBSET S
      BY <1>3, <2>2
    <3>2. F[Max(s)][g[s \ {Max(s)}]] = fill(g[s \ {Max(s)}], Max(s))
      BY <3>1
    <3> QED BY <2>2, <3>1, <3>2 DEF IsFold
  <2> QED BY <2>1, <2>2
<1>7. g = Body(g)
  BY <1>6
<1> DEFINE H == CHOOSE h : h = Body(h)
<1>8. H = Body(H)
  <2> HIDE DEF Body
  <2> QED BY <1>7
<1>9. v = H[S]
  BY DEF fillStacks, MapThenFoldSet, S
<1> HIDE DEF H
<1>10. \A s \in SUBSET S : H[s] = IF s = {} THEN w ELSE fill(H[s \ {Max(s)}], Max(s))
  BY <1>8
<1> DEFINE Filled(x) ==
      /\ Gives(x) /\ x.used = w.used
      /\ Backed => \A i \in Infos :
           Amount(Later(x), i) + (IF info = i THEN x.left ELSE 0)
           = Amount(Later(w), i) + (IF info = i THEN w.left ELSE 0)
           G == {s \in SUBSET S : Filled(H[s])}
<1>11. {} \in G
  <2>1. H[{}] = w
    BY <1>10
  <2> QED BY <2>1
<1>12. ASSUME NEW s \in (SUBSET S) \ {{}}, s \ {c[s]} \in G PROVE s \in G
  <2> DEFINE x == H[s \ {Max(s)}]
  <2>1. Filled(x)
    BY <1>3, <1>12
  <2>2. H[s] = fill(x, Max(s)) /\ Max(s) \in DOMAIN inven /\ inven[Max(s)].info = info
    BY <1>1, <1>3, <1>10
  <2> HIDE DEF x
  <2>3. /\ Gives(H[s]) /\ H[s].used = x.used
        /\ Backed => \A i \in Infos :
              Amount(Later(H[s]), i) + (IF info = i THEN H[s].left ELSE 0)
              = Amount(Later(x), i) + (IF info = i THEN x.left ELSE 0)
    BY <2>1, <2>2, FillOK
  <2> QED BY <2>1, <2>3
<1>13. SUBSET S \subseteq G
  <2> HIDE DEF G, c
  <2> QED BY <1>2, <1>4, <1>11, <1>12, SetInduction
<1>14. S \in G
  BY <1>13
<1> QED BY <1>9, <1>14

\* A new stack.
LEMMA AddOK ==
    ASSUME DataOK, NEW w, Gives(w), NEW copy \in Copies, copy.crud = "Insert",
           copy.owned, Fits(copy), NEW v, v = add(w, copy)
    PROVE  /\ Gives(v) /\ v.used >= w.used
           /\ Backed => \A i \in Infos :
                 Amount(Later(v), i)
                 = Amount(Later(w), i) + IF copy.info = i THEN copy.accum ELSE 0
<1> DEFINE id == w.used + 1
           p == Put(w, id, copy)
<1>1. /\ WorkOK(w) /\ w \in Works /\ w.used \in Nat /\ used \in Nat /\ w.used >= used
      /\ DOMAIN w.copies \subseteq 1..w.used
  BY DEF Gives, WorkOK, Works, DataOK
<1>2. id \in Nat /\ id > used /\ id \notin 1..w.used /\ id \notin 1..used
  BY <1>1
<1>3. id \notin DOMAIN w.copies /\ id \notin DOMAIN inven
  BY <1>1, <1>2 DEF DataOK
<1> HIDE DEF id
<1>4. /\ p \in Works /\ p.used = w.used /\ p.left = w.left
      /\ CopiesOK(p.copies, p.note) /\ Fresh(p.copies)
      /\ DOMAIN p.copies = DOMAIN w.copies \cup {id} /\ p.copies[id] = copy
      /\ \A n \in DOMAIN w.copies \ {id} : p.copies[n] = w.copies[n]
      /\ \A n \in DOMAIN p.copies : p.copies[n].crud = "Insert" => n > used
      /\ Backed => \A i \in Infos : Amount(Later(p), i) = Amount(Later(w), i) +
             IF copy.info # i THEN 0
             ELSE copy.accum - (IF id \in DOMAIN w.copies THEN w.copies[id].accum
                             ELSE IF id \in DOMAIN inven THEN inven[id].accum ELSE 0)
  <2>1. copy.crud = "Update" => id \in DOMAIN inven /\ copy.info = inven[id].info
    OBVIOUS
  <2> HIDE DEF p
  <2> QED BY <1>1, <1>2, <1>3, <2>1, PutOK DEF p
<1>5. v = [p EXCEPT !.used = w.used + 1]
  BY <1>4 DEF add, id
<1> HIDE DEF p
<1>6. /\ v \in Works /\ v.copies = p.copies /\ v.note = p.note
      /\ v.used = w.used + 1 /\ v.left = p.left
  <2>1. w.used + 1 \in Nat /\ p \in Works
    BY <1>1, <1>4
  <2>2. PICK n \in Nat : n = w.used + 1
    BY <2>1
  <2> QED BY <1>5, <2>1, <2>2, UsedIs
<1>7. DOMAIN v.copies \subseteq 1..v.used
  <2>1. id \in 1..v.used /\ 1..w.used \subseteq 1..v.used
    BY <1>1, <1>6 DEF id
  <2> QED BY <1>1, <1>4, <1>6, <2>1
<1>8. \A n \in DOMAIN v.copies : v.copies[n].owned
  BY <1>4, <1>6 DEF Gives
<1>9. v.used >= used /\ v.used >= w.used
  BY <1>1, <1>6
<1>10. Gives(v)
  BY <1>4, <1>6, <1>7, <1>8, <1>9 DEF Gives, WorkOK
<1>11. ASSUME Backed, NEW i \in Infos
       PROVE  Amount(Later(v), i)
                 = Amount(Later(w), i) + IF copy.info = i THEN copy.accum ELSE 0
  <2>1. Later(v) = Later(p)
    BY <1>6 DEF Later
  <2>2. copy.accum \in Int
    BY DEF Copies
  <2> QED BY <1>3, <1>4, <1>11, <2>1, <2>2
<1> QED BY <1>9, <1>10, <1>11

\* The last full stack is passed before nothing is left.
LEMMA ManyIs ==
    ASSUME NEW left \in Nat, NEW max \in Nat \ {0},
           NEW many, many = (left + max - 1) \div max
    PROVE  /\ many \in Nat /\ many * max >= left
           /\ \A n \in 1..many : (n - 1) * max < left
<1>1. /\ many \in Int
      /\ many * max <= left + max - 1
      /\ left + max - 1 < many * max + max
  OBVIOUS
<1>2. many \in Nat
  <2> SUFFICES ASSUME many <= -1 PROVE FALSE
    BY <1>1
  <2>1. many * max <= (-1) * max
    BY <1>1
  <2> QED BY <1>1, <2>1
<1>3. ASSUME NEW n \in 1..many PROVE (n - 1) * max < left
  <2>1. n * max <= many * max
    BY <1>1
  <2>2. (n - 1) * max = n * max - max
    OBVIOUS
  <2> QED BY <1>1, <2>1, <2>2
<1> QED BY <1>1, <1>2, <1>3

\* What is left, in stacks of at most max.
Portion(left, max, n) == Min({max, left - (n - 1) * max})

LEMMA PortionIs ==
    ASSUME NEW left \in Nat, NEW max \in Nat \ {0}, NEW n \in Nat, (n - 1) * max < left
    PROVE  /\ Portion(left, max, n) \in 1..max
           /\ Portion(left, max, n) = IF n * max <= left THEN max
                                      ELSE left - (n - 1) * max
<1>1. left - (n - 1) * max \in Int /\ left - (n - 1) * max >= 1
      /\ (n - 1) * max = n * max - max /\ n * max \in Int
  OBVIOUS
<1>2. Portion(left, max, n) = IF max <= left - (n - 1) * max THEN max
                              ELSE left - (n - 1) * max
  BY <1>1, MinOfTwo DEF Portion
<1> QED BY <1>1, <1>2

\* The portions add up to what was left.
LEMMA PortionsAddUp ==
    ASSUME NEW left \in Nat, NEW max \in Nat \ {0},
           NEW many \in Nat, many * max >= left,
           \A n \in 1..many : (n - 1) * max < left,
           NEW f, \A n \in 1..many : f[n] = Portion(left, max, n)
    PROVE  SumFunctionOnSet(f, 1..many) = left
<1>1. /\ many \in Nat /\ many * max >= left
      /\ \A n \in 1..many : (n - 1) * max < left
  OBVIOUS
<1>2. ASSUME NEW n \in 1..many
      PROVE  /\ f[n] \in Int
             /\ f[n] = IF n * max <= left THEN max ELSE left - (n - 1) * max
  BY <1>1, <1>2, PortionIs
<1> DEFINE N == {n \in Nat : n <= many =>
                    SumFunctionOnSet(f, 1..n) = IF n * max <= left THEN n * max ELSE left}
<1>3. 0 \in N
  <2>1. 1..0 = {} /\ 0 * max = 0
    OBVIOUS
  <2>2. SumFunctionOnSet(f, {}) = 0
    BY FS_EmptySet, SumAdd
  <2> QED BY <2>1, <2>2
<1>4. ASSUME NEW n \in N PROVE n + 1 \in N
  <2> SUFFICES ASSUME n + 1 <= many
               PROVE  SumFunctionOnSet(f, 1..(n + 1))
                        = IF (n + 1) * max <= left THEN (n + 1) * max ELSE left
    OBVIOUS
  <2>1. n \in Nat /\ n + 1 \in 1..many
    BY <1>1
  <2>2. SumFunctionOnSet(f, 1..n) = IF n * max <= left THEN n * max ELSE left
    BY <1>1, <2>1
  <2> HIDE DEF N
  <2>3. IsFiniteSet(1..(n + 1)) /\ \A k \in 1..(n + 1) : f[k] \in Int
    BY <1>1, <1>2, <2>1, FS_Interval
  <2>4. n + 1 \in 1..(n + 1) /\ 1..(n + 1) \ {n + 1} = 1..n
    BY <2>1
  <2>5. SumFunctionOnSet(f, 1..(n + 1)) = f[n + 1] + SumFunctionOnSet(f, 1..n)
    <3> DEFINE S == 1..(n + 1)
               x == n + 1
    <3>1. IsFiniteSet(S) /\ (\A k \in S : f[k] \in Int) /\ x \in S /\ S \ {x} = 1..n
      BY <2>3, <2>4
    <3> HIDE DEF S, x
    <3>2. SumFunctionOnSet(f, S) = f[x] + SumFunctionOnSet(f, S \ {x})
      BY <3>1, SumAdd
    <3> QED BY <3>1, <3>2 DEF S, x
  <2>6. f[n + 1] = IF (n + 1) * max <= left THEN max ELSE left - ((n + 1) - 1) * max
    BY <1>2, <2>1
  <2>7. n * max < left /\ n * max \in Int /\ (n + 1) * max = n * max + max
    BY <1>1, <2>1
  <2>8. ((n + 1) - 1) * max = n * max
    BY <2>1
  <2> QED BY <2>2, <2>5, <2>6, <2>7, <2>8
<1>5. N = Nat
  <2>1. N \in SUBSET Nat
    OBVIOUS
  <2> HIDE DEF N
  <2> QED BY <1>3, <1>4, <2>1, NatSet
<1>6. SumFunctionOnSet(f, 1..many) = IF many * max <= left THEN many * max ELSE left
  BY <1>1, <1>5
<1>7. many * max \in Int
  BY <1>1
<1> QED BY <1>1, <1>6, <1>7

\* New stacks of an info, of as many as f says.
NewStacks(seq, info, f) ==
    /\ IsFiniteSet(DOMAIN seq) /\ DOMAIN seq \subseteq Int
    /\ \A n \in DOMAIN seq :
          /\ seq[n] \in Copies /\ seq[n].crud = "Insert" /\ seq[n].owned
          /\ Fits(seq[n]) /\ seq[n].info = info /\ f[n] = seq[n].accum

LEMMA AddsOK ==
    ASSUME DataOK, NEW w, Gives(w), NEW info, NEW seq, NEW f,
           NewStacks(seq, info, f), NEW v, v = addAll(w, seq)
    PROVE  /\ Gives(v) /\ v.used >= w.used
           /\ Backed => \A i \in Infos :
                 Amount(Later(v), i) = Amount(Later(w), i) +
                     IF info = i THEN SumFunctionOnSet(f, DOMAIN seq) ELSE 0
<1> DEFINE S == DOMAIN seq
           W == {x \in Works : Gives(x)}
           c == [s \in SUBSET S |-> Max(s)]
           F == [n \in S |-> [x \in W |-> add(x, seq[n])]]
           Body(h) == [s \in SUBSET S |->
               IF s = {} THEN w ELSE add(h[s \ {Max(s)}], seq[Max(s)])]
<1>1. \A n \in S : /\ seq[n] \in Copies /\ seq[n].crud = "Insert" /\ seq[n].owned
                   /\ Fits(seq[n]) /\ seq[n].info = info /\ f[n] = seq[n].accum
  BY DEF NewStacks
<1>2. IsFiniteSet(S) /\ S \subseteq Int /\ w.used \in Nat
  BY DEF Gives, WorkOK, Works, NewStacks
<1>3. \A s \in (SUBSET S) \ {{}} : Max(s) \in s /\ c[s] = Max(s)
  <2> HIDE DEF S
  <2> QED BY <1>2, MaxIn
<1>4. Chooses(c, S) /\ w \in W
  BY <1>3 DEF Chooses, Gives, WorkOK
<1>5. F \in [S -> [W -> W]]
  <2>1. ASSUME NEW n \in S, NEW x \in W PROVE add(x, seq[n]) \in W
    <3>1. Gives(add(x, seq[n]))
      BY <1>1, AddOK
    <3> QED BY <3>1 DEF Gives, WorkOK
  <2> HIDE DEF S, W
  <2> QED BY <2>1
<1> HIDE DEF S, W
<1> PICK g \in [SUBSET S -> W] : IsFold(g, c, F, w, S)
  <2> HIDE DEF c, F
  <2> QED BY <1>2, <1>4, <1>5, FoldExists
<1>6. ASSUME NEW s \in SUBSET S
      PROVE  g[s] = IF s = {} THEN w ELSE add(g[s \ {Max(s)}], seq[Max(s)])
  <2>1. CASE s = {}
    BY <2>1 DEF IsFold
  <2>2. CASE s # {}
    <3>1. c[s] = Max(s) /\ Max(s) \in S /\ s \ {Max(s)} \in SUBSET S
      BY <1>3, <2>2
    <3>2. F[Max(s)][g[s \ {Max(s)}]] = add(g[s \ {Max(s)}], seq[Max(s)])
      BY <3>1
    <3> QED BY <2>2, <3>1, <3>2 DEF IsFold
  <2> QED BY <2>1, <2>2
<1>7. g = Body(g)
  BY <1>6
<1> DEFINE H == CHOOSE h : h = Body(h)
<1>8. H = Body(H)
  <2> HIDE DEF Body
  <2> QED BY <1>7
<1>9. v = H[S]
  BY DEF addAll, FoldLeft, MapThenFoldSet, S
<1> HIDE DEF H
<1>10. \A s \in SUBSET S :
           H[s] = IF s = {} THEN w ELSE add(H[s \ {Max(s)}], seq[Max(s)])
  BY <1>8
<1> DEFINE Added(x, s) ==
      /\ Gives(x) /\ x.used >= w.used
      /\ Backed => \A i \in Infos :
           Amount(Later(x), i) = Amount(Later(w), i) +
               IF info = i THEN SumFunctionOnSet(f, s) ELSE 0
           G == {s \in SUBSET S : Added(H[s], s)}
<1>11. \A i \in Infos : Amount(Later(w), i) \in Int
  BY LaterCounts, AmountSame DEF Gives
<1>12. \A s \in SUBSET S : IsFiniteSet(s) /\ \A n \in s : f[n] \in Int
  <2>1. \A n \in S : f[n] \in Int
    BY <1>1 DEF Copies
  <2> QED BY <1>2, <2>1, FS_Subset
<1>13. {} \in G
  <2>1. H[{}] = w /\ SumFunctionOnSet(f, {}) = 0
    BY <1>10, FS_EmptySet, SumAdd
  <2> QED BY <1>2, <1>11, <2>1
<1>14. ASSUME NEW s \in (SUBSET S) \ {{}}, s \ {c[s]} \in G PROVE s \in G
  <2> DEFINE n == Max(s)
             x == H[s \ {n}]
  <2>1. n \in s /\ n \in S /\ Added(x, s \ {n})
    BY <1>3, <1>14
  <2>2. H[s] = add(x, seq[n])
    BY <1>10
  <2> HIDE DEF n, x
  <2>3. /\ Gives(H[s]) /\ H[s].used >= x.used
        /\ Backed => \A i \in Infos :
              Amount(Later(H[s]), i) = Amount(Later(x), i) + IF info = i THEN f[n] ELSE 0
    <3>1. /\ seq[n] \in Copies /\ seq[n].crud = "Insert" /\ seq[n].owned
          /\ Fits(seq[n]) /\ seq[n].info = info /\ f[n] = seq[n].accum
      BY <1>1, <2>1
    <3>2. PICK y : y = seq[n]
      OBVIOUS
    <3>3. Gives(x)
      BY <2>1
    <3> QED BY <2>2, <3>1, <3>2, <3>3, AddOK
  <2>4. SumFunctionOnSet(f, s) = f[n] + SumFunctionOnSet(f, s \ {n})
    BY <1>12, <2>1, SumAdd
  <2>5. SumFunctionOnSet(f, s \ {n}) \in Int /\ f[n] \in Int
    BY <1>12, <2>1, SumAdd
  <2>6. x.used \in Nat /\ H[s].used \in Nat
    BY <2>1, <2>3 DEF Gives, WorkOK, Works
  <2>7. H[s].used >= w.used
    BY <1>2, <2>1, <2>3, <2>6
  <2>8. ASSUME Backed, NEW i \in Infos
        PROVE  Amount(Later(H[s]), i) = Amount(Later(w), i) +
                   IF info = i THEN SumFunctionOnSet(f, s) ELSE 0
    <3>1. Amount(Later(w), i) \in Int
      BY <1>11
    <3>2. Amount(Later(x), i) = Amount(Later(w), i) +
              IF info = i THEN SumFunctionOnSet(f, s \ {n}) ELSE 0
      BY <2>1, <2>8
    <3>3. Amount(Later(H[s]), i) = Amount(Later(x), i) + IF info = i THEN f[n] ELSE 0
      BY <2>3, <2>8
    <3> QED BY ONLY <2>4, <2>5, <3>1, <3>2, <3>3
  <2> QED BY <2>3, <2>7, <2>8
<1>15. SUBSET S \subseteq G
  <2> HIDE DEF G, c
  <2> QED BY <1>2, <1>4, <1>13, <1>14, SetInduction
<1>16. S \in G
  BY <1>15
<1> QED BY <1>9, <1>16 DEF S

\* The second loop: nothing is left.
LEMMA OpenOK ==
    ASSUME ItemsAssumption, DataOK, NEW w, Gives(w), NEW info \in Infos,
           NEW v, v = open(w, info)
    PROVE  /\ Gives(v) /\ v.used >= w.used
           /\ Backed => \A i \in Infos :
                 Amount(Later(v), i)
                 = Amount(Later(w), i) + IF info = i THEN w.left ELSE 0
<1> DEFINE max == AccumMax[info]
           many == (w.left + max - 1) \div max
           new == [n \in 1..many |-> [crud |-> "Insert", info |-> info,
                                      accum |-> Min({max, w.left - (n - 1) * max}),
                                      owned |-> TRUE]]
           f == [n \in 1..many |-> Portion(w.left, max, n)]
           p == addAll(w, new)
<1>1. v = [p EXCEPT !.left = 0]
  BY DEF open
<1>2. w.left \in Nat /\ max \in Nat \ {0} /\ w.used \in Nat
  BY DEF ItemsAssumption, Gives, WorkOK, Works
<1>3. \A n \in 1..many : new[n] = [crud |-> "Insert", info |-> info,
                                   accum |-> Portion(w.left, max, n), owned |-> TRUE]
  BY DEF Portion
<1>4. DOMAIN new = 1..many /\ \A n \in 1..many : f[n] = Portion(w.left, max, n)
  OBVIOUS
<1>5. max = AccumMax[info] /\ many = (w.left + max - 1) \div max
  OBVIOUS
<1> HIDE DEF new, f, max, many
<1>6. many \in Nat /\ many * max >= w.left /\ \A n \in 1..many : (n - 1) * max < w.left
  BY <1>2, <1>5, ManyIs
<1>7. ASSUME NEW n \in DOMAIN new
      PROVE  /\ new[n] \in Copies /\ new[n].crud = "Insert" /\ new[n].owned
             /\ Fits(new[n]) /\ new[n].info = info /\ f[n] = new[n].accum
  <2>1. n \in Nat /\ n \in 1..many
    BY <1>4, <1>6
  <2>2. Portion(w.left, max, n) \in 1..max
    BY <1>2, <1>6, <2>1, PortionIs
  <2>3. PICK q \in 1..max : q = Portion(w.left, max, n)
    BY <2>2
  <2>4. new[n] = [crud |-> "Insert", info |-> info, accum |-> q, owned |-> TRUE]
    BY <1>3, <2>1, <2>3
  <2>5. f[n] = q /\ q \in Int
    BY <1>2, <1>4, <2>1, <2>3
  <2>6. new[n] \in Copies
    BY <2>4, <2>5 DEF Copies
  <2>7. Fits(new[n])
    BY <1>5, <2>4 DEF Fits
  <2> QED BY <2>4, <2>5, <2>6, <2>7
<1>8. IsFiniteSet(DOMAIN new) /\ DOMAIN new \subseteq Int
  BY <1>4, <1>6, FS_Interval
<1>9. /\ Gives(p) /\ p.used >= w.used
      /\ Backed => \A i \in Infos :
            Amount(Later(p), i) = Amount(Later(w), i) +
                IF info = i THEN SumFunctionOnSet(f, DOMAIN new) ELSE 0
  <2>1. NewStacks(new, info, f)
    BY <1>7, <1>8 DEF NewStacks
  <2> HIDE DEF p
  <2> QED BY <2>1, AddsOK DEF p
<1>10. SumFunctionOnSet(f, DOMAIN new) = w.left
  <2> PICK left \in Nat : left = w.left
    BY <1>2
  <2> PICK m \in Nat \ {0} : m = max
    BY <1>2
  <2>1. many * m >= left /\ \A n \in 1..many : (n - 1) * m < left /\ f[n] = Portion(left, m, n)
    BY <1>4, <1>6
  <2>2. SumFunctionOnSet(f, 1..many) = left
    BY ONLY <1>6, <2>1, PortionsAddUp
  <2> QED BY <1>4, <2>2
<1> HIDE DEF p
<1>11. /\ v \in Works /\ v.copies = p.copies /\ v.note = p.note /\ v.used = p.used
  <2>1. p \in Works
    BY <1>9 DEF Gives, WorkOK
  <2> HIDE DEF p
  <2>2. v = [p EXCEPT !.left = 0]
    BY <1>1
  <2> QED BY ONLY <2>1, <2>2 DEF Works
<1>12. Later(v) = Later(p)
  BY <1>11 DEF Later
<1> QED BY <1>9, <1>10, <1>11, <1>12 DEF Gives, WorkOK

\* A grant.
LEMMA InsertOK ==
    ASSUME ItemsAssumption, DataOK, NEW w, Gives(w),
           NEW grant \in Infos \X (Nat \ {0}), NEW v, v = insertItem(w, grant)
    PROVE  /\ Gives(v) /\ v.used >= w.used
           /\ Backed => \A i \in Infos :
                 Amount(Later(v), i)
                 = Amount(Later(w), i) + IF grant[1] = i THEN grant[2] ELSE 0
<1> DEFINE a == [w EXCEPT !.left = grant[2]]
           b == fillStacks(a, grant[1])
<1>1. grant[1] \in Infos /\ grant[2] \in Nat
  OBVIOUS
<1>2. v = open(b, grant[1])
  BY DEF insertItem
<1>3. /\ a \in Works /\ a.copies = w.copies /\ a.note = w.note /\ a.used = w.used
      /\ a.left = grant[2]
  <2> HIDE DEF a
  <2> QED BY <1>1, LeftIs DEF a, Gives, WorkOK
<1> HIDE DEF a
<1>4. Gives(a) /\ Later(a) = Later(w)
  BY <1>3 DEF Gives, WorkOK, Later
<1>5. /\ Gives(b) /\ b.used = a.used
      /\ Backed => \A i \in Infos :
            Amount(Later(b), i) + (IF grant[1] = i THEN b.left ELSE 0)
            = Amount(Later(a), i) + (IF grant[1] = i THEN a.left ELSE 0)
  BY <1>4, FillsOK
<1> HIDE DEF b
<1>6. /\ Gives(v) /\ v.used >= b.used
      /\ Backed => \A i \in Infos :
            Amount(Later(v), i) = Amount(Later(b), i) + IF grant[1] = i THEN b.left ELSE 0
  BY <1>1, <1>2, <1>5, OpenOK
<1>7. ASSUME Backed, NEW i \in Infos
      PROVE  Amount(Later(v), i)
                 = Amount(Later(w), i) + IF grant[1] = i THEN grant[2] ELSE 0
  <2>1. Amount(Later(b), i) \in Int /\ b.left \in Nat
    BY <1>5, LaterCounts, AmountSame DEF Gives, WorkOK, Works
  <2>2. Amount(Later(w), i) \in Int
    BY LaterCounts, AmountSame DEF Gives
  <2> QED BY <1>1, <1>3, <1>4, <1>5, <1>6, <1>7, <2>1, <2>2
<1> QED BY <1>3, <1>5, <1>6, <1>7

\* A transaction without copies.
LEMMA EmptyOK ==
    ASSUME DataOK
    PROVE  /\ Gives(Empty) /\ Empty.copies = NoItems /\ Empty.used = used
           /\ DOMAIN Empty.copies = {} /\ Later(Empty) = rows
<1>1. DOMAIN NoItems = {} /\ \A S : NoItems \in Maps(S)
  <2>1. DOMAIN NoItems = {}
    BY DEF NoItems
  <2>2. \A S : NoItems \in [{} -> S]
    BY DEF NoItems
  <2> QED BY <2>1, <2>2 DEF Maps
<1>2. Empty.copies = NoItems /\ Empty.note = NoItems /\ Empty.used = used
  BY DEF Empty
<1>3. Empty \in Works /\ used \in Nat
  BY <1>1 DEF Empty, Works, DataOK
<1>4. NoItems = exportTo(NoItems)
  BY <1>1 DEF exportTo, NoItems
<1>5. Later(Empty) = rows
  <2>1. Later(Empty) = [id \in DOMAIN rows |-> rows[id]]
    BY <1>1, <1>2 DEF Later, Over
  <2> QED BY <2>1 DEF DataOK, Maps
<1> QED BY <1>1, <1>2, <1>3, <1>4, <1>5 DEF Gives, WorkOK, CopiesOK, Fresh

\* What the grants s of a group hold of an info.
Of(group, s, i) == {n \in s : group[n][1] = i}

\* A reward.
LEMMA InsertsOK ==
    ASSUME ItemsAssumption, DataOK, NEW group \in Seq(Infos \X (Nat \ {0})),
           NEW v, v = insertItems(group)
    PROVE  /\ Gives(v) /\ Granted(group) \in [Infos -> Int]
           /\ Backed => \A i \in Infos :
                 Amount(Later(v), i) = Amount(rows, i) + Granted(group)[i]
<1> DEFINE w == Empty
           S == DOMAIN group
           W == {x \in Works : Gives(x)}
           f == [n \in S |-> group[n][2]]
           c == [s \in SUBSET S |-> Max(s)]
           F == [n \in S |-> [x \in W |-> insertItem(x, group[n])]]
           Body(h) == [s \in SUBSET S |->
               IF s = {} THEN w ELSE insertItem(h[s \ {Max(s)}], group[Max(s)])]
<1>1. \A n \in S : /\ group[n] \in Infos \X (Nat \ {0})
                   /\ f[n] = group[n][2] /\ f[n] \in Int
  OBVIOUS
<1>2. IsFiniteSet(S) /\ S \subseteq Int /\ Gives(w) /\ Later(w) = rows
  <2>1. S = 1..Len(group) /\ Len(group) \in Nat
    OBVIOUS
  <2> QED BY <2>1, FS_Interval, EmptyOK
<1>3. \A s \in (SUBSET S) \ {{}} : Max(s) \in s /\ c[s] = Max(s)
  <2> HIDE DEF S, w
  <2> QED BY <1>2, MaxIn
<1> HIDE DEF w
<1>4. Chooses(c, S) /\ w \in W
  BY <1>2, <1>3 DEF Chooses, Gives, WorkOK
<1>5. F \in [S -> [W -> W]]
  <2>1. ASSUME NEW n \in S, NEW x \in W PROVE insertItem(x, group[n]) \in W
    <3>1. Gives(insertItem(x, group[n]))
      BY <1>1, InsertOK
    <3> QED BY <3>1 DEF Gives, WorkOK
  <2> HIDE DEF S, W
  <2> QED BY <2>1
<1>6. \A i \in Infos : Granted(group)[i] = SumFunctionOnSet(f, Of(group, S, i))
  BY DEF Granted, Of
<1> HIDE DEF S, W, f
<1> PICK g \in [SUBSET S -> W] : IsFold(g, c, F, w, S)
  <2> HIDE DEF c, F
  <2> QED BY <1>2, <1>4, <1>5, FoldExists
<1>7. ASSUME NEW s \in SUBSET S
      PROVE  g[s] = IF s = {} THEN w ELSE insertItem(g[s \ {Max(s)}], group[Max(s)])
  <2>1. CASE s = {}
    BY <2>1 DEF IsFold
  <2>2. CASE s # {}
    <3>1. c[s] = Max(s) /\ Max(s) \in S /\ s \ {Max(s)} \in SUBSET S
      BY <1>3, <2>2
    <3>2. F[Max(s)][g[s \ {Max(s)}]] = insertItem(g[s \ {Max(s)}], group[Max(s)])
      BY <3>1
    <3> QED BY <2>2, <3>1, <3>2 DEF IsFold
  <2> QED BY <2>1, <2>2
<1>8. g = Body(g)
  BY <1>7
<1> DEFINE H == CHOOSE h : h = Body(h)
<1>9. H = Body(H)
  <2> HIDE DEF Body
  <2> QED BY <1>8
<1>10. v = H[S]
  BY DEF insertItems, FoldLeft, MapThenFoldSet, S, w
<1> HIDE DEF H
<1>11. \A s \in SUBSET S :
           H[s] = IF s = {} THEN w ELSE insertItem(H[s \ {Max(s)}], group[Max(s)])
  BY <1>9
<1> DEFINE Sum(s, i) == SumFunctionOnSet(f, Of(group, s, i))
           Given(x, s) ==
      /\ Gives(x)
      /\ Backed => \A i \in Infos : Amount(Later(x), i) = Amount(rows, i) + Sum(s, i)
           G == {s \in SUBSET S : Given(H[s], s)}
<1>12. \A i \in Infos : Amount(rows, i) \in Int
  BY <1>2, LaterCounts, AmountSame DEF Gives
<1>13. ASSUME NEW s \in SUBSET S, NEW i
       PROVE  /\ IsFiniteSet(Of(group, s, i)) /\ \A n \in Of(group, s, i) : f[n] \in Int
              /\ Sum(s, i) \in Int
  <2>1. Of(group, s, i) \subseteq S
    BY DEF Of
  <2>2. IsFiniteSet(Of(group, s, i)) /\ \A n \in Of(group, s, i) : f[n] \in Int
    BY <1>1, <1>2, <2>1, FS_Subset
  <2> QED BY <2>2, SumAdd
<1>14. {} \in G
  <2>1. H[{}] = w
    BY <1>11
  <2>2. ASSUME NEW i PROVE Sum({}, i) = 0
    <3>1. Of(group, {}, i) = {}
      BY DEF Of
    <3> QED BY <3>1, FS_EmptySet, SumAdd
  <2> HIDE DEF Sum
  <2> QED BY <1>2, <1>12, <2>1, <2>2
<1>15. ASSUME NEW s \in (SUBSET S) \ {{}}, s \ {c[s]} \in G PROVE s \in G
  <2> DEFINE n == Max(s)
             x == H[s \ {n}]
  <2>1. n \in s /\ n \in S /\ Given(x, s \ {n})
    BY <1>3, <1>15
  <2>2. H[s] = insertItem(x, group[n])
    BY <1>11
  <2> HIDE DEF n, x
  <2>3. /\ Gives(H[s])
        /\ Backed => \A i \in Infos :
              Amount(Later(H[s]), i)
              = Amount(Later(x), i) + IF group[n][1] = i THEN f[n] ELSE 0
    <3>1. group[n] \in Infos \X (Nat \ {0}) /\ f[n] = group[n][2]
      BY <1>1, <2>1
    <3> PICK grant \in Infos \X (Nat \ {0}) : grant = group[n] /\ f[n] = grant[2]
      BY <3>1
    <3>2. H[s] = insertItem(x, grant) /\ Gives(x)
      BY <2>1, <2>2
    <3>3. /\ Gives(H[s])
          /\ Backed => \A i \in Infos :
                Amount(Later(H[s]), i)
                = Amount(Later(x), i) + IF grant[1] = i THEN grant[2] ELSE 0
      BY <3>2, InsertOK
    <3> QED BY <3>3
  <2>4. ASSUME NEW i
        PROVE  Sum(s, i) = Sum(s \ {n}, i) + IF group[n][1] = i THEN f[n] ELSE 0
    <3> DEFINE T == Of(group, s, i)
    <3>1. Of(group, s \ {n}, i) = T \ {n}
      BY DEF Of
    <3>2. n \in T <=> group[n][1] = i
      BY <2>1 DEF Of
    <3>3. IsFiniteSet(T) /\ \A m \in T : f[m] \in Int
      BY <1>13
    <3>4. f[n] \in Int /\ IsFiniteSet(T \ {n}) /\ \A m \in T \ {n} : f[m] \in Int
      BY <1>1, <2>1, <3>3, FS_Subset
    <3>5. Sum(s, i) = SumFunctionOnSet(f, T)
          /\ Sum(s \ {n}, i) = SumFunctionOnSet(f, T \ {n})
      BY <3>1
    <3> HIDE DEF T, Sum
    <3>6. SumFunctionOnSet(f, T \ {n}) \in Int
      BY <3>4, SumAdd
    <3>7. CASE n \in T
      <4>1. SumFunctionOnSet(f, T) = f[n] + SumFunctionOnSet(f, T \ {n})
        BY <3>3, <3>7, SumAdd
      <4> QED BY <3>2, <3>4, <3>5, <3>6, <3>7, <4>1
    <3>8. CASE n \notin T
      <4>1. T \ {n} = T
        BY <3>8
      <4>2. Sum(s \ {n}, i) = Sum(s, i) /\ Sum(s, i) \in Int
        BY <3>5, <3>6, <4>1
      <4> QED BY <3>2, <3>8, <4>2
    <3> QED BY <3>7, <3>8
  <2>5. ASSUME Backed, NEW i \in Infos
        PROVE  Amount(Later(H[s]), i) = Amount(rows, i) + Sum(s, i)
    <3>1. Amount(rows, i) \in Int /\ Sum(s \ {n}, i) \in Int /\ f[n] \in Int
      BY <1>1, <1>12, <1>13, <2>1
    <3>2. Amount(Later(x), i) = Amount(rows, i) + Sum(s \ {n}, i)
      BY <2>1, <2>5
    <3>3. Amount(Later(H[s]), i) = Amount(Later(x), i)
                                     + IF group[n][1] = i THEN f[n] ELSE 0
      BY <2>3, <2>5
    <3>4. Sum(s, i) = Sum(s \ {n}, i) + IF group[n][1] = i THEN f[n] ELSE 0
      BY <2>4
    <3> HIDE DEF Sum
    <3> QED BY ONLY <3>1, <3>2, <3>3, <3>4
  <2> HIDE DEF Sum
  <2> QED BY <2>3, <2>5
<1>16. SUBSET S \subseteq G
  <2> HIDE DEF G, c
  <2> QED BY <1>2, <1>4, <1>14, <1>15, SetInduction
<1>17. S \in G
  BY <1>16
<1>18. Granted(group) \in [Infos -> Int]
  <2>1. ASSUME NEW i \in Infos PROVE Granted(group)[i] \in Int
    <3>1. S \in SUBSET S
      OBVIOUS
    <3>2. Sum(S, i) \in Int
      BY <1>13, <3>1
    <3> QED BY <1>6, <3>2
  <2> QED BY <2>1 DEF Granted
<1> QED BY <1>6, <1>10, <1>17, <1>18 DEF S

\* A stack is used, by no more than it holds.
LEMMA DeleteOK ==
    ASSUME ItemsAssumption, DataOK, NEW w, WorkOK(w), NEW id \in DOMAIN inven, id \notin DOMAIN w.copies,
           NEW n \in 1..inven[id].accum, NEW v, v = deleteItem(w, id, n)
    PROVE  /\ WorkOK(v) /\ v.used = w.used
           /\ DOMAIN v.copies = DOMAIN w.copies \cup {id}
           /\ Backed => \A i \in Infos :
                 Amount(Later(v), i)
                 = Amount(Later(w), i) - IF inven[id].info = i THEN n ELSE 0
<1> DEFINE copy == acquire(w, id)
           c == [copy EXCEPT !.accum = @ - n, !.owned = copy.accum > n]
<1>1. /\ copy \in Copies /\ copy.crud = "Update" /\ copy.info = inven[id].info
      /\ copy.accum = inven[id].accum
  BY AcquireIs
<1>2. /\ inven[id] \in Stacked /\ inven[id].accum \in 1..AccumMax[inven[id].info]
      /\ id \in 1..used /\ used \in Nat
  BY DEF DataOK, Maps
<1>3. v = Put(w, id, c)
  BY DEF deleteItem
<1> HIDE DEF copy
<1>4. inven[id].accum \in Nat /\ n \in Nat /\ n <= inven[id].accum
  BY <1>2
<1>5. PICK rest \in Nat : rest = inven[id].accum - n
  BY <1>4
<1>6. /\ c \in Copies /\ c.crud = "Update" /\ c.info = inven[id].info
      /\ c.accum = rest /\ (c.owned <=> rest > 0)
  <2> DEFINE b == copy.accum > n
  <2>1. b \in BOOLEAN
    OBVIOUS
  <2>2. b <=> rest > 0
    BY <1>1, <1>4, <1>5
  <2>3. c = [copy EXCEPT !.accum = rest, !.owned = b]
    BY <1>1, <1>5
  <2> HIDE DEF b, c
  <2>4. c = [crud |-> copy.crud, info |-> copy.info, accum |-> rest, owned |-> b]
    BY <1>1, <2>3 DEF Copies
  <2> QED BY <1>1, <2>1, <2>2, <2>4 DEF Copies
<1> HIDE DEF c
<1>7. Fits(c)
  <2>1. CASE rest > 0
    <3> PICK max \in Nat : max = AccumMax[inven[id].info]
      BY <1>2 DEF ItemsAssumption, Stacked
    <3>1. rest \in 1..max
      BY <1>2, <1>4, <1>5, <2>1
    <3> QED BY <1>6, <2>1, <3>1 DEF Fits
  <2>2. CASE ~(rest > 0)
    <3>1. rest = 0
      BY <2>2
    <3> QED BY <1>6, <2>2, <3>1 DEF Fits
  <2> QED BY <2>1, <2>2
<1>8. /\ v \in Works /\ v.used = w.used
      /\ CopiesOK(v.copies, v.note) /\ Fresh(v.copies)
      /\ DOMAIN v.copies = DOMAIN w.copies \cup {id}
      /\ \A k \in DOMAIN v.copies : v.copies[k].crud = "Insert" => k > used
      /\ Backed => \A i \in Infos : Amount(Later(v), i) = Amount(Later(w), i) +
             IF c.info # i THEN 0
             ELSE c.accum - (IF id \in DOMAIN w.copies THEN w.copies[id].accum
                             ELSE IF id \in DOMAIN inven THEN inven[id].accum ELSE 0)
  <2>1. id \in Nat
    BY <1>2
  <2> QED BY <1>3, <1>6, <1>7, <2>1, PutOK
<1>9. WorkOK(v)
  <2>1. w.used \in Nat /\ w.used >= used /\ DOMAIN w.copies \subseteq 1..w.used
    BY DEF WorkOK, Works
  <2>2. DOMAIN v.copies \subseteq 1..v.used
    BY <1>2, <1>8, <2>1
  <2> QED BY <1>8, <2>1, <2>2 DEF WorkOK
<1>10. ASSUME Backed, NEW i \in Infos
       PROVE  Amount(Later(v), i)
                 = Amount(Later(w), i) - IF inven[id].info = i THEN n ELSE 0
  <2>1. Amount(Later(w), i) \in Int
    BY LaterCounts, AmountSame
  <2>2. Amount(Later(v), i) = Amount(Later(w), i) +
            IF inven[id].info # i THEN 0 ELSE rest - inven[id].accum
    BY <1>6, <1>8, <1>10
  <2>3. rest - inven[id].accum = -n
    BY <1>4, <1>5
  <2> QED BY <1>4, <2>1, <2>2, <2>3
<1> QED BY <1>8, <1>9, <1>10

\* A deletion leaves a work a work.
LEMMA DeleteIs ==
    ASSUME DataOK, NEW w \in Works, NEW id \in DOMAIN inven, NEW n \in Int
    PROVE  deleteItem(w, id, n) \in Works
<1> DEFINE copy == acquire(w, id)
           owned == copy.accum > n
           c == [copy EXCEPT !.accum = @ - n, !.owned = owned]
           copies == Over(Only(id, c), w.copies)
           note == Over(Only(id, exportItem(c)), w.note)
<1>1. id \in Nat /\ inven[id] \in Stacked
  BY DEF DataOK, Maps
<1>2. copy \in Copies
  <2>1. CASE id \in DOMAIN w.copies
    BY <2>1 DEF acquire, Works, Maps
  <2>2. CASE id \notin DOMAIN w.copies
    BY <1>1, <2>2 DEF acquire, Item, Copies, Stacked
  <2> QED BY <2>1, <2>2
<1>3. deleteItem(w, id, n) = [w EXCEPT !.copies = copies, !.note = note]
  BY DEF deleteItem, Put
<1> HIDE DEF copy
<1>4. owned \in BOOLEAN
  OBVIOUS
<1>5. PICK a \in Int : a = copy.accum - n
  BY <1>2 DEF Copies
<1>6. c \in Copies
  <2>1. c = [copy EXCEPT !.accum = a, !.owned = owned]
    BY <1>5
  <2> HIDE DEF c, owned
  <2> QED BY <1>2, <1>4, <2>1 DEF Copies
<1> HIDE DEF c
<1>7. exportItem(c) \in Stacked
  BY <1>6 DEF exportItem, Copies, Stacked
<1>8. copies \in Maps(Copies) /\ note \in Maps(Stacked)
  <2>1. w.copies \in Maps(Copies) /\ w.note \in Maps(Stacked)
    BY DEF Works
  <2> QED BY <1>1, <1>6, <1>7, <2>1, OverPut
<1> HIDE DEF copies, note
<1> QED BY <1>3, <1>8 DEF Works

\* The stacks of a request.
LEMMA DeletesOK ==
    ASSUME ItemsAssumption, DataOK, NEW counts, DOMAIN counts \subseteq DOMAIN inven,
           \A id \in DOMAIN counts : counts[id] \in 1..inven[id].accum,
           NEW v, v = deleteItems(counts)
    PROVE  /\ WorkOK(v)
           /\ \A i \in Infos :
                 SumFunctionOnSet(counts, DOMAIN counts \cap Stacks(i)) \in Int
           /\ Backed => \A i \in Infos :
                 Amount(Later(v), i) = Amount(rows, i)
                     - SumFunctionOnSet(counts, DOMAIN counts \cap Stacks(i))
<1> DEFINE w == Empty
           S == DOMAIN counts
           OneOf(s) == CHOOSE x \in s : TRUE
           c == [s \in SUBSET S |-> OneOf(s)]
           F == [id \in S |-> [x \in Works |-> deleteItem(x, id, counts[id])]]
           Body(h) == [s \in SUBSET S |->
               IF s = {} THEN w ELSE deleteItem(h[s \ {OneOf(s)}], OneOf(s), counts[OneOf(s)])]
<1>1. /\ S \subseteq DOMAIN inven
      /\ \A id \in S : counts[id] \in 1..inven[id].accum /\ counts[id] \in Int
  OBVIOUS
<1>2. /\ IsFiniteSet(S) /\ WorkOK(w) /\ w \in Works /\ DOMAIN w.copies = {}
      /\ Later(w) = rows
  <2>1. S \subseteq 1..used /\ IsFiniteSet(1..used)
    BY FS_Interval DEF DataOK
  <2>2. IsFiniteSet(S)
    BY <2>1, FS_Subset
  <2> QED BY <2>2, EmptyOK DEF Gives, WorkOK
<1>3. \A s \in (SUBSET S) \ {{}} : OneOf(s) \in s /\ c[s] = OneOf(s)
  OBVIOUS
<1> HIDE DEF w
<1>4. Chooses(c, S)
  BY <1>3 DEF Chooses
<1>5. F \in [S -> [Works -> Works]]
  <2>1. ASSUME NEW id \in S, NEW x \in Works
        PROVE  deleteItem(x, id, counts[id]) \in Works
    BY <1>1, DeleteIs
  <2> HIDE DEF S
  <2> QED BY <2>1
<1> HIDE DEF S
<1> PICK g \in [SUBSET S -> Works] : IsFold(g, c, F, w, S)
  <2> DEFINE W == Works
  <2>1. w \in W /\ F \in [S -> [W -> W]]
    BY <1>2, <1>5
  <2> HIDE DEF c, F, W
  <2>2. \E g \in [SUBSET S -> W] : IsFold(g, c, F, w, S)
    BY <1>2, <1>4, <2>1, FoldExists
  <2> QED BY <2>2 DEF W
<1>6. ASSUME NEW s \in SUBSET S
      PROVE  g[s] = IF s = {} THEN w
                    ELSE deleteItem(g[s \ {OneOf(s)}], OneOf(s), counts[OneOf(s)])
  <2>1. CASE s = {}
    BY <2>1 DEF IsFold
  <2>2. CASE s # {}
    <3>1. c[s] = OneOf(s) /\ OneOf(s) \in S /\ s \ {OneOf(s)} \in SUBSET S
      BY <1>3, <2>2
    <3> HIDE DEF OneOf
    <3>2. F[OneOf(s)][g[s \ {OneOf(s)}]] = deleteItem(g[s \ {OneOf(s)}], OneOf(s), counts[OneOf(s)])
      BY <3>1
    <3> QED BY <2>2, <3>1, <3>2 DEF IsFold
  <2> QED BY <2>1, <2>2
<1>7. g = Body(g)
  <2> HIDE DEF OneOf
  <2> QED BY <1>6
<1> DEFINE H == CHOOSE h : h = Body(h)
<1>8. H = Body(H)
  <2> HIDE DEF Body
  <2> QED BY <1>7
<1>9. v = H[S]
  BY DEF deleteItems, FoldSet, MapThenFoldSet, S, w
<1> HIDE DEF H
<1>10. \A s \in SUBSET S :
           H[s] = IF s = {} THEN w
                  ELSE deleteItem(H[s \ {OneOf(s)}], OneOf(s), counts[OneOf(s)])
  <2> HIDE DEF OneOf
  <2> QED BY <1>8
<1> DEFINE Sum(s, i) == SumFunctionOnSet(counts, s \cap Stacks(i))
           Taken(x, s) ==
      /\ WorkOK(x) /\ DOMAIN x.copies = s
      /\ Backed => \A i \in Infos : Amount(Later(x), i) = Amount(rows, i) - Sum(s, i)
           G == {s \in SUBSET S : Taken(H[s], s)}
<1>11. \A i \in Infos : Amount(rows, i) \in Int
  BY <1>2, LaterCounts, AmountSame
<1>12. ASSUME NEW s \in SUBSET S, NEW i
       PROVE  /\ IsFiniteSet(s \cap Stacks(i))
              /\ \A n \in s \cap Stacks(i) : counts[n] \in Int
              /\ Sum(s, i) \in Int
  <2>1. s \cap Stacks(i) \subseteq S
    OBVIOUS
  <2>2. IsFiniteSet(s \cap Stacks(i)) /\ \A n \in s \cap Stacks(i) : counts[n] \in Int
    BY <1>1, <1>2, <2>1, FS_Subset
  <2> QED BY <2>2, SumAdd
<1>13. {} \in G
  <2>1. H[{}] = w
    BY <1>10
  <2>2. ASSUME NEW i PROVE Sum({}, i) = 0
    <3>1. {} \cap Stacks(i) = {}
      OBVIOUS
    <3> QED BY <3>1, FS_EmptySet, SumAdd
  <2> HIDE DEF Sum
  <2>3. ASSUME NEW i \in Infos PROVE Amount(Later(w), i) = Amount(rows, i) - Sum({}, i)
    BY <1>2, <1>11, <2>2
  <2>4. Taken(w, {})
    BY <1>2, <2>3
  <2> HIDE DEF Taken
  <2> QED BY <2>1, <2>4
<1>14. ASSUME NEW s \in (SUBSET S) \ {{}}, s \ {c[s]} \in G PROVE s \in G
  <2> DEFINE n == OneOf(s)
             x == H[s \ {n}]
  <2>1. n \in s /\ n \in S /\ Taken(x, s \ {n})
    BY <1>3, <1>14
  <2>2. H[s] = deleteItem(x, n, counts[n])
    BY <1>10
  <2> HIDE DEF n, x
  <2>3. /\ WorkOK(H[s]) /\ DOMAIN H[s].copies = DOMAIN x.copies \cup {n}
        /\ Backed => \A i \in Infos :
              Amount(Later(H[s]), i)
              = Amount(Later(x), i) - IF inven[n].info = i THEN counts[n] ELSE 0
    <3>1. counts[n] \in 1..inven[n].accum /\ n \in DOMAIN inven
      BY <1>1, <2>1
    <3> PICK m \in 1..inven[n].accum : m = counts[n]
      BY <3>1
    <3>2. H[s] = deleteItem(x, n, m) /\ WorkOK(x) /\ n \notin DOMAIN x.copies
      BY <2>1, <2>2
    <3>3. /\ WorkOK(H[s]) /\ DOMAIN H[s].copies = DOMAIN x.copies \cup {n}
          /\ Backed => \A i \in Infos :
                Amount(Later(H[s]), i)
                = Amount(Later(x), i) - IF inven[n].info = i THEN m ELSE 0
      BY <3>1, <3>2, DeleteOK
    <3> QED BY <3>3
  <2>4. ASSUME NEW i
        PROVE  Sum(s, i) = Sum(s \ {n}, i) + IF inven[n].info = i THEN counts[n] ELSE 0
    <3> DEFINE T == s \cap Stacks(i)
    <3>1. (s \ {n}) \cap Stacks(i) = T \ {n}
      OBVIOUS
    <3>2. n \in T <=> inven[n].info = i
      BY <1>1, <2>1 DEF Stacks
    <3>3. IsFiniteSet(T) /\ \A m \in T : counts[m] \in Int
      BY <1>12
    <3>4. counts[n] \in Int /\ IsFiniteSet(T \ {n}) /\ \A m \in T \ {n} : counts[m] \in Int
      BY <1>1, <2>1, <3>3, FS_Subset
    <3>5. Sum(s, i) = SumFunctionOnSet(counts, T)
          /\ Sum(s \ {n}, i) = SumFunctionOnSet(counts, T \ {n})
      BY <3>1
    <3> HIDE DEF T, Sum
    <3>6. SumFunctionOnSet(counts, T \ {n}) \in Int
      BY <3>4, SumAdd
    <3>7. CASE n \in T
      <4>1. SumFunctionOnSet(counts, T) = counts[n] + SumFunctionOnSet(counts, T \ {n})
        BY <3>3, <3>7, SumAdd
      <4> QED BY <3>2, <3>4, <3>5, <3>6, <3>7, <4>1
    <3>8. CASE n \notin T
      <4>1. T \ {n} = T
        BY <3>8
      <4>2. Sum(s \ {n}, i) = Sum(s, i) /\ Sum(s, i) \in Int
        BY <3>5, <3>6, <4>1
      <4> QED BY <3>2, <3>8, <4>2
    <3> QED BY <3>7, <3>8
  <2>5. ASSUME Backed, NEW i \in Infos
        PROVE  Amount(Later(H[s]), i) = Amount(rows, i) - Sum(s, i)
    <3>1. Amount(rows, i) \in Int /\ Sum(s \ {n}, i) \in Int /\ counts[n] \in Int
      BY <1>1, <1>11, <1>12, <2>1
    <3>2. Amount(Later(x), i) = Amount(rows, i) - Sum(s \ {n}, i)
      BY <2>1, <2>5
    <3>3. Amount(Later(H[s]), i) = Amount(Later(x), i)
                                     - IF inven[n].info = i THEN counts[n] ELSE 0
      BY <2>3, <2>5
    <3>4. Sum(s, i) = Sum(s \ {n}, i) + IF inven[n].info = i THEN counts[n] ELSE 0
      BY <2>4
    <3> HIDE DEF Sum
    <3> QED BY ONLY <3>1, <3>2, <3>3, <3>4
  <2>6. DOMAIN H[s].copies = s
    BY <2>1, <2>3
  <2> HIDE DEF Sum
  <2> QED BY <2>3, <2>5, <2>6
<1>15. SUBSET S \subseteq G
  <2> HIDE DEF G, c
  <2> QED BY <1>2, <1>4, <1>13, <1>14, SetInduction
<1>16. S \in G
  BY <1>15
<1> QED BY <1>9, <1>12, <1>16 DEF S

\* One grant is a group of its own.
LEMMA GrantedOne ==
    ASSUME NEW info \in Infos, NEW count \in Nat
    PROVE  /\ Granted(<<<<info, count>>>>) \in [Infos -> Int]
           /\ \A i \in Infos : Granted(<<<<info, count>>>>)[i]
                                  = IF info = i THEN count ELSE 0
<1> DEFINE group == <<<<info, count>>>>
           f == [n \in DOMAIN group |-> group[n][2]]
           S(i) == {n \in DOMAIN group : group[n][1] = i}
<1>1. DOMAIN group = {1} /\ group[1] = <<info, count>>
  OBVIOUS
<1>2. f[1] = count /\ \A i : S(i) = IF info = i THEN {1} ELSE {}
  BY <1>1
<1>3. \A i \in Infos : Granted(group)[i] = SumFunctionOnSet(f, S(i))
  BY DEF Granted
<1> HIDE DEF f, S
<1>4. IsFiniteSet({1}) /\ IsFiniteSet({}) /\ {1} \ {1} = {}
  BY FS_EmptySet, FS_Singleton
<1>5. SumFunctionOnSet(f, {1}) = count /\ SumFunctionOnSet(f, {}) = 0
  <2>1. \A n \in {1} : f[n] \in Int
    BY <1>2
  <2> DEFINE T == {1}
  <2>2. IsFiniteSet(T) /\ (\A n \in T : f[n] \in Int) /\ 1 \in T /\ T \ {1} = {}
    BY <1>4, <2>1
  <2> HIDE DEF T
  <2>3. SumFunctionOnSet(f, T) = f[1] + SumFunctionOnSet(f, T \ {1})
        /\ SumFunctionOnSet(f, {}) = 0
    BY <2>2, SumAdd
  <2> QED BY <1>2, <2>2, <2>3 DEF T
<1>6. \A i \in Infos : Granted(group)[i] = IF info = i THEN count ELSE 0
  BY <1>2, <1>3, <1>5
<1>7. Granted(group) \in [Infos -> Int]
  BY <1>6 DEF Granted
<1> QED BY <1>6, <1>7

-----------------------------------------------------------------------------
(* The actions.                                                            *)

LEMMA InitInv ==
    ASSUME ItemsAssumption, Init
    PROVE  IInv
<1>1. /\ DOMAIN Start = 1..Len(Start) /\ Len(Start) \in Nat
      /\ \A id \in DOMAIN Start :
            /\ Start[id][1] \in Infos /\ Start[id][2] \in Nat \ {0}
            /\ Start[id][2] <= AccumMax[Start[id][1]]
            /\ AccumMax[Start[id][1]] \in Nat
  BY DEF ItemsAssumption
<1>2. /\ DOMAIN rows = DOMAIN Start
      /\ \A id \in DOMAIN rows : /\ rows[id] \in Stored /\ Fits(rows[id])
                                 /\ rows[id].accum \in Int
  BY <1>1 DEF Init, Stored, Fits
<1>3. rows \in [DOMAIN Start -> Stored]
  BY <1>2 DEF Init
<1>4. rows \in Maps(Stored) /\ DOMAIN rows \subseteq 1..used
  <2>1. used = Len(Start)
    BY DEF Init
  <2>2. DOMAIN rows = 1..Len(Start) /\ rows \in [1..Len(Start) -> Stored]
    BY ONLY <1>1, <1>2, <1>3
  <2>3. 1..Len(Start) \in SUBSET Nat
    BY ONLY <1>1
  <2> HIDE DEF Stored
  <2> QED BY ONLY <2>1, <2>2, <2>3 DEF Maps
<1>5. Countable(rows)
  BY <1>1, <1>2, FS_Interval DEF Countable
<1>6. \A i \in Infos : Amount(rows, i) \in Int
  BY <1>5, AmountSame
<1>7. inven \in Maps(Stacked) /\ DOMAIN inven = {}
  <2>1. inven = NoItems
    BY DEF Init
  <2>2. NoItems \in [{} -> Stacked] /\ DOMAIN NoItems = {}
    BY DEF NoItems
  <2> QED BY <2>1, <2>2 DEF Maps
<1>8. /\ inRoom = FALSE /\ beside = FALSE /\ txs = {} /\ used = Len(Start)
      /\ started = 0 /\ balance = [i \in Infos |-> Amount(rows, i)]
  BY DEF Init
<1>9. DataOK
  BY <1>1, <1>2, <1>4, <1>6, <1>7, <1>8 DEF DataOK
<1>10. Clean
  BY <1>8 DEF Clean, Memory
<1> QED BY <1>8, <1>9, <1>10 DEF IInv

\* Memory that is the rows.
LEMMA CleanBacked ==
    ASSUME DataOK, Clean, ~beside, inRoom, txs = {}
    PROVE  Backed /\ inven = _initByList
BY DEF Clean, Memory, Backed, _initByList

\* What a transaction can equip: an item, or 0 for none.
Equippable == Int

LEMMA NoneEquippable == 0 \in Equippable
BY DEF Equippable

\* A handler that starts a transaction.
LEMMA BeginInv ==
    ASSUME IInv, inRoom, NEW w, WorkOK(w), NEW equip \in Equippable,
           NEW updater \in BOOLEAN, NEW cheat \in BOOLEAN,
           updater \/ cheat, cheat \/ ~Busy, NEW delta \in [Infos -> Int],
           Backed => \A i \in Infos : Amount(Later(w), i) = Amount(rows, i) + delta[i],
           begin(w, equip, updater, cheat, delta)
    PROVE  IInv'
<1> PICK t : t = [no |-> started, copies |-> w.copies, note |-> w.note, equip |-> equip,
                 updater |-> updater, cheat |-> cheat, delta |-> delta, stage |-> "db"]
  OBVIOUS
<1>1. /\ UNCHANGED <<memVars, dbVars>>
      /\ started' = started + 1 /\ used' = w.used
      /\ txs' = txs \cup {t}
      /\ beside' = (beside \/ (cheat /\ txs # {}) \/ \E v \in txs : v.cheat)
  BY DEF begin
<1>2. /\ w.used \in Nat /\ used \in Nat /\ w.used >= used
      /\ w.copies \in Maps(Copies) /\ w.note \in Maps(Stacked)
      /\ CopiesOK(w.copies, w.note) /\ DOMAIN w.copies \subseteq 1..w.used
      /\ Fresh(w.copies)
  BY DEF WorkOK, Works, IInv, DataOK
<1>3. 1..used \subseteq 1..used'
  BY <1>1, <1>2
<1>4. DataOK'
  <2>1. DataOK
    BY DEF IInv
  <2>2. used' \in Nat /\ started' \in Nat /\ beside' \in BOOLEAN
    BY <1>1, <1>2, <2>1 DEF DataOK
  <2> QED BY <1>1, <1>3, <2>1, <2>2 DEF DataOK, memVars, dbVars
<1>5. ASSUME NEW v \in txs' PROVE TxOK(v)'
  <2>1. CASE v \in txs
    BY <1>3, <2>1 DEF IInv, TxOK
  <2>2. CASE v = t
    <3>1. t \in Tx
      BY <1>2 DEF Tx, IInv, DataOK, Equippable
    <3>2. /\ t.copies = w.copies /\ t.note = w.note
          /\ (t.updater \/ t.cheat)
      OBVIOUS
    <3> QED BY <1>1, <1>2, <2>2, <3>1, <3>2 DEF TxOK
  <2> QED BY <1>1, <2>1, <2>2
<1>6. Clean'
  <2> SUFFICES ASSUME ~beside' PROVE Clean'
    BY DEF Clean
  <2>1. ~beside /\ txs = {}
    <3>1. \A v \in txs : ~v.cheat /\ (v.updater \/ v.cheat)
      BY <1>1 DEF IInv, TxOK
    <3> QED BY <1>1, <3>1 DEF Busy
  <2>2. /\ client = inven /\ Backed /\ inven = _initByList /\ equips = equipRows
        /\ \A i \in Infos : Amount(rows, i) = balance[i]
    BY <2>1, CleanBacked DEF IInv, Clean, Memory
  <2>3. /\ t.copies = w.copies /\ t.stage = "db" /\ t.delta = delta
    OBVIOUS
  <2>4. txs' = {t}
    BY <1>1, <2>1
  <2>5. CleanTx(t)'
    <3>1. Fresh(t.copies)'
      BY <1>1, <1>2, <2>3 DEF Fresh, memVars
    <3>2. Adds(t.copies, t.delta)'
      BY <1>1, <2>2, <2>3 DEF Adds, Later, dbVars
    <3> QED BY <2>3, <3>1, <3>2 DEF CleanTx
  <2>6. Memory'
    BY <1>1, <2>2 DEF Memory, _initByList, memVars, dbVars
  <2>7. \A i \in Infos : (Amount(rows, i) = balance[i])'
    BY <1>1, <2>2 DEF dbVars
  <2> QED BY <1>1, <2>2, <2>4, <2>5, <2>6, <2>7 DEF Clean, memVars
<1> QED BY <1>4, <1>5, <1>6 DEF IInv

\* The rewards.
LEMMA RewardInv ==
    ASSUME ItemsAssumption, IInv, NEW group \in Groups, Process(group) \/ cheatDrop(group)
    PROVE  IInv'
<1> PICK w : w = insertItems(group)
  OBVIOUS
<1> PICK delta : delta = Granted(group)
  OBVIOUS
<1>1. /\ WorkOK(w) /\ delta \in [Infos -> Int]
      /\ Backed => \A i \in Infos : Amount(Later(w), i) = Amount(rows, i) + delta[i]
  <2>1. group \in Seq(Infos \X (Nat \ {0})) /\ DataOK
    BY DEF ItemsAssumption, IInv
  <2> QED BY <2>1, InsertsOK DEF Gives
<1>2. CASE Process(group)
  <2>1. inRoom /\ ~Busy /\ begin(w, 0, TRUE, FALSE, delta)
    BY <1>2 DEF Process
  <2> QED BY ONLY IInv, <1>1, <2>1, NoneEquippable, BeginInv
<1>3. CASE cheatDrop(group)
  <2>1. inRoom /\ begin(w, 0, FALSE, TRUE, delta)
    BY <1>3 DEF cheatDrop
  <2> QED BY ONLY IInv, <1>1, <2>1, NoneEquippable, BeginInv
<1> QED BY <1>2, <1>3

LEMMA CheatAddInv ==
    ASSUME ItemsAssumption, IInv, NEW info \in Infos, NEW count \in Nat \ {0},
           cheatAdd(info, count)
    PROVE  IInv'
<1> PICK grant \in Infos \X (Nat \ {0}) : grant = <<info, count>>
  OBVIOUS
<1> PICK w : w = insertItem(Empty, grant)
  OBVIOUS
<1> PICK delta : delta = Granted(<<<<info, count>>>>)
  OBVIOUS
<1>1. /\ delta \in [Infos -> Int]
      /\ \A i \in Infos : delta[i] = IF info = i THEN count ELSE 0
  BY GrantedOne
<1>2. /\ WorkOK(w)
      /\ Backed => \A i \in Infos : Amount(Later(w), i) = Amount(rows, i) + delta[i]
  <2>1. DataOK /\ Gives(Empty) /\ Later(Empty) = rows
    BY EmptyOK DEF IInv
  <2> PICK e : e = Empty
    OBVIOUS
  <2>2. Gives(e) /\ w = insertItem(e, grant)
    BY <2>1
  <2>3. /\ Gives(w)
        /\ Backed => \A i \in Infos :
              Amount(Later(w), i) = Amount(Later(e), i) + IF grant[1] = i THEN grant[2] ELSE 0
    BY ONLY ItemsAssumption, <2>1, <2>2, InsertOK
  <2> QED BY <1>1, <2>1, <2>3 DEF Gives
<1>3. inRoom /\ begin(w, 0, FALSE, TRUE, delta)
  BY DEF cheatAdd
<1> QED BY ONLY IInv, <1>2, <1>1, <1>3, NoneEquippable, BeginInv

LEMMA UseInv ==
    ASSUME ItemsAssumption, IInv, NEW counts, NEW infos, itemUseReq(counts, infos)
    PROVE  IInv'
<1> DEFINE minus(i) == SumFunctionOnSet(counts, DOMAIN counts \cap Stacks(i))
<1> PICK w : w = deleteItems(counts)
  OBVIOUS
<1> PICK delta : delta = [i \in Infos |-> -minus(i)]
  OBVIOUS
<1>1. inRoom /\ ~Busy /\ begin(w, 0, TRUE, FALSE, delta)
  BY DEF itemUseReq
<1>2. /\ DOMAIN counts \subseteq DOMAIN inven
      /\ \A id \in DOMAIN counts : counts[id] \in 1..inven[id].accum
  BY DEF itemUseReq, findItem
<1>3. /\ WorkOK(w) /\ \A i \in Infos : minus(i) \in Int
      /\ Backed => \A i \in Infos : Amount(Later(w), i) = Amount(rows, i) - minus(i)
  BY <1>2, DeletesOK DEF IInv
<1> HIDE DEF minus
<1>4. \A i \in Infos : Amount(rows, i) \in Int
  BY EmptyOK, LaterCounts, AmountSame DEF IInv, Gives
<1>5. delta \in [Infos -> Int] /\ \A i \in Infos : delta[i] = -minus(i)
  BY <1>3
<1>6. Backed => \A i \in Infos : Amount(Later(w), i) = Amount(rows, i) + delta[i]
  BY <1>3, <1>4, <1>5
<1> QED BY ONLY IInv, <1>1, <1>3, <1>5, <1>6, NoneEquippable, BeginInv

LEMMA EquipInv ==
    ASSUME ItemsAssumption, IInv, NEW info \in Infos, cheatEquip(info)
    PROVE  IInv'
<1> PICK id : id = findFirst(info)
  OBVIOUS
<1> PICK delta : delta = [i \in Infos |-> 0]
  OBVIOUS
<1> PICK w : w = Empty
  OBVIOUS
<1>1. inRoom /\ id \in DOMAIN inven /\ begin(w, id, TRUE, TRUE, delta)
  BY DEF cheatEquip, insertEquipment, findItem
<1>2. id \in Equippable /\ WorkOK(w) /\ Later(w) = rows
  BY <1>1, EmptyOK DEF IInv, DataOK, Gives, Equippable
<1>3. delta \in [Infos -> Int] /\ \A i \in Infos : delta[i] = 0
  OBVIOUS
<1>4. \A i \in Infos : Amount(rows, i) \in Int
  BY <1>2, LaterCounts, AmountSame DEF IInv
<1>5. Backed => \A i \in Infos : Amount(Later(w), i) = Amount(rows, i) + delta[i]
  BY <1>2, <1>3, <1>4
<1>6. WorkOK(w) /\ id \in Equippable /\ delta \in [Infos -> Int]
  BY <1>2, <1>3
<1> QED BY ONLY IInv, <1>1, <1>5, <1>6, BeginInv

LEMMA LoadInv ==
    ASSUME ItemsAssumption, IInv, load
    PROVE  IInv'
<1> DEFINE owned == {n \in DOMAIN rows : rows[n].owned}
           loaded == [id \in owned |-> [info |-> rows[id].info, accum |-> rows[id].accum]]
<1>1. /\ DataOK /\ Clean /\ txs = {} /\ txs' = txs /\ inRoom' = TRUE
      /\ inven' = loaded /\ client' = exportTo(loaded) /\ equips' = equipRows
      /\ UNCHANGED <<dbVars, used, started, beside>>
  BY DEF load, IInv, DataOK, _initByList
<1>2. \A id \in owned : /\ rows[id] \in Stored /\ Fits(rows[id]) /\ id \in 1..used
                        /\ rows[id].owned /\ used \in Nat
  BY <1>1 DEF DataOK, Maps
<1>3. DOMAIN loaded = owned
      /\ \A id \in owned : loaded[id] = [info |-> rows[id].info, accum |-> rows[id].accum]
  OBVIOUS
<1>4. loaded \in [owned -> Stacked]
  BY <1>2 DEF Stored, Stacked
<1>5. loaded \in Maps(Stacked)
  <2>1. owned \in SUBSET Nat
    BY <1>2
  <2> QED BY <1>4, <2>1 DEF Maps
<1>6. \A id \in DOMAIN loaded : loaded[id].accum \in 1..AccumMax[loaded[id].info]
  BY <1>2, <1>3 DEF Fits
<1>7. exportTo(loaded) = loaded
  BY <1>3 DEF exportTo, exportItem
<1>8. DataOK'
  BY <1>1, <1>2, <1>3, <1>5, <1>6 DEF DataOK, dbVars
<1>9. Clean'
  <2>1. inven' = _initByList'
    BY <1>1 DEF _initByList, dbVars
  <2>2. \A i \in Infos : (~beside => Amount(rows, i) = balance[i])'
    BY <1>1 DEF Clean, dbVars
  <2> HIDE DEF loaded
  <2> QED BY <1>1, <1>7, <2>1, <2>2 DEF Clean, Memory, dbVars
<1> QED BY <1>1, <1>8, <1>9 DEF IInv

LEMMA UnloadInv ==
    ASSUME ItemsAssumption, IInv, unload
    PROVE  IInv'
<1>1. /\ DataOK /\ Clean /\ txs' = {} /\ inRoom' = FALSE /\ inven' = NoItems
      /\ UNCHANGED <<dbVars, used, started, beside>>
  BY DEF unload, IInv
<1>2. NoItems \in Maps(Stacked) /\ DOMAIN NoItems = {}
  <2>1. NoItems \in [{} -> Stacked] /\ DOMAIN NoItems = {}
    BY DEF NoItems
  <2> QED BY <2>1 DEF Maps
<1>3. DataOK'
  BY <1>1, <1>2 DEF DataOK, dbVars
<1>4. Clean'
  <2>1. \A i \in Infos : (~beside => Amount(rows, i) = balance[i])'
    BY <1>1 DEF Clean, dbVars
  <2> QED BY <1>1, <2>1 DEF Clean, Memory
<1> QED BY <1>1, <1>3, <1>4 DEF IInv

\* The transactions left over.
LEMMA FailInv ==
    ASSUME ItemsAssumption, IInv, NEW t \in txs, dbFail(t)
    PROVE  IInv'
<1>1. /\ DataOK /\ Clean /\ txs' = txs \ {t} /\ t.stage = "db" /\ inRoom
      /\ UNCHANGED <<memVars, dbVars, used, started, beside>>
  BY DEF dbFail, IInv, DataOK
<1>2. DataOK'
  BY <1>1 DEF DataOK, memVars, dbVars
<1>3. ASSUME NEW v \in txs' PROVE TxOK(v)'
  BY <1>1 DEF IInv, TxOK
<1>4. Clean'
  <2> SUFFICES ASSUME ~beside' PROVE Clean'
    BY DEF Clean
  <2>1. /\ client = inven /\ inven = _initByList /\ equips = equipRows
        /\ (\A v \in txs : v = t) /\ \A i \in Infos : Amount(rows, i) = balance[i]
    BY <1>1 DEF Clean, Memory
  <2>2. txs' = {}
    BY <1>1, <2>1
  <2>3. Memory'
    BY <1>1, <2>1 DEF Memory, _initByList, memVars, dbVars
  <2>4. \A i \in Infos : (Amount(rows, i) = balance[i])'
    BY <1>1, <2>1 DEF dbVars
  <2> QED BY <1>1, <2>1, <2>2, <2>3, <2>4 DEF Clean, memVars
<1> QED BY <1>2, <1>3, <1>4 DEF IInv

\* What a transaction stores.
Kind(copy) == [info |-> copy.info, accum |-> copy.accum, owned |-> copy.owned]

Kinds(copies) == [id \in DOMAIN copies |-> Kind(copies[id])]

LEMMA KindIs ==
    ASSUME NEW copy \in Copies
    PROVE  /\ Kind(copy) \in Stored /\ Kind(copy).info = copy.info
           /\ Kind(copy).accum = copy.accum /\ Kind(copy).owned = copy.owned
BY DEF Copies, Stored, Kind

LEMMA CommitInv ==
    ASSUME ItemsAssumption, IInv, NEW t \in txs, dbCommit(t)
    PROVE  IInv'
<1> DEFINE Q == Over(Kinds(t.copies), rows)
<1> PICK u : u = [t EXCEPT !.stage = "ok"]
  OBVIOUS
<1>1. /\ DataOK /\ Clean /\ t.stage = "db" /\ inRoom
      /\ rows' = Q /\ equipRows' = equipRows \cup ({t.equip} \ {0})
      /\ balance' = [i \in Infos |-> balance[i] + t.delta[i]]
      /\ txs' = (txs \ {t}) \cup {u}
      /\ UNCHANGED <<memVars, used, started, beside>>
  BY DEF dbCommit, IInv, DataOK, Kinds, Kind
<1>2. /\ TxOK(t) /\ t \in Tx /\ t.copies \in Maps(Copies) /\ t.delta \in [Infos -> Int]
      /\ DOMAIN t.copies \subseteq 1..used
      /\ \A id \in DOMAIN t.copies : t.copies[id] \in Copies /\ Fits(t.copies[id])
  <2>1. TxOK(t) /\ t \in Tx /\ DOMAIN t.copies \subseteq 1..used
        /\ \A id \in DOMAIN t.copies : Fits(t.copies[id])
    BY DEF IInv, TxOK, CopiesOK
  <2>2. t.copies \in Maps(Copies) /\ t.delta \in [Infos -> Int]
    BY <2>1 DEF Tx
  <2>3. \A id \in DOMAIN t.copies : t.copies[id] \in Copies
    BY <2>2 DEF Maps
  <2> QED BY <2>1, <2>2, <2>3
<1>3. /\ u \in Tx /\ u.copies = t.copies /\ u.note = t.note /\ u.equip = t.equip
      /\ u.updater = t.updater /\ u.cheat = t.cheat /\ u.delta = t.delta
      /\ u.stage = "ok"
  <2>1. t \in Tx /\ u = [t EXCEPT !.stage = "ok"]
    BY <1>2
  <2> QED BY ONLY <2>1 DEF Tx
<1>4. /\ DOMAIN Q = DOMAIN t.copies \cup DOMAIN rows
      /\ \A id \in DOMAIN t.copies : Q[id] = Kind(t.copies[id])
      /\ \A id \in DOMAIN rows \ DOMAIN t.copies : Q[id] = rows[id]
      /\ Q = [id \in DOMAIN Q |-> Q[id]]
  BY DEF Over, Kinds
<1> HIDE DEF Q
<1>5. \A id \in DOMAIN t.copies :
          /\ Q[id].info = t.copies[id].info /\ Q[id].accum = t.copies[id].accum
          /\ Q[id].owned = t.copies[id].owned /\ Q[id] \in Stored
  BY <1>2, <1>4, KindIs
<1>6. \A id \in DOMAIN Q : Q[id] \in Stored /\ Fits(Q[id])
  <2>1. ASSUME NEW id \in DOMAIN t.copies PROVE Q[id] \in Stored /\ Fits(Q[id])
    BY <1>2, <1>5 DEF Fits
  <2>2. ASSUME NEW id \in DOMAIN rows \ DOMAIN t.copies
        PROVE  Q[id] \in Stored /\ Fits(Q[id])
    BY <1>1, <1>4 DEF DataOK, Maps
  <2> QED BY <1>4, <2>1, <2>2
<1>7. Q \in Maps(Stored) /\ DOMAIN Q \subseteq 1..used
  <2>1. DOMAIN Q \subseteq 1..used /\ used \in Nat
    BY <1>1, <1>2, <1>4 DEF DataOK
  <2>2. DOMAIN Q \in SUBSET Nat
    BY <2>1
  <2>3. Q \in [DOMAIN Q -> Stored]
    BY <1>4, <1>6
  <2> QED BY <2>1, <2>2, <2>3 DEF Maps
<1>8. DataOK'
  <2>1. balance' \in [Infos -> Int]
    BY <1>1, <1>2 DEF DataOK
  <2> QED BY <1>1, <1>6, <1>7, <2>1 DEF DataOK, memVars
<1>9. ASSUME NEW v \in txs' PROVE TxOK(v)'
  <2>1. CASE v \in txs
    BY <1>1, <2>1 DEF IInv, TxOK
  <2>2. CASE v = u
    BY <1>1, <1>2, <1>3, <2>2 DEF TxOK
  <2> QED BY <1>1, <2>1, <2>2
<1>10. Clean'
  <2> SUFFICES ASSUME ~beside' PROVE Clean'
    BY DEF Clean
  <2>1. /\ client = inven /\ inven = _initByList /\ equips = equipRows /\ CleanTx(t)
        /\ (\A v \in txs : v = t) /\ \A i \in Infos : Amount(rows, i) = balance[i]
    BY <1>1 DEF Clean, Memory
  <2>2. txs' = {u}
    BY <1>1, <2>1
  <2>3. Fresh(t.copies) /\ Adds(t.copies, t.delta)
    BY <1>1, <2>1 DEF CleanTx
  <2>4. Items(t) = [id \in {n \in DOMAIN Q : Q[n].owned} |->
                       [info |-> Q[id].info, accum |-> Q[id].accum]]
    <3> DEFINE keep == {n \in DOMAIN t.copies : t.copies[n].owned}
               old == DOMAIN inven \ DOMAIN t.copies
    <3>1. Kept(t) = keep /\ Others(t) = old
      <4>1. Gone(t) = DOMAIN t.copies \ keep
        BY DEF Gone
      <4>2. \A id \in keep : t.copies[id].crud # "Insert" => id \in DOMAIN inven
        BY <2>3 DEF Fresh
      <4>3. Kept(t) = keep
        BY <4>1, <4>2 DEF Kept, Inserted, findItem
      <4> QED BY <4>1, <4>3 DEF Others
    <3>2. {n \in DOMAIN Q : Q[n].owned} = keep \cup old
      <4>1. DOMAIN inven = {n \in DOMAIN rows : rows[n].owned}
        BY <2>1 DEF _initByList
      <4>2. \A n \in DOMAIN t.copies : Q[n].owned = t.copies[n].owned
        BY <1>5
      <4> QED BY <1>4, <4>1, <4>2
    <3>3. ASSUME NEW id \in keep
          PROVE  [info |-> Q[id].info, accum |-> Q[id].accum]
                    = [info |-> t.copies[id].info, accum |-> t.copies[id].accum]
      BY <1>5
    <3>4. ASSUME NEW id \in old
          PROVE  [info |-> Q[id].info, accum |-> Q[id].accum] = inven[id]
      <4>1. id \in DOMAIN rows /\ Q[id] = rows[id]
        BY <1>4, <2>1 DEF _initByList
      <4>2. inven[id] = [info |-> rows[id].info, accum |-> rows[id].accum]
        BY <2>1 DEF _initByList
      <4> QED BY <4>1, <4>2
    <3>5. Items(t) = [id \in keep \cup old |->
                         IF id \in keep
                         THEN [info |-> t.copies[id].info, accum |-> t.copies[id].accum]
                         ELSE inven[id]]
      BY <3>1 DEF Items
    <3> HIDE DEF keep, old
    <3> QED BY <3>2, <3>3, <3>4, <3>5
  <2>5. (Items(u) = _initByList)'
    <3>1. Items(u)' = Items(t)
      BY <1>1, <1>3 DEF Items, Kept, Others, Inserted, Gone, findItem, memVars
    <3>2. _initByList' = [id \in {n \in DOMAIN Q : Q[n].owned} |->
                             [info |-> Q[id].info, accum |-> Q[id].accum]]
      BY <1>1 DEF _initByList
    <3> QED BY <2>4, <3>1, <3>2
  <2>6. (Equipped(u) = equipRows)'
    BY <1>1, <1>3, <2>1 DEF Equipped, memVars
  <2>7. Fresh(u.copies)'
    BY <1>1, <1>3, <2>3 DEF Fresh, memVars
  <2>8. \A i \in Infos : (Amount(rows, i) = balance[i])'
    <3> SUFFICES ASSUME NEW i \in Infos PROVE Amount(Q, i) = balance'[i]
      BY <1>1
    <3> DEFINE R == Over(t.copies, rows)
    <3>1. Amount(R, i) = Amount(rows, i) + t.delta[i]
      BY <2>3 DEF Adds
    <3>2. DOMAIN Q = DOMAIN R
          /\ \A n \in DOMAIN R : Q[n].accum = R[n].accum /\ Q[n].info = R[n].info
      BY <1>4, <1>5 DEF Over
    <3> HIDE DEF R
    <3>3. Countable(R)
      <4>1. IsFiniteSet(DOMAIN R)
        <5>1. used \in Nat
          BY <1>1 DEF DataOK
        <5>2. IsFiniteSet(1..used)
          BY ONLY <5>1, FS_Interval
        <5> QED BY <1>7, <3>2, <5>2, FS_Subset
      <4>2. \A n \in DOMAIN R : R[n].accum \in Int
        BY <1>6, <3>2 DEF Stored
      <4> QED BY <4>1, <4>2 DEF Countable
    <3>4. Amount(Q, i) = Amount(R, i)
      BY ONLY <3>2, <3>3, AmountSame
    <3> QED BY <1>1, <2>1, <3>1, <3>4
  <2>9. CleanTx(u)'
    BY <1>3, <2>5, <2>6, <2>7 DEF CleanTx
  <2>10. Memory'
    BY <1>3, <2>2 DEF Memory
  <2> QED BY <1>1, <2>1, <2>2, <2>8, <2>9, <2>10 DEF Clean, memVars
<1> QED BY <1>8, <1>9, <1>10 DEF IInv

LEMMA WriteBackInv ==
    ASSUME ItemsAssumption, IInv, NEW t \in txs, writeBack(t)
    PROVE  IInv'
<1> DEFINE Q == Items(t)
           keep == {n \in DOMAIN t.copies : t.copies[n].owned}
           old == DOMAIN inven \ DOMAIN t.copies
<1>1. /\ DataOK /\ Clean /\ t.stage = "ok" /\ inRoom
      /\ inven' = Q /\ equips' = Equipped(t) /\ client' = Told(t)
      /\ txs' = txs \ {t}
      /\ UNCHANGED <<inRoom, dbVars, used, started, beside>>
  BY DEF writeBack, IInv, DataOK
<1>2. /\ TxOK(t) /\ t.copies \in Maps(Copies) /\ DOMAIN t.copies \subseteq 1..used
      /\ t.note = exportTo(t.copies)
      /\ \A id \in DOMAIN t.copies : t.copies[id] \in Copies /\ Fits(t.copies[id])
  <2>1. TxOK(t) /\ t \in Tx /\ DOMAIN t.copies \subseteq 1..used
        /\ t.note = exportTo(t.copies)
        /\ \A id \in DOMAIN t.copies : Fits(t.copies[id])
    BY DEF IInv, TxOK, CopiesOK
  <2>2. t.copies \in Maps(Copies)
    BY <2>1 DEF Tx
  <2>3. \A id \in DOMAIN t.copies : t.copies[id] \in Copies
    BY <2>2 DEF Maps
  <2> QED BY <2>1, <2>2, <2>3
<1>3. /\ Kept(t) \subseteq keep /\ Others(t) \subseteq DOMAIN inven
      /\ DOMAIN Q = Kept(t) \cup Others(t)
      /\ \A id \in Kept(t) : Q[id] = exportItem(t.copies[id])
      /\ \A id \in Others(t) \ Kept(t) : Q[id] = inven[id]
      /\ Q = [id \in DOMAIN Q |-> Q[id]]
  <2>1. Kept(t) \subseteq keep
    BY DEF Kept, Inserted, Gone
  <2>2. Others(t) \subseteq DOMAIN inven
    BY DEF Others
  <2> QED BY <2>1, <2>2 DEF Items, exportItem
<1> HIDE DEF Q
<1>4. ASSUME NEW c \in Copies
      PROVE  /\ exportItem(c) \in Stacked /\ exportItem(c).info = c.info
             /\ exportItem(c).accum = c.accum
  BY DEF exportItem, Stacked, Copies
<1>5. \A id \in DOMAIN Q : Q[id] \in Stacked /\ Q[id].accum \in 1..AccumMax[Q[id].info]
  <2>1. ASSUME NEW id \in Kept(t)
        PROVE  Q[id] \in Stacked /\ Q[id].accum \in 1..AccumMax[Q[id].info]
    <3>1. /\ t.copies[id] \in Copies /\ Fits(t.copies[id]) /\ t.copies[id].owned
          /\ Q[id] = exportItem(t.copies[id])
      BY <1>2, <1>3
    <3>2. /\ Q[id] \in Stacked /\ Q[id].info = t.copies[id].info
          /\ Q[id].accum = t.copies[id].accum
      BY <1>4, <3>1
    <3> QED BY <3>1, <3>2 DEF Fits
  <2>2. ASSUME NEW id \in Others(t) \ Kept(t)
        PROVE  Q[id] \in Stacked /\ Q[id].accum \in 1..AccumMax[Q[id].info]
    BY <1>1, <1>3 DEF DataOK, Maps
  <2> QED BY <1>3, <2>1, <2>2
<1>6. Q \in Maps(Stacked) /\ DOMAIN Q \subseteq 1..used
  <2>1. DOMAIN Q \subseteq 1..used /\ used \in Nat
    BY <1>1, <1>2, <1>3 DEF DataOK
  <2>2. DOMAIN Q \in SUBSET Nat
    BY <2>1
  <2>3. Q \in [DOMAIN Q -> Stacked]
    BY <1>3, <1>5
  <2> QED BY <2>1, <2>2, <2>3 DEF Maps
<1>7. DataOK'
  BY <1>1, <1>5, <1>6 DEF DataOK, dbVars
<1>8. ASSUME NEW v \in txs' PROVE TxOK(v)'
  BY <1>1 DEF IInv, TxOK
<1>9. Clean'
  <2> SUFFICES ASSUME ~beside' PROVE Clean'
    BY DEF Clean
  <2>1. /\ client = inven /\ CleanTx(t)
        /\ (\A v \in txs : v = t) /\ \A i \in Infos : Amount(rows, i) = balance[i]
    BY <1>1 DEF Clean
  <2>2. txs' = {}
    BY <1>1, <2>1
  <2>3. Q = _initByList /\ Equipped(t) = equipRows /\ Fresh(t.copies)
    BY <1>1, <2>1 DEF CleanTx, Q
  <2>4. (inven = _initByList /\ equips = equipRows)'
    BY <1>1, <2>3 DEF _initByList, dbVars
  <2>5. Kept(t) = keep /\ Others(t) = old
    <3>1. Gone(t) = DOMAIN t.copies \ keep
      BY DEF Gone
    <3>2. \A id \in keep : t.copies[id].crud # "Insert" => id \in DOMAIN inven
      BY <2>3 DEF Fresh
    <3>3. Kept(t) = keep
      BY <3>1, <3>2 DEF Kept, Inserted, findItem
    <3> QED BY <3>1, <3>3 DEF Others
  <2>6. client' = Q
    <3> DEFINE now == Over(t.note, inven)
    <3>1. /\ DOMAIN now = DOMAIN t.copies \cup DOMAIN inven
          /\ \A id \in DOMAIN t.copies : now[id] = exportItem(t.copies[id])
          /\ \A id \in DOMAIN inven \ DOMAIN t.copies : now[id] = inven[id]
      BY <1>2 DEF Over, exportTo
    <3>2. client' = [id \in {n \in DOMAIN now : now[n].accum > 0} |-> now[id]]
      BY <1>1, <2>1 DEF Told
    <3> HIDE DEF now
    <3>3. \A id \in DOMAIN t.copies : now[id].accum > 0 <=> t.copies[id].owned
      <4> SUFFICES ASSUME NEW id \in DOMAIN t.copies
                   PROVE  now[id].accum > 0 <=> t.copies[id].owned
        OBVIOUS
      <4>1. now[id].accum = t.copies[id].accum /\ Fits(t.copies[id])
        BY <1>2, <1>4, <3>1
      <4>2. AccumMax[t.copies[id].info] \in Nat
        BY <1>2 DEF ItemsAssumption, Copies
      <4> QED BY <4>1, <4>2 DEF Fits
    <3>4. \A id \in DOMAIN inven : inven[id].accum > 0
      <4> SUFFICES ASSUME NEW id \in DOMAIN inven PROVE inven[id].accum > 0
        OBVIOUS
      <4>1. inven[id] \in Stacked /\ inven[id].accum \in 1..AccumMax[inven[id].info]
        BY <1>1 DEF DataOK, Maps
      <4>2. AccumMax[inven[id].info] \in Nat
        BY <4>1 DEF ItemsAssumption, Stacked
      <4> QED BY <4>1, <4>2
    <3>5. {n \in DOMAIN now : now[n].accum > 0} = keep \cup old
      BY <3>1, <3>3, <3>4
    <3>6. DOMAIN Q = keep \cup old /\ \A id \in keep \cup old : Q[id] = now[id]
      BY <1>3, <2>5, <3>1
    <3> QED BY <1>3, <3>2, <3>5, <3>6
  <2>7. \A i \in Infos : (Amount(rows, i) = balance[i])'
    BY <1>1, <2>1 DEF dbVars
  <2> QED BY <1>1, <2>2, <2>4, <2>6, <2>7 DEF Clean, Memory
<1> QED BY <1>7, <1>8, <1>9 DEF IInv

-----------------------------------------------------------------------------
(* The theorems.                                                           *)

LEMMA NextInv ==
    ASSUME ItemsAssumption, IInv, [Next]_vars
    PROVE  IInv'
<1>1. CASE UNCHANGED vars
  <2>1. UNCHANGED <<memVars, dbVars, txs, used, started, beside>>
    BY <1>1 DEF vars
  <2>2. DataOK'
    BY <2>1 DEF IInv, DataOK, memVars, dbVars
  <2>3. \A t \in txs' : TxOK(t)'
    BY <2>1 DEF IInv, TxOK
  <2>4. Clean'
    <3>1. _initByList' = _initByList
      BY <2>1 DEF _initByList, dbVars
    <3>2. \A t : CleanTx(t)' <=> CleanTx(t)
      BY <2>1, <3>1 DEF CleanTx, Fresh, Adds, Items, Kept, Others, Inserted, Gone,
                        findItem, Equipped, memVars, dbVars
    <3>3. Memory' <=> Memory
      BY <2>1, <3>1 DEF Memory, memVars, dbVars
    <3> QED BY <2>1, <3>2, <3>3 DEF IInv, Clean, memVars, dbVars
  <2> QED BY <2>2, <2>3, <2>4 DEF IInv
<1>2. CASE Player
  <2>1. \A n \in 1..2 : n \in Nat \ {0}
    OBVIOUS
  <2>2. CASE load
    BY <2>2, LoadInv
  <2>3. CASE unload
    BY <2>3, UnloadInv
  <2>4. CASE \E group \in Groups : Process(group) \/ cheatDrop(group)
    BY <2>4, RewardInv
  <2>5. CASE \E counts \in Requests, infos \in SUBSET Infos : itemUseReq(counts, infos)
    BY <2>5, UseInv
  <2>6. CASE \E info \in Infos : cheatEquip(info)
    BY <2>6, EquipInv
  <2>7. CASE \E info \in Infos : \E n \in 1..2 : cheatAdd(info, n)
    BY <2>1, <2>7, CheatAddInv
  <2> QED BY <1>2, <2>2, <2>3, <2>4, <2>5, <2>6, <2>7 DEF Player
<1>3. CASE Transactions
  BY <1>3, CommitInv, FailInv, WriteBackInv DEF Transactions
<1> QED BY <1>1, <1>2, <1>3 DEF Next

\* The invariant of every state: the tables and the transactions are well
\* formed, and, as long as no cheat's transaction ran beside another, there is
\* one transaction at a time and memory, rows and balance agree around it.
THEOREM Invariance == Spec => []IInv
<1>1. Init => IInv
  BY ItemsAssumption, InitInv
<1>2. IInv /\ [Next]_vars => IInv'
  BY ItemsAssumption, NextInv
<1> QED BY <1>1, <1>2, PTL DEF Spec

\* Rows hold between one item and the accumulation limit, or belong to nobody
\* and hold none, whatever the cheats do beside other transactions.
THEOREM RowsFit == Spec => []StacksFit
<1>1. IInv => StacksFit
  BY DEF IInv, DataOK, Fits, StacksFit
<1> QED BY <1>1, Invariance, PTL

\* No item is made or lost by granting, filling, opening, using, failing or
\* restarting: rows add up to what was granted less what was used.
THEOREM NothingMadeOrLost == Spec => []Balanced
<1>1. IInv => Balanced
  BY DEF IInv, Clean, Balanced
<1> QED BY <1>1, Invariance, PTL

\* Between transactions the bag and the equipment are the rows.
THEOREM BagIsRows == Spec => []MemoryIsRows
<1>1. IInv => MemoryIsRows
  BY DEF IInv, Clean, Memory, MemoryIsRows, Quiet
<1> QED BY <1>1, Invariance, PTL

\* Between transactions the client has the inventory of the server.
THEOREM ClientHasInventory == Spec => []ClientKnows
<1>1. IInv => ClientKnows
  BY DEF IInv, Clean, ClientKnows, Quiet
<1> QED BY <1>1, Invariance, PTL
=============================================================================
