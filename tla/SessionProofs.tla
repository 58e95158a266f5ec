---------------------------- MODULE SessionProofs ----------------------------
(***************************************************************************)
(* Connections and players, for any connections, accounts, players,        *)
(* objects and any number of network threads.                              *)
(*                                                                         *)
(* TInv says what a process holds at each step.  PInv says which process   *)
(* is still to stop the timer, or to take the owner, of a player that has  *)
(* an owner and is timed.  RInv says what UserManager holds in the middle  *)
(* of a handler: a login is entered before its connection has the id, and  *)
(* an entry outlives _isCloseProcessed until the close that set the flag   *)
(* removes it.                                                             *)
(***************************************************************************)
EXTENDS Session, TLAPS

PossessStages == {"setUser", "unlist", "forgetUser", "stopTimer", "setPlayer"}
HoldStages == {"markClosed", "list", "startTimer", "dropUser"}
UnPossessStages == HoldStages \cup {"getPlayer", "dropPlayer"}
PastFlag == UnPossessStages \cup {"unPossessed"}
Closing == {"flag", "setFlag"} \cup PastFlag
LoginStages == Closing \cup {"closeSocket", "insert", "setId"}
DataStages == PossessStages \cup
              {"removeDead", "find", "possessed", "swap", "swapRoom", "reply"}

Work == [at : {"idle"} \cup LoginStages \cup DataStages,
         target : Conns \cup {None},
         arg : Accounts \cup Players \cup {None},
         old : Objects \cup {None},
         player : Objects \cup {None},
         room : BOOLEAN]

Task == [conn : Conns, pid : Players, player : Objects \cup {None},
         at : {"load"} \cup PossessStages \cup UnPossessStages, number : Nat]

-----------------------------------------------------------------------------
(* The invariants.                                                         *)

ConnTypes ==
    /\ socket \in [Conns -> {"new", "open", "closing", "closed"}]
    /\ userId \in [Conns -> Accounts \cup {None}]
    /\ processed \in [Conns -> BOOLEAN]
    /\ users \in [Accounts -> Conns \cup {None}]

HandTypes ==
    /\ avatar \in [Conns -> Objects \cup {None}]
    /\ owner \in [Objects -> Conns \cup {None}]
    /\ waiting \in [Accounts -> Objects \cup {None}]
    /\ closedUser \in [Objects -> Accounts \cup {None}]
    /\ timer \in [Objects -> BOOLEAN]

PlayerTypes ==
    /\ players \in [Players -> Objects \cup {None}]
    /\ requests \in Nat

\* What a process must hold at a stage.
HoldsIts(w) ==
    /\ w.at \in Closing \cup {"closeSocket"} => w.target \in Conns
    /\ w.at \in {"insert", "setId"} => w.arg \in Accounts
    /\ w.at \in DataStages => w.arg \in Players

WorkTypes ==
    /\ work \in [Procs -> Work]
    /\ \A p \in Procs : HoldsIts(work[p])
    /\ \A c \in Conns : work[<<c, "handler">>].at \in LoginStages =>
                            work[<<c, "handler">>].arg \in Accounts
    /\ \A c \in Conns : work[<<c, "closed">>].at \in {"idle"} \cup Closing

LoadTypes == loads \subseteq Task

TInv == ConnTypes /\ HandTypes /\ PlayerTypes /\ WorkTypes /\ LoadTypes

\* The processes that have a player in hand.
Hands == {work[p] : p \in Procs} \cup loads
At(o, stages) == \E w \in Hands : w.player = o /\ w.at \in stages

ToStop == {"unlist", "forgetUser", "stopTimer", "dropUser"}
ToForget == {"unlist", "forgetUser", "list", "startTimer", "dropUser"}

PInv ==
    \A o \in Objects : owner[o] # None =>
        /\ timer[o] => At(o, ToStop)
        /\ closedUser[o] # None => At(o, ToForget)

\* A connection that has, or is about to have, an id, or is gone.
Known(c) ==
    userId[c] # None \/ work[<<c, "handler">>].at = "setId" \/ socket[c] = "closed"

Entering(c, a) ==
    work[<<c, "handler">>].at = "setId" /\ work[<<c, "handler">>].arg = a

LoginOK ==
    \A c \in Conns :
        /\ work[<<c, "handler">>].at \in LoginStages => userId[c] = None
        /\ work[<<c, "handler">>].at \in LoginStages \ {"setId"} =>
               ~processed[c] /\ socket[c] # "closed"
        /\ \A a \in Accounts : Entering(c, a) => users[a] = c \/ c \in robbed

FlagOK ==
    /\ \A p \in Procs, c \in Conns : work[p].target = c =>
          /\ work[p].at \in Closing => Known(c)
          /\ work[p].at \in PastFlag => processed[c]
    /\ \A c \in Conns : processed[c] => Known(c)

\* The close that has set the flag of c has not removed its entry yet.
TearDown(c) == \E p \in Procs : work[p].target = c /\ work[p].at \in PastFlag

Registry ==
    \A a \in Accounts, c \in Conns :
        /\ users[a] = c => userId[c] = a \/ Entering(c, a)
        /\ users[a] = c /\ processed[c] => c \in unnamed \/ TearDown(c)
        /\ userId[c] = a /\ ~processed[c] => users[a] = c \/ c \in robbed

RInv == LoginOK /\ FlagOK /\ Registry

-----------------------------------------------------------------------------
(* Records.                                                                *)

\* An access of User::possess is followed by a later one, for the same player.
LEMMA PossessGoes ==
    ASSUME NEW w, w \in Work \/ w \in Task, w.at \in PossessStages
    PROVE  /\ Possessing(w) = [w EXCEPT !.at = Possessing(w).at]
           /\ Possessing(w).at \in (PossessStages \ {"setUser"}) \cup {"possessed"}
           /\ w.at = "setUser" => Possessing(w).at = "unlist"
           /\ w.at = "unlist" => Possessing(w).at = IF closedUser[w.player] = None
                                                     THEN "stopTimer" ELSE "forgetUser"
           /\ w.at = "forgetUser" => Possessing(w).at = "stopTimer"
           /\ w.at = "stopTimer" => Possessing(w).at = "setPlayer"
           /\ w.at = "setPlayer" => Possessing(w).at = "possessed"
BY DEF Possessing, PossessOrder, PossessStages, Work, Task

\* And one of User::unPossess, which takes the player of the User and drops it.
LEMMA UnPossessGoes ==
    ASSUME NEW w, NEW c, w \in Work \/ w \in Task, w.at \in UnPossessStages
    PROVE  /\ UnPossessing(c, w) = [w EXCEPT !.at = UnPossessing(c, w).at,
                                             !.player = UnPossessing(c, w).player]
           /\ UnPossessing(c, w).at \in PastFlag \ {"getPlayer"}
           /\ w.at # "getPlayer" =>
                 UnPossessing(c, w).player = IF w.at = "dropPlayer" THEN None
                                             ELSE w.player
           /\ w.at = "getPlayer" =>
                 /\ UnPossessing(c, w).player = Lock(avatar[c])
                 /\ UnPossessing(c, w).at \in {"dropPlayer", "markClosed"}
           /\ w.at = "markClosed" => UnPossessing(c, w).at = "list"
           /\ w.at = "list" => UnPossessing(c, w).at = "startTimer"
           /\ w.at = "startTimer" => UnPossessing(c, w).at = "dropUser"
           /\ w.at = "dropUser" => UnPossessing(c, w).at = "dropPlayer"
           /\ w.at = "dropPlayer" => UnPossessing(c, w).at = "unPossessed"
<1> DEFINE o == Lock(avatar[c])
           to(s, x) == [w EXCEPT !.at = s, !.player = x]
<1>1. ASSUME NEW s, NEW x PROVE to(s, x).at = s /\ to(s, x).player = x
  BY DEF Work, Task
<1>2. CASE w.at = "getPlayer"
  <2>1. UnPossessing(c, w) = to(IF o = None THEN "dropPlayer" ELSE "markClosed", o)
    BY <1>2 DEF UnPossessing
  <2> QED BY <2>1, <1>1, <1>2 DEF PastFlag, UnPossessStages, HoldStages
<1>3. CASE w.at # "getPlayer"
  <2>1. UnPossessing(c, w) = to(UnPossessOrder[w.at],
                                IF w.at = "dropPlayer" THEN None ELSE w.player)
    BY <1>3 DEF UnPossessing
  <2>2. /\ UnPossessing(c, w).at = UnPossessOrder[w.at]
        /\ UnPossessing(c, w).player = IF w.at = "dropPlayer" THEN None ELSE w.player
    BY <2>1, <1>1
  <2>3. UnPossessing(c, w) = [w EXCEPT !.at = UnPossessing(c, w).at,
                                       !.player = UnPossessing(c, w).player]
    BY <2>1, <2>2
  <2> HIDE DEF to, o
  <2> QED BY <2>2, <2>3, <1>3 DEF UnPossessOrder, UnPossessStages, HoldStages, PastFlag
<1> QED BY <1>2, <1>3

\* The stages of possess and unPossess are those their steps are enabled at.
LEMMA Stages ==
    ASSUME NEW c, NEW w
    PROVE  /\ possess(c, w) => w.at \in PossessStages
           /\ unPossess(c, w) => w.at \in UnPossessStages
           /\ DOMAIN PossessOrder = PossessStages
           /\ DOMAIN UnPossessOrder = UnPossessStages \ {"getPlayer"}
BY DEF possess, unPossess, PossessStages, UnPossessStages, HoldStages, PossessOrder,
       UnPossessOrder

-----------------------------------------------------------------------------
(* Types.                                                                  *)

\* One process takes one step.
LEMMA OneMoves ==
    ASSUME WorkTypes, NEW p \in Procs, NEW w \in Work, HoldsIts(w),
           p[2] = "handler" /\ w.at \in LoginStages => w.arg \in Accounts,
           p[2] = "closed" => w.at \in {"idle"} \cup Closing,
           work' = [work EXCEPT ![p] = w]
    PROVE  WorkTypes'
<1>1. work'[p] = w /\ \A q \in Procs : q # p => work'[q] = work[q]
  BY DEF WorkTypes
<1>2. work' \in [Procs -> Work]
  BY DEF WorkTypes
<1>3. \A q \in Procs : HoldsIts(work'[q])
  BY <1>1 DEF WorkTypes
<1>4. \A q \in Procs : HoldsIts(work'[q]) <=> HoldsIts(work[q])'
  BY DEF HoldsIts
<1>5. ASSUME NEW c \in Conns
      PROVE  /\ work'[<<c, "handler">>].at \in LoginStages =>
                    work'[<<c, "handler">>].arg \in Accounts
             /\ work'[<<c, "closed">>].at \in {"idle"} \cup Closing
  <2>1. <<c, "handler">> \in Procs /\ <<c, "closed">> \in Procs
    BY DEF Procs
  <2>2. <<c, "handler">>[2] = "handler" /\ <<c, "closed">>[2] = "closed"
    OBVIOUS
  <2>3. CASE p = <<c, "handler">>
    BY <2>1, <2>2, <2>3, <1>1 DEF WorkTypes
  <2>4. CASE p = <<c, "closed">>
    BY <2>1, <2>2, <2>4, <1>1 DEF WorkTypes
  <2>5. CASE p # <<c, "handler">> /\ p # <<c, "closed">>
    BY <2>1, <2>5, <1>1 DEF WorkTypes
  <2> QED BY <2>3, <2>4, <2>5
<1> QED BY <1>2, <1>3, <1>4, <1>5 DEF WorkTypes, LoginStages, Closing

\* It goes to another stage and keeps what it holds.
LEMMA Goes ==
    ASSUME WorkTypes, NEW p \in Procs, NEW s \in {"idle"} \cup LoginStages \cup DataStages,
           Goto(p, s)
    PROVE  /\ work'[p] = [work[p] EXCEPT !.at = s]
           /\ work'[p] \in Work
           /\ work' = [work EXCEPT ![p] = work'[p]]
           /\ work'[p].at = s
           /\ work'[p].target = work[p].target /\ work'[p].arg = work[p].arg
           /\ work'[p].player = work[p].player /\ work'[p].old = work[p].old
<1>1. work[p] \in Work
  BY DEF WorkTypes
<1>2. [work[p] EXCEPT !.at = s] \in Work
  BY <1>1 DEF Work
<1>3. work' = [work EXCEPT ![p] = [work[p] EXCEPT !.at = s]]
  BY DEF Goto
<1> QED BY <1>1, <1>2, <1>3 DEF WorkTypes, Work

\* Or it ends.
LEMMA Ends ==
    ASSUME WorkTypes, NEW p \in Procs, Done(p)
    PROVE  /\ work'[p] = Resting /\ Resting \in Work /\ Resting.at = "idle"
           /\ Resting.player = None
           /\ work' = [work EXCEPT ![p] = Resting]
           /\ HoldsIts(Resting)
BY DEF Done, WorkTypes, Work, Resting, HoldsIts, LoginStages, Closing, PastFlag,
       UnPossessStages, HoldStages, DataStages, PossessStages

\* A stage that asks for nothing the record does not hold.
LEMMA GoesTyped ==
    ASSUME WorkTypes, NEW p \in Procs, NEW s \in LoginStages \cup DataStages,
           Goto(p, s),
           s \in Closing \cup {"closeSocket"} => work[p].target \in Conns,
           s \in LoginStages => p[2] = "closed" \/ work[p].arg \in Accounts,
           s \in DataStages => work[p].arg \in Players,
           p[2] = "closed" => s \in Closing
    PROVE  WorkTypes'
<1>1. /\ work'[p] \in Work /\ work' = [work EXCEPT ![p] = work'[p]]
      /\ work'[p].at = s
      /\ work'[p].target = work[p].target /\ work'[p].arg = work[p].arg
  BY Goes
<1>2. Closing \subseteq LoginStages /\ LoginStages \cap DataStages = {}
  BY DEF LoginStages, Closing, PastFlag, UnPossessStages, HoldStages, DataStages,
         PossessStages
<1>3. s \notin {"insert", "setId"} \/ p[2] # "closed"
  BY DEF Closing, PastFlag, UnPossessStages, HoldStages
<1>4. HoldsIts(work'[p])
  BY <1>1, <1>2, <1>3 DEF HoldsIts, LoginStages
<1>5. p[2] \in {"handler", "closed"}
  BY DEF Procs
<1> QED BY <1>1, <1>2, <1>4, <1>5, OneMoves, Zenon

\* A process at rest leaves nothing to say.
LEMMA EndsTyped ==
    ASSUME WorkTypes, NEW p \in Procs, Done(p)
    PROVE  WorkTypes'
<1>1. /\ Resting \in Work /\ Resting.at = "idle"
      /\ work' = [work EXCEPT ![p] = Resting] /\ HoldsIts(Resting)
  BY Ends
<1>2. "idle" \notin LoginStages
  BY DEF LoginStages, Closing, PastFlag, UnPossessStages, HoldStages
<1> QED BY <1>1, <1>2, OneMoves

\* The accesses of possess and unPossess keep the types of what they write.
LEMMA PossessTyped ==
    ASSUME HandTypes, NEW c \in Conns, NEW w, w.player \in Objects \cup {None},
           possess(c, w)
    PROVE  HandTypes'
BY DEF HandTypes, possess

LEMMA UnPossessTyped ==
    ASSUME HandTypes, ConnTypes, NEW c \in Conns, NEW w,
           w.player \in Objects \cup {None}, unPossess(c, w)
    PROVE  HandTypes'
<1>1. userId[c] \in Accounts \cup {None}
  BY DEF ConnTypes
<1>2. CASE w.at = "list"
  <2>1. PICK key \in {userId[c], closedUser[w.player]} :
           waiting' = [a \in Accounts |-> IF a = key /\ waiting[a] = None
                                          THEN w.player ELSE waiting[a]]
    BY <1>2 DEF unPossess
  <2>2. UNCHANGED <<avatar, owner, closedUser, timer>>
    BY <1>2 DEF unPossess
  <2> QED BY <2>1, <2>2 DEF HandTypes
<1>3. CASE w.at # "list"
  BY <1>1, <1>3 DEF HandTypes, unPossess, handVars
<1> QED BY <1>2, <1>3

\* Nothing outside of the connections moves.
LEMMA OthersKept ==
    ASSUME HandTypes, PlayerTypes, LoadTypes,
           UNCHANGED <<handVars, players, requests, loads>>
    PROVE  HandTypes' /\ PlayerTypes' /\ LoadTypes'
BY DEF HandTypes, PlayerTypes, LoadTypes, handVars

\* The lock of a weak pointer gives the object or nothing.
LEMMA Locked ==
    ASSUME NEW o \in Objects \cup {None}
    PROVE  Lock(o) \in Objects \cup {None}
BY DEF Lock

LEMMA SocketTyped ==
    ASSUME TInv, UNCHANGED <<userId, processed, handVars, work, users, players, loads,
                             requests>>,
           NEW c \in Conns, NEW s \in {"open", "closing"},
           socket' = [socket EXCEPT ![c] = s]
    PROVE  TInv'
<1>1. ConnTypes'
  BY DEF TInv, ConnTypes
<1>2. WorkTypes'
  BY DEF TInv, WorkTypes, HoldsIts
<1> QED BY <1>1, <1>2, OthersKept DEF TInv

LEMMA LoginReqTyped ==
    ASSUME TInv, NEW c \in Conns, NEW a \in Accounts, loginReq(c, a)
    PROVE  TInv'
<1> DEFINE p == <<c, "handler">>
           w == [Resting EXCEPT !.at = IF users[a] = None THEN "insert" ELSE "flag",
                                !.target = users[a], !.arg = a]
<1>1. p \in Procs /\ p[2] = "handler"
  BY DEF Procs
<1>2. w \in Work /\ HoldsIts(w) /\ w.arg = a
  BY DEF TInv, ConnTypes, Work, Resting, HoldsIts, LoginStages, Closing, PastFlag,
         UnPossessStages, HoldStages, DataStages, PossessStages
<1>3. work' = [work EXCEPT ![p] = w]
  BY DEF loginReq
<1>4. WorkTypes'
  <2> HIDE DEF p, w
  <2> QED BY <1>1, <1>2, <1>3, OneMoves DEF TInv
<1>5. ConnTypes'
  BY DEF loginReq, TInv, ConnTypes, connVars
<1> QED BY <1>4, <1>5, OthersKept DEF loginReq, TInv

LEMMA LoginInsertTyped ==
    ASSUME TInv, NEW c \in Conns, loginInsert(c)
    PROVE  TInv'
<1> DEFINE p == <<c, "handler">>
<1>1. p \in Procs /\ p[2] = "handler"
  BY DEF Procs
<1>2. work[p].arg \in Accounts
  BY <1>1 DEF loginInsert, TInv, WorkTypes, HoldsIts
<1>3. Goto(p, "setId") \/ Done(p)
  BY DEF loginInsert
<1>4. "setId" \in LoginStages /\ "setId" \notin DataStages
      /\ "setId" \notin Closing \cup {"closeSocket"}
  BY DEF LoginStages, Closing, PastFlag, UnPossessStages, HoldStages, DataStages,
         PossessStages
<1>5. WorkTypes'
  <2> HIDE DEF p
  <2>1. CASE Goto(p, "setId")
    BY <1>1, <1>2, <1>4, <2>1, GoesTyped DEF TInv
  <2>2. CASE Done(p)
    BY <1>1, <2>2, EndsTyped DEF TInv
  <2> QED BY <1>3, <2>1, <2>2
<1>6. ConnTypes'
  BY DEF loginInsert, TInv, ConnTypes, connVars
<1> QED BY <1>5, <1>6, OthersKept DEF loginInsert, TInv

LEMMA LoginSetIdTyped ==
    ASSUME TInv, NEW c \in Conns, loginSetId(c)
    PROVE  TInv'
<1> DEFINE p == <<c, "handler">>
<1>1. p \in Procs
  BY DEF Procs
<1>2. work[p].arg \in Accounts
  BY <1>1 DEF loginSetId, TInv, WorkTypes, HoldsIts
<1>3. WorkTypes'
  BY <1>1, EndsTyped DEF loginSetId, TInv
<1>4. ConnTypes'
  BY <1>2 DEF loginSetId, TInv, ConnTypes
<1> QED BY <1>3, <1>4, OthersKept DEF loginSetId, TInv

LEMMA OnClosedTyped ==
    ASSUME TInv, NEW c \in Conns, onClosed(c)
    PROVE  TInv'
<1> DEFINE p == <<c, "closed">>
           w == [Resting EXCEPT !.at = "flag", !.target = c]
<1>1. p \in Procs /\ p[2] = "closed"
  BY DEF Procs
<1>2. w \in Work /\ HoldsIts(w) /\ w.at = "flag" /\ "flag" \in Closing
  BY DEF Work, Resting, HoldsIts, LoginStages, Closing, PastFlag,
         UnPossessStages, HoldStages, DataStages, PossessStages
<1>3. work' = [work EXCEPT ![p] = w]
  BY DEF onClosed
<1>4. WorkTypes'
  <2> HIDE DEF p, w
  <2> QED BY <1>1, <1>2, <1>3, OneMoves DEF TInv
<1>5. ConnTypes'
  BY DEF onClosed, TInv, ConnTypes
<1> QED BY <1>4, <1>5, OthersKept DEF onClosed, TInv

\* The stages of a close, by the callback or by a login.
LEMMA CloseStages ==
    /\ Closing \cap DataStages = {} /\ Closing \subseteq LoginStages
    /\ "closeSocket" \in LoginStages \ (Closing \cup DataStages)
    /\ "insert" \in LoginStages \ (Closing \cup DataStages \cup {"closeSocket"})
    /\ {"flag", "setFlag", "getPlayer", "unPossessed"} \subseteq Closing
    /\ PastFlag \subseteq Closing /\ UnPossessStages \subseteq PastFlag
    /\ "idle" \notin LoginStages \cup DataStages
BY DEF LoginStages, Closing, PastFlag, UnPossessStages, HoldStages, DataStages,
       PossessStages

LEMMA Closers ==
    ASSUME WorkTypes, NEW p \in Procs, work[p].at \in Closing \cup {"closeSocket"}
    PROVE  /\ work[p].target \in Conns
           /\ p[2] = "closed" \/ work[p].arg \in Accounts
           /\ work[p].at = "closeSocket" => p[2] # "closed"
<1>1. work[p].target \in Conns
  BY DEF WorkTypes, HoldsIts
<1>2. PICK c \in Conns : p = <<c, "handler">> \/ p = <<c, "closed">>
  BY DEF Procs
<1>3. CASE p = <<c, "handler">>
  <2>1. work[p].at \in LoginStages
    BY CloseStages
  <2> QED BY <1>1, <1>3, <2>1 DEF WorkTypes
<1>4. CASE p = <<c, "closed">>
  <2>1. p[2] = "closed"
    BY <1>4
  <2>2. work[p].at \in {"idle"} \cup Closing
    BY <1>4 DEF WorkTypes
  <2>3. work[p].at # "closeSocket"
    BY <2>2, CloseStages
  <2> QED BY <1>1, <2>1, <2>3
<1> QED BY <1>2, <1>3, <1>4

\* A closer goes on to another stage of the close, or comes to its end.
LEMMA CloserTyped ==
    ASSUME WorkTypes, NEW p \in Procs, work[p].at \in Closing \cup {"closeSocket"},
           \/ \E s \in Closing : Goto(p, s)
           \/ Goto(p, "insert") /\ p[2] # "closed"
           \/ Closed(p)
    PROVE  WorkTypes'
<1>1. /\ work[p].target \in Conns
      /\ p[2] = "closed" \/ work[p].arg \in Accounts
  BY Closers
<1>2. ASSUME NEW s \in Closing, Goto(p, s) PROVE WorkTypes'
  BY <1>1, <1>2, CloseStages, GoesTyped
<1>3. CASE Goto(p, "insert") /\ p[2] # "closed"
  BY <1>1, <1>3, CloseStages, GoesTyped
<1>4. CASE Closed(p)
  <2>1. CASE p[2] = "handler"
    <3>1. Goto(p, "closeSocket") /\ p[2] # "closed"
      BY <2>1, <1>4 DEF Closed
    <3> QED BY <3>1, <1>1, CloseStages, GoesTyped
  <2>2. CASE p[2] # "handler"
    BY <2>2, <1>4, EndsTyped DEF Closed
  <2> QED BY <2>1, <2>2
<1> QED BY <1>2, <1>3, <1>4

LEMMA CloseTyped ==
    ASSUME TInv, NEW p \in Procs,
           closeCheck(p) \/ closeSetFlag(p) \/ closeRemove(p) \/ closeSocket(p)
    PROVE  TInv'
<1>1. CASE closeCheck(p)
  <2>1. work[p].at \in Closing /\ (Closed(p) \/ Goto(p, "setFlag"))
    BY <1>1, CloseStages DEF closeCheck
  <2>2. WorkTypes'
    BY <2>1, CloseStages, CloserTyped DEF TInv
  <2>3. ConnTypes'
    BY <1>1 DEF closeCheck, TInv, ConnTypes, connVars
  <2> QED BY <1>1, <2>2, <2>3, OthersKept DEF closeCheck, TInv
<1>2. CASE closeSetFlag(p)
  <2>1. work[p].at \in Closing /\ Goto(p, "getPlayer")
    BY <1>2, CloseStages DEF closeSetFlag
  <2>2. WorkTypes'
    BY <2>1, CloseStages, CloserTyped DEF TInv
  <2>3. ConnTypes'
    BY <1>2 DEF closeSetFlag, TInv, ConnTypes
  <2> QED BY <1>2, <2>2, <2>3, OthersKept DEF closeSetFlag, TInv
<1>3. CASE closeRemove(p)
  <2>1. work[p].at \in Closing /\ Closed(p)
    BY <1>3, CloseStages DEF closeRemove
  <2>2. WorkTypes'
    BY <2>1, CloserTyped DEF TInv
  <2>3. ConnTypes'
    BY <1>3 DEF closeRemove, TInv, ConnTypes, connVars
  <2> QED BY <1>3, <2>2, <2>3, OthersKept DEF closeRemove, TInv
<1>4. CASE closeSocket(p)
  <2>1. work[p].at = "closeSocket" /\ Goto(p, "insert")
    BY <1>4 DEF closeSocket
  <2>2. p[2] # "closed"
    BY <2>1, Closers DEF TInv
  <2>3. WorkTypes'
    BY <2>1, <2>2, CloserTyped DEF TInv
  <2>4. ConnTypes'
    BY <1>4 DEF closeSocket, TInv, ConnTypes
  <2> QED BY <1>4, <2>3, <2>4, OthersKept DEF closeSocket, TInv
<1> QED BY <1>1, <1>2, <1>3, <1>4

\* Records that go on are records.
LEMMA PossessingTyped ==
    ASSUME NEW w, w.at \in PossessStages
    PROVE  /\ w \in Work => /\ Possessing(w) \in Work
                            /\ Possessing(w).arg = w.arg
                            /\ Possessing(w).player = w.player
           /\ w \in Task /\ Possessing(w).at # "possessed" => Possessing(w) \in Task
<1>1. ASSUME w \in Work \/ w \in Task
      PROVE  /\ Possessing(w) = [w EXCEPT !.at = Possessing(w).at]
             /\ Possessing(w).at \in PossessStages \cup {"possessed"}
  BY <1>1, PossessGoes
<1>2. CASE w \in Work
  <2> DEFINE s == Possessing(w).at
  <2>1. s \in DataStages /\ Possessing(w) = [w EXCEPT !.at = s]
    BY <1>1, <1>2 DEF DataStages
  <2> HIDE DEF s
  <2>2. [w EXCEPT !.at = s] \in Work /\ [w EXCEPT !.at = s].arg = w.arg
        /\ [w EXCEPT !.at = s].player = w.player
    BY <2>1, <1>2 DEF Work
  <2>3. w \in Task /\ s # "possessed" => [w EXCEPT !.at = s] \in Task
    <3>1. w \notin Task
      BY <1>2 DEF Work, Task
    <3> QED BY <3>1
  <2> QED BY <2>1, <2>2, <2>3 DEF s
<1>3. CASE w \in Task /\ w \notin Work
  <2> DEFINE s == Possessing(w).at
  <2>1. s \in PossessStages \cup {"possessed"} /\ Possessing(w) = [w EXCEPT !.at = s]
    BY <1>1, <1>3
  <2> HIDE DEF s
  <2>2. s # "possessed" => [w EXCEPT !.at = s] \in Task
    BY <2>1, <1>3 DEF Task
  <2> QED BY <2>1, <2>2, <1>3 DEF s
<1> QED BY <1>2, <1>3

LEMMA UnPossessingTyped ==
    ASSUME NEW c \in Conns, NEW w, w.at \in UnPossessStages, HandTypes
    PROVE  /\ w \in Work => /\ UnPossessing(c, w) \in Work
                            /\ UnPossessing(c, w).arg = w.arg
                            /\ UnPossessing(c, w).target = w.target
           /\ w \in Task /\ UnPossessing(c, w).at # "unPossessed" =>
                  UnPossessing(c, w) \in Task
<1> DEFINE s == UnPossessing(c, w).at
           o == UnPossessing(c, w).player
<1>1. Lock(avatar[c]) \in Objects \cup {None}
  BY Locked DEF HandTypes
<1>2. ASSUME w \in Work \/ w \in Task
      PROVE  /\ UnPossessing(c, w) = [w EXCEPT !.at = s, !.player = o]
             /\ s \in PastFlag \ {"getPlayer"}
             /\ o \in Objects \cup {None}
  <2>1. w.player \in Objects \cup {None}
    BY <1>2 DEF Work, Task
  <2> QED BY <1>1, <1>2, <2>1, UnPossessGoes
<1>3. ASSUME w \in Work
      PROVE  /\ UnPossessing(c, w) \in Work
             /\ UnPossessing(c, w).arg = w.arg
             /\ UnPossessing(c, w).target = w.target
  <2>1. /\ UnPossessing(c, w) = [w EXCEPT !.at = s, !.player = o]
        /\ s \in LoginStages /\ o \in Objects \cup {None}
    BY <1>2, <1>3, CloseStages
  <2> HIDE DEF s, o
  <2> QED BY <2>1, <1>3 DEF Work
<1>4. ASSUME w \in Task, s # "unPossessed"
      PROVE  UnPossessing(c, w) \in Task
  <2>1. /\ UnPossessing(c, w) = [w EXCEPT !.at = s, !.player = o]
        /\ s \in UnPossessStages /\ o \in Objects \cup {None}
    BY <1>2, <1>4 DEF PastFlag
  <2> HIDE DEF s, o
  <2> QED BY <2>1, <1>4 DEF Task
<1> QED BY <1>3, <1>4

LEMMA CloseUnPossessTyped ==
    ASSUME TInv, NEW p \in Procs, closeUnPossess(p)
    PROVE  TInv'
<1> DEFINE w == work[p]
           n == UnPossessing(w.target, w)
<1>1. w.at \in UnPossessStages /\ w \in Work /\ unPossess(w.target, w)
  BY Stages DEF closeUnPossess, TInv, WorkTypes
<1>2. w.at \in Closing
  BY <1>1, CloseStages
<1>3. w.target \in Conns /\ (p[2] = "closed" \/ w.arg \in Accounts)
  BY <1>2, Closers DEF TInv
<1>4. n \in Work /\ n.arg = w.arg /\ n.target = w.target
  BY <1>1, <1>3, UnPossessingTyped DEF TInv
<1>5. n.at \in PastFlag
  BY <1>1, UnPossessGoes
<1>6. HoldsIts(n)
  <2> HIDE DEF n
  <2> QED BY <1>3, <1>4, <1>5, CloseStages DEF HoldsIts, PastFlag, UnPossessStages,
             HoldStages
<1>7. work' = [work EXCEPT ![p] = n]
  BY DEF closeUnPossess
<1>8. WorkTypes'
  <2> HIDE DEF n
  <2>1. p[2] = "handler" => n.arg \in Accounts
    BY <1>3, <1>4
  <2> QED BY <2>1, <1>4, <1>5, <1>6, <1>7, CloseStages, OneMoves DEF TInv
<1>9. HandTypes'
  <2>1. w.player \in Objects \cup {None}
    BY <1>1 DEF Work
  <2> QED BY <2>1, <1>1, <1>3, UnPossessTyped DEF TInv
<1>10. ConnTypes' /\ PlayerTypes' /\ LoadTypes'
  BY DEF closeUnPossess, TInv, ConnTypes, PlayerTypes, LoadTypes, connVars
<1> QED BY <1>8, <1>9, <1>10 DEF TInv

\* The handler of PlayerDataReq goes on to another of its stages.
LEMMA DataStagesOf ==
    /\ {"find", "removeDead", "setUser", "possessed", "swap", "swapRoom", "reply"}
          \subseteq DataStages
    /\ PossessStages \subseteq DataStages
    /\ "setUser" \in PossessStages /\ "getPlayer" \in UnPossessStages
    /\ DataStages \cap LoginStages = {} /\ "closeSocket" \notin DataStages
BY DEF DataStages, LoginStages, Closing, PastFlag, UnPossessStages, HoldStages,
       PossessStages

LEMMA DataMoves ==
    ASSUME WorkTypes, NEW c \in Conns, NEW n \in Work, n.at \in DataStages,
           n.arg \in Players, work' = [work EXCEPT ![<<c, "handler">>] = n]
    PROVE  WorkTypes'
<1> DEFINE p == <<c, "handler">>
<1>1. p \in Procs /\ p[2] = "handler"
  BY DEF Procs
<1>2. HoldsIts(n) /\ n.at \notin LoginStages
  BY DataStagesOf DEF HoldsIts, LoginStages
<1>3. work' = [work EXCEPT ![p] = n]
  OBVIOUS
<1> HIDE DEF p
<1> QED BY <1>1, <1>2, <1>3, OneMoves

\* What the handler holds.
LEMMA DataHolds ==
    ASSUME TInv, NEW c \in Conns, work[<<c, "handler">>].at \in DataStages
    PROVE  /\ <<c, "handler">> \in Procs
           /\ work[<<c, "handler">>] \in Work
           /\ work[<<c, "handler">>].arg \in Players
BY DEF Procs, TInv, WorkTypes, HoldsIts

LEMMA DataReqTyped ==
    ASSUME TInv, NEW c \in Conns, NEW pid \in Players, dataReq(c, pid)
    PROVE  TInv'
<1> DEFINE a == userId[c]
           old == Lock(waiting[a])
           n == [Resting EXCEPT !.at = IF waiting[a] # None /\ old = None
                                       THEN "removeDead" ELSE "find",
                                !.arg = pid, !.old = old]
<1>1. a \in Accounts
  BY DEF dataReq, TInv, ConnTypes
<1>2. old \in Objects \cup {None}
  BY <1>1, Locked DEF TInv, HandTypes
<1>3. n \in Work /\ n.at \in DataStages /\ n.arg \in Players
  <2> HIDE DEF old
  <2> QED BY <1>2, DataStagesOf DEF Work, Resting
<1>4. work' = [work EXCEPT ![<<c, "handler">>] = n]
  BY DEF dataReq
<1>5. WorkTypes'
  <2> HIDE DEF n
  <2> QED BY <1>3, <1>4, DataMoves DEF TInv
<1>6. ConnTypes' /\ HandTypes' /\ PlayerTypes' /\ LoadTypes'
  BY DEF dataReq, TInv, ConnTypes, HandTypes, PlayerTypes, LoadTypes, connVars, handVars
<1> QED BY <1>5, <1>6 DEF TInv

LEMMA DataGoesTyped ==
    ASSUME TInv, NEW c \in Conns,
           \/ dataRemoveDead(c) \/ dataSwap(c) \/ dataSwapRoom(c)
    PROVE  TInv'
<1> DEFINE p == <<c, "handler">>
<1>1. PICK s \in DataStages : Goto(p, s)
  BY DataStagesOf DEF dataRemoveDead, dataSwap, dataSwapRoom
<1>2. p \in Procs /\ work[p].arg \in Players /\ p[2] # "closed"
  BY DataStagesOf, DataHolds DEF dataRemoveDead, dataSwap, dataSwapRoom
<1>3. WorkTypes'
  <2>1. s \notin LoginStages /\ s \notin Closing \cup {"closeSocket"}
    BY DataStagesOf, CloseStages
  <2>2. s \in LoginStages \cup DataStages /\ WorkTypes
    BY DEF TInv
  <2> HIDE DEF p
  <2> QED BY ONLY <1>1, <1>2, <2>1, <2>2, GoesTyped, Zenon
<1>4. ConnTypes' /\ HandTypes' /\ PlayerTypes' /\ LoadTypes'
  BY DEF dataRemoveDead, dataSwap, dataSwapRoom, TInv, ConnTypes, HandTypes,
         PlayerTypes, LoadTypes, connVars, handVars
<1> QED BY <1>3, <1>4 DEF TInv

LEMMA DataFindTyped ==
    ASSUME TInv, NEW c \in Conns, dataFind(c)
    PROVE  TInv'
<1> DEFINE p == <<c, "handler">>
           o == players[work[p].arg]
           n == [work[p] EXCEPT !.player = o,
                                !.at = IF o = None THEN Found(work[p]) ELSE "setUser"]
<1>1. work[p] \in Work /\ work[p].arg \in Players /\ p \in Procs
  BY DataStagesOf, DataHolds DEF dataFind
<1>2. o \in Objects \cup {None}
  BY <1>1 DEF TInv, PlayerTypes
<1>3. Found(work[p]) \in DataStages
  BY DataStagesOf DEF Found
<1>4. n \in Work /\ n.at \in DataStages /\ n.arg \in Players
  <2> HIDE DEF o
  <2> QED BY <1>1, <1>2, <1>3, DataStagesOf DEF Work
<1>5. work' = [work EXCEPT ![p] = n]
  <2>1. work \in [Procs -> Work]
    BY DEF TInv, WorkTypes
  <2>2. work' = [work EXCEPT ![p].player = o,
                             ![p].at = IF o = None THEN Found(work[p]) ELSE "setUser"]
    BY DEF dataFind
  <2> HIDE DEF p, o
  <2>3. work' = [work EXCEPT ![p] =
                   [[work[p] EXCEPT !.player = o] EXCEPT
                       !.at = IF o = None THEN Found(work[p]) ELSE "setUser"]]
    BY <1>1, <2>1, <2>2
  <2> QED BY <2>3
<1>6. WorkTypes'
  <2> HIDE DEF n
  <2> QED BY <1>4, <1>5, DataMoves DEF TInv
<1>7. ConnTypes' /\ HandTypes' /\ PlayerTypes' /\ LoadTypes'
  BY DEF dataFind, TInv, ConnTypes, HandTypes, PlayerTypes, LoadTypes, connVars, handVars
<1> QED BY <1>6, <1>7 DEF TInv

LEMMA DataGetRoomTyped ==
    ASSUME TInv, NEW c \in Conns, dataGetRoom(c)
    PROVE  TInv'
<1> DEFINE p == <<c, "handler">>
           n == [work[p] EXCEPT !.at = Found(work[p]), !.room = InRoom(work[p].player)]
<1>1. work[p] \in Work /\ work[p].arg \in Players /\ p \in Procs
  BY DataStagesOf, DataHolds DEF dataGetRoom
<1>2. Found(work[p]) \in DataStages /\ InRoom(work[p].player) \in BOOLEAN
  BY DataStagesOf DEF Found, InRoom
<1>3. n \in Work /\ n.at \in DataStages /\ n.arg \in Players
  <2> DEFINE f == Found(work[p])
             r == InRoom(work[p].player)
  <2> HIDE DEF f, r
  <2>1. [work[p] EXCEPT !.at = f, !.room = r] \in Work
        /\ [work[p] EXCEPT !.at = f, !.room = r].at = f
        /\ [work[p] EXCEPT !.at = f, !.room = r].arg = work[p].arg
    BY <1>1, <1>2 DEF Work, f, r
  <2> QED BY <1>1, <1>2, <2>1 DEF f, r
<1>4. work' = [work EXCEPT ![p] = n]
  <2>1. work \in [Procs -> Work]
    BY DEF TInv, WorkTypes
  <2>2. work' = [work EXCEPT ![p].at = Found(work[p]), ![p].room = InRoom(work[p].player)]
    BY DEF dataGetRoom
  <2> HIDE DEF p
  <2> QED BY <1>1, <2>1, <2>2
<1>5. WorkTypes'
  <2> HIDE DEF n
  <2> QED BY <1>3, <1>4, DataMoves DEF TInv
<1>6. ConnTypes' /\ HandTypes' /\ PlayerTypes' /\ LoadTypes'
  BY DEF dataGetRoom, TInv, ConnTypes, HandTypes, PlayerTypes, LoadTypes, connVars,
         handVars
<1> QED BY <1>5, <1>6 DEF TInv

LEMMA DataPossessTyped ==
    ASSUME TInv, NEW c \in Conns, dataPossess(c)
    PROVE  TInv'
<1> DEFINE p == <<c, "handler">>
           w == work[p]
           n == Possessing(w)
<1>1. w.at \in PossessStages /\ possess(c, w)
  BY Stages DEF dataPossess
<1>2. w \in Work /\ w.arg \in Players /\ p \in Procs
  BY <1>1, DataStagesOf, DataHolds
<1>3. n \in Work /\ n.arg \in Players
  BY <1>1, <1>2, PossessingTyped
<1>4. n.at \in DataStages
  BY <1>1, <1>2, PossessGoes, DataStagesOf
<1>5. work' = [work EXCEPT ![p] = n]
  BY DEF dataPossess
<1>6. WorkTypes'
  <2> HIDE DEF n
  <2> QED BY <1>3, <1>4, <1>5, DataMoves DEF TInv
<1>7. HandTypes'
  <2>1. w.player \in Objects \cup {None}
    BY <1>2 DEF Work
  <2> QED BY <2>1, <1>1, PossessTyped DEF TInv
<1>8. ConnTypes' /\ PlayerTypes' /\ LoadTypes'
  BY DEF dataPossess, TInv, ConnTypes, PlayerTypes, LoadTypes, connVars
<1> QED BY <1>6, <1>7, <1>8 DEF TInv

LEMMA DataReplyTyped ==
    ASSUME TInv, NEW c \in Conns, dataReply(c)
    PROVE  TInv'
<1> DEFINE p == <<c, "handler">>
           w == work[p]
           t == [conn |-> c, pid |-> w.arg, player |-> w.player, at |-> "load",
                 number |-> requests]
<1>1. w \in Work /\ w.arg \in Players /\ p \in Procs
  BY DataStagesOf, DataHolds DEF dataReply
<1>2. t \in Task
  BY <1>1 DEF Task, Work, TInv, PlayerTypes
<1>3. LoadTypes'
  BY <1>2 DEF dataReply, TInv, LoadTypes
<1>4. WorkTypes'
  BY <1>1, EndsTyped DEF dataReply, TInv
<1>5. ConnTypes' /\ HandTypes' /\ PlayerTypes'
  BY DEF dataReply, TInv, ConnTypes, HandTypes, PlayerTypes, connVars, handVars
<1> QED BY <1>3, <1>4, <1>5 DEF TInv

LEMMA LoadTyped ==
    ASSUME TInv, NEW t \in loads, load(t) \/ loadFail(t)
    PROVE  TInv'
<1>1. t \in Task
  BY DEF TInv, LoadTypes
<1>2. ASSUME NEW o \in Objects \cup {None}, NEW s \in PossessStages \cup UnPossessStages
      PROVE  /\ [t EXCEPT !.at = s] \in Task
             /\ [t EXCEPT !.at = s, !.player = o] \in Task
  BY <1>1 DEF Task
<1>3. loads' \subseteq Task /\ players' \in [Players -> Objects \cup {None}]
  <2>1. CASE load(t) /\ t.player # None
    BY <2>1, <1>2, DataStagesOf DEF load, TInv, LoadTypes, PlayerTypes
  <2>2. CASE load(t) /\ t.player = None
    <3>1. PICK o \in Objects :
             /\ register(t.pid, o)
             /\ loads' = (loads \ {t}) \cup {[t EXCEPT !.at = "setUser", !.player = o]}
      BY <2>2 DEF load
    <3>2. t.pid \in Players
      BY <1>1 DEF Task
    <3>3. [t EXCEPT !.at = "setUser", !.player = o] \in Task
      BY <1>2, DataStagesOf
    <3>4. players' \in [Players -> Objects \cup {None}]
      BY <3>1, <3>2 DEF register, TInv, PlayerTypes
    <3> QED BY <3>1, <3>3, <3>4 DEF TInv, LoadTypes
  <2>3. CASE loadFail(t)
    <3>1. [t EXCEPT !.at = "getPlayer"] \in Task /\ UNCHANGED players
      BY <2>3, <1>2, DataStagesOf DEF loadFail
    <3>2. loads' = (loads \ {t}) \cup {[t EXCEPT !.at = "getPlayer"]}
      BY <2>3 DEF loadFail
    <3> QED BY <3>1, <3>2 DEF TInv, LoadTypes, PlayerTypes
  <2> QED BY <2>1, <2>2, <2>3
<1>4. WorkTypes' /\ ConnTypes' /\ HandTypes' /\ PlayerTypes' /\ LoadTypes'
  BY <1>3 DEF load, loadFail, TInv, WorkTypes, HoldsIts, ConnTypes, HandTypes,
              PlayerTypes, LoadTypes, connVars, handVars
<1> QED BY <1>4 DEF TInv

LEMMA LoadHandsTyped ==
    ASSUME TInv, NEW t \in loads, loadPossess(t) \/ loadUnPossess(t)
    PROVE  TInv'
<1>1. t \in Task /\ t.conn \in Conns /\ t.player \in Objects \cup {None}
  BY DEF TInv, LoadTypes, Task
<1>2. loads' \subseteq Task /\ HandTypes'
  <2>1. CASE loadPossess(t)
    <3>1. t.at \in PossessStages
      BY <2>1, Stages DEF loadPossess
    <3> QED BY <2>1, <3>1, <1>1, PossessingTyped, PossessTyped DEF loadPossess, TInv,
               LoadTypes
  <2>2. CASE loadUnPossess(t)
    <3>1. t.at \in UnPossessStages
      BY <2>2, Stages DEF loadUnPossess
    <3> QED BY <2>2, <3>1, <1>1, UnPossessingTyped, UnPossessTyped DEF loadUnPossess,
               TInv, LoadTypes
  <2> QED BY <2>1, <2>2
<1>3. WorkTypes' /\ ConnTypes' /\ PlayerTypes'
  BY DEF loadPossess, loadUnPossess, TInv, WorkTypes, HoldsIts, ConnTypes,
         PlayerTypes, connVars
<1> QED BY <1>2, <1>3 DEF TInv, LoadTypes

LEMMA RoomTyped ==
    ASSUME TInv, NEW o \in Objects,
           \/ enterWorld(o) \/ closeExpired(o) \/ closeTimeout(o)
           \/ reconnectOld(o) \/ reconnectSaved(o) \/ finalize(o) \/ leaveRoom(o)
    PROVE  TInv'
<1>1. WorkTypes' /\ ConnTypes' /\ LoadTypes'
  BY DEF enterWorld, closeExpired, closeTimeout, reconnectOld, reconnectSaved, finalize,
         leaveRoom, TInv, WorkTypes, HoldsIts, ConnTypes, LoadTypes, connVars, handVars
<1>2. HandTypes'
  BY DEF enterWorld, closeExpired, closeTimeout, reconnectOld, reconnectSaved, finalize,
         leaveRoom, TInv, HandTypes, connVars, handVars
<1>3. PlayerTypes'
  BY DEF enterWorld, closeExpired, closeTimeout, reconnectOld, reconnectSaved, finalize,
         leaveRoom, TInv, PlayerTypes, connVars, handVars
<1> QED BY <1>1, <1>2, <1>3 DEF TInv

\* At first nobody is under way.
LEMMA InitTyped == Init => TInv
<1> SUFFICES ASSUME Init PROVE TInv
  OBVIOUS
<1>1. Resting \in Work /\ HoldsIts(Resting) /\ Resting.at = "idle"
  BY CloseStages DEF Work, Resting, HoldsIts, LoginStages, DataStages, PossessStages
<1>2. \A p \in Procs : work[p] = Resting
  BY DEF Init
<1>3. WorkTypes
  <2>1. \A c \in Conns : <<c, "handler">> \in Procs /\ <<c, "closed">> \in Procs
    BY DEF Procs
  <2> QED BY <1>1, <1>2, <2>1, CloseStages DEF Init, WorkTypes
<1>4. ConnTypes /\ HandTypes /\ PlayerTypes /\ LoadTypes
  BY DEF Init, ConnTypes, HandTypes, PlayerTypes, LoadTypes
<1> QED BY <1>3, <1>4 DEF TInv

\* A server tells a connection of UserManager to close.
LEMMA KeepAlives ==
    ASSUME TInv, keepAlive
    PROVE  \E c \in Conns : disconnect(c)
BY DEF keepAlive, checkKeepAlive, TInv, ConnTypes

LEMMA NextTyped ==
    ASSUME TInv, [Next]_vars
    PROVE  TInv'
<1>1. ASSUME NEW c \in Conns, accept(c) \/ disconnect(c) PROVE TInv'
  BY <1>1, SocketTyped DEF accept, disconnect
<1>2. CASE Client \/ keepAlive
  BY <1>1, <1>2, KeepAlives, LoginReqTyped, DataReqTyped DEF Client
<1>3. CASE Login
  BY <1>3, LoginInsertTyped, LoginSetIdTyped, OnClosedTyped DEF Login
<1>4. CASE Close
  BY <1>4, CloseTyped, CloseUnPossessTyped DEF Close
<1>5. CASE Data
  BY <1>5, DataGoesTyped, DataFindTyped, DataPossessTyped, DataGetRoomTyped,
     DataReplyTyped DEF Data
<1>6. CASE Load
  BY <1>6, LoadTyped, LoadHandsTyped DEF Load
<1>7. CASE Room
  BY <1>7, RoomTyped DEF Room
<1>8. CASE UNCHANGED vars
  BY <1>8 DEF vars, connVars, handVars, TInv, ConnTypes, HandTypes, PlayerTypes,
              WorkTypes, HoldsIts, LoadTypes
<1> QED BY <1>2, <1>3, <1>4, <1>5, <1>6, <1>7, <1>8 DEF Next

\* What each process holds at each of its steps.
THEOREM Types == Spec => []TInv
BY InitTyped, NextTyped, PTL DEF Spec

-----------------------------------------------------------------------------
(* Players.                                                                *)

\* w becomes n, or ends as n, and nobody else lets go of a player.
Follows(w, n) ==
    \A o \in Objects, S \in {ToStop, ToForget} :
        /\ At(o, S) /\ (w.player = o /\ w.at \in S => n.player = o /\ n.at \in S)
              => At(o, S)'
        /\ n.player = o /\ n.at \in S => At(o, S)'

\* A process that moves.
LEMMA WorkFollows ==
    ASSUME WorkTypes, NEW p \in Procs, NEW n, work' = [work EXCEPT ![p] = n],
           loads \subseteq loads'
    PROVE  Follows(work[p], n)
<1>1. work'[p] = n /\ \A q \in Procs : q # p => work'[q] = work[q]
  BY DEF WorkTypes
<1>2. \A h \in Hands : h = work[p] \/ h \in Hands'
  BY <1>1 DEF Hands
<1>3. n \in Hands'
  BY <1>1 DEF Hands
<1>4. \A o, S : At(o, S)' <=> \E h \in Hands' : h.player = o /\ h.at \in S
  BY DEF At
<1> QED BY <1>2, <1>3, <1>4 DEF Follows, At

\* A load that moves, or that ends at a stage of neither set.
LEMMA LoadFollows ==
    ASSUME NEW t \in loads, NEW n, UNCHANGED work,
           \/ loads' = (loads \ {t}) \cup {n}
           \/ loads' = (loads \ {t}) /\ n.at \notin ToStop \cup ToForget
    PROVE  Follows(t, n)
<1>1. \A h \in Hands : h = t \/ h \in Hands'
  BY DEF Hands
<1>2. n.at \in ToStop \cup ToForget => n \in Hands'
  BY DEF Hands
<1>3. \A o, S : At(o, S)' <=> \E h \in Hands' : h.player = o /\ h.at \in S
  BY DEF At
<1> QED BY <1>1, <1>2, <1>3 DEF Follows, At

\* A step that gives no owner, starts no timer and marks nobody closed, taken
\* by a process that is at no stage of the two sets.
LEMMA OtherKeeps ==
    ASSUME PInv, NEW w, NEW n, Follows(w, n), w.at \notin ToStop \cup ToForget,
           UNCHANGED <<timer, closedUser>>,
           \A o \in Objects : owner'[o] # None => owner[o] # None
    PROVE  PInv'
<1> SUFFICES ASSUME NEW o \in Objects, owner'[o] # None
             PROVE  /\ timer[o] => At(o, ToStop)'
                    /\ closedUser[o] # None => At(o, ToForget)'
  BY DEF PInv, At, ToStop, ToForget
<1> QED BY DEF PInv, Follows

LEMMA PossessKeeps ==
    ASSUME PInv, HandTypes, NEW c, NEW w, w \in Work \/ w \in Task, possess(c, w),
           Follows(w, Possessing(w))
    PROVE  PInv'
<1> DEFINE n == Possessing(w)
<1>1. w.at \in PossessStages
  BY Stages
<1>2. /\ n.player = w.player
      /\ w.at = "setUser" => n.at = "unlist"
      /\ w.at = "unlist" => n.at = IF closedUser[w.player] = None
                                   THEN "stopTimer" ELSE "forgetUser"
      /\ w.at = "forgetUser" => n.at = "stopTimer"
      /\ w.at = "stopTimer" => n.at = "setPlayer"
      /\ w.at = "setPlayer" => n.at = "possessed"
  <2>1. n = [w EXCEPT !.at = n.at]
    BY <1>1, PossessGoes
  <2>2. \A s : [w EXCEPT !.at = s].player = w.player
    BY DEF Work, Task
  <2>3. n.player = w.player
    BY <2>1, <2>2
  <2> QED BY <1>1, <2>3, PossessGoes
<1> HIDE DEF n
<1> SUFFICES ASSUME NEW o \in Objects, owner'[o] # None
             PROVE  /\ timer'[o] => At(o, ToStop)'
                    /\ closedUser'[o] # None => At(o, ToForget)'
  BY DEF PInv, At, ToStop, ToForget
<1>3. /\ At(o, ToStop) /\ (w.player = o /\ w.at \in ToStop => n.player = o /\ n.at \in ToStop)
            => At(o, ToStop)'
      /\ n.player = o /\ n.at \in ToStop => At(o, ToStop)'
      /\ At(o, ToForget)
            /\ (w.player = o /\ w.at \in ToForget => n.player = o /\ n.at \in ToForget)
            => At(o, ToForget)'
      /\ n.player = o /\ n.at \in ToForget => At(o, ToForget)'
  BY DEF Follows, n
<1>4. owner[o] # None => /\ timer[o] => At(o, ToStop)
                         /\ closedUser[o] # None => At(o, ToForget)
  BY DEF PInv
<1>5. CASE w.at = "setUser"
  BY <1>2, <1>3, <1>4, <1>5 DEF possess, HandTypes, ToStop, ToForget
<1>6. CASE w.at = "unlist"
  BY <1>2, <1>3, <1>4, <1>6 DEF possess, HandTypes, ToStop, ToForget
<1>7. CASE w.at = "forgetUser"
  BY <1>2, <1>3, <1>4, <1>7 DEF possess, HandTypes, ToStop, ToForget
<1>8. CASE w.at = "stopTimer"
  BY <1>2, <1>3, <1>4, <1>8 DEF possess, HandTypes, ToStop, ToForget
<1>9. CASE w.at = "setPlayer"
  BY <1>2, <1>3, <1>4, <1>9 DEF possess, HandTypes, ToStop, ToForget
<1> QED BY <1>1, <1>5, <1>6, <1>7, <1>8, <1>9 DEF PossessStages

LEMMA UnPossessKeeps ==
    ASSUME PInv, HandTypes, NEW c, NEW w, w \in Work \/ w \in Task, unPossess(c, w),
           Follows(w, UnPossessing(c, w))
    PROVE  PInv'
<1> DEFINE n == UnPossessing(c, w)
<1>1. w.at \in UnPossessStages
  BY Stages
<1>2. /\ w.at \notin {"getPlayer", "dropPlayer"} => n.player = w.player
      /\ w.at = "markClosed" => n.at = "list"
      /\ w.at = "list" => n.at = "startTimer"
      /\ w.at = "startTimer" => n.at = "dropUser"
  BY <1>1, UnPossessGoes
<1> HIDE DEF n
<1> SUFFICES ASSUME NEW o \in Objects, owner'[o] # None
             PROVE  /\ timer'[o] => At(o, ToStop)'
                    /\ closedUser'[o] # None => At(o, ToForget)'
  BY DEF PInv, At, ToStop, ToForget
<1>3. /\ At(o, ToStop) /\ (w.player = o /\ w.at \in ToStop => n.player = o /\ n.at \in ToStop)
            => At(o, ToStop)'
      /\ n.player = o /\ n.at \in ToStop => At(o, ToStop)'
      /\ At(o, ToForget)
            /\ (w.player = o /\ w.at \in ToForget => n.player = o /\ n.at \in ToForget)
            => At(o, ToForget)'
      /\ n.player = o /\ n.at \in ToForget => At(o, ToForget)'
  BY DEF Follows, n
<1>4. owner[o] # None => /\ timer[o] => At(o, ToStop)
                         /\ closedUser[o] # None => At(o, ToForget)
  BY DEF PInv
<1>5. CASE w.at = "getPlayer"
  BY <1>3, <1>4, <1>5 DEF unPossess, handVars, ToStop, ToForget
<1>6. CASE w.at = "markClosed"
  BY <1>2, <1>3, <1>4, <1>6 DEF unPossess, HandTypes, ToStop, ToForget
<1>7. CASE w.at = "list"
  <2>1. UNCHANGED <<owner, timer, closedUser>>
    BY <1>7 DEF unPossess
  <2> QED BY <2>1, <1>2, <1>3, <1>4, <1>7 DEF ToStop, ToForget
<1>8. CASE w.at = "startTimer"
  BY <1>2, <1>3, <1>4, <1>8 DEF unPossess, HandTypes, ToStop, ToForget
<1>9. CASE w.at = "dropUser"
  BY <1>2, <1>3, <1>4, <1>9 DEF unPossess, HandTypes, ToStop, ToForget
<1>10. CASE w.at = "dropPlayer"
  BY <1>3, <1>4, <1>10 DEF unPossess, ToStop, ToForget
<1> QED BY <1>1, <1>5, <1>6, <1>7, <1>8, <1>9, <1>10 DEF UnPossessStages, HoldStages

\* Any other step of a process.
LEMMA WorkKeeps ==
    ASSUME PInv, WorkTypes, NEW p \in Procs, NEW n, work' = [work EXCEPT ![p] = n],
           work[p].at \notin ToStop \cup ToForget, loads \subseteq loads',
           UNCHANGED <<timer, closedUser>>,
           \A o \in Objects : owner'[o] # None => owner[o] # None
    PROVE  PInv'
BY WorkFollows, OtherKeeps

LEMMA GotoKeeps ==
    ASSUME PInv, WorkTypes, NEW p \in Procs, (\E s : Goto(p, s)) \/ Done(p) \/ Closed(p),
           work[p].at \notin ToStop \cup ToForget, loads \subseteq loads',
           UNCHANGED <<timer, closedUser>>,
           \A o \in Objects : owner'[o] # None => owner[o] # None
    PROVE  PInv'
<1>1. \E n : work' = [work EXCEPT ![p] = n]
  BY DEF Goto, Done, Closed
<1> QED BY <1>1, WorkKeeps

\* No process moves.
LEMMA RestKeeps ==
    ASSUME PInv, UNCHANGED <<work, loads, owner, timer>>,
           \A o \in Objects : closedUser'[o] # None => closedUser[o] # None
    PROVE  PInv'
BY DEF PInv, At, Hands, ToStop, ToForget

LEMMA ConnPlayers ==
    ASSUME TInv, PInv, NEW c \in Conns,
           \/ accept(c) \/ disconnect(c)
           \/ \E a \in Accounts : loginReq(c, a)
           \/ \E pid \in Players : dataReq(c, pid)
           \/ loginInsert(c) \/ loginSetId(c) \/ onClosed(c)
    PROVE  PInv'
<1>1. <<c, "handler">> \in Procs /\ <<c, "closed">> \in Procs
  BY DEF Procs
<1>2. CASE accept(c) \/ disconnect(c)
  BY <1>2, RestKeeps DEF accept, disconnect, handVars
<1>3. CASE loginInsert(c) \/ loginSetId(c)
  BY <1>1, <1>3, GotoKeeps DEF loginInsert, loginSetId, handVars, TInv, ToStop, ToForget
<1>4. ASSUME NEW p \in Procs, CanStart(p), \A q \in Running : q[1] # p[1]
      PROVE  work[p].at \notin ToStop \cup ToForget
  BY <1>4 DEF Running, ToStop, ToForget
<1>5. CASE onClosed(c)
  <2>1. work[<<c, "closed">>].at \notin ToStop \cup ToForget
    BY <1>1, <1>4, <1>5 DEF onClosed, CanStart
  <2>2. \E n : work' = [work EXCEPT ![<<c, "closed">>] = n]
    BY <1>5 DEF onClosed
  <2> QED BY <1>1, <1>5, <2>1, <2>2, WorkKeeps DEF onClosed, handVars, TInv
<1>6. CASE (\E a \in Accounts : loginReq(c, a)) \/ (\E pid \in Players : dataReq(c, pid))
  <2>1. work[<<c, "handler">>].at \notin ToStop \cup ToForget
    BY <1>1, <1>4, <1>6 DEF loginReq, dataReq, CanStart
  <2>2. \E n : work' = [work EXCEPT ![<<c, "handler">>] = n]
    BY <1>6 DEF loginReq, dataReq
  <2>3. UNCHANGED <<owner, timer, closedUser, loads>>
    BY <1>6 DEF loginReq, dataReq, handVars
  <2> QED BY <1>1, <2>1, <2>2, <2>3, WorkKeeps DEF TInv
<1> QED BY <1>2, <1>3, <1>5, <1>6

LEMMA ClosePlayers ==
    ASSUME TInv, PInv, NEW p \in Procs,
           \/ closeCheck(p) \/ closeSetFlag(p) \/ closeUnPossess(p) \/ closeRemove(p)
           \/ closeSocket(p)
    PROVE  PInv'
<1>1. CASE closeUnPossess(p)
  <2>1. work[p] \in Work /\ unPossess(work[p].target, work[p])
    BY <1>1 DEF closeUnPossess, TInv, WorkTypes
  <2>2. Follows(work[p], UnPossessing(work[p].target, work[p]))
    BY <1>1, WorkFollows DEF closeUnPossess, TInv
  <2> QED BY <2>1, <2>2, UnPossessKeeps DEF TInv
<1>2. CASE closeCheck(p) \/ closeSetFlag(p) \/ closeRemove(p) \/ closeSocket(p)
  <2>1. work[p].at \notin ToStop \cup ToForget
    BY <1>2 DEF closeCheck, closeSetFlag, closeRemove, closeSocket, ToStop, ToForget
  <2>2. (\E s : Goto(p, s)) \/ Closed(p)
    BY <1>2 DEF closeCheck, closeSetFlag, closeRemove, closeSocket
  <2>3. UNCHANGED <<owner, timer, closedUser, loads>>
    BY <1>2 DEF closeCheck, closeSetFlag, closeRemove, closeSocket, handVars
  <2> QED BY <2>1, <2>2, <2>3, GotoKeeps DEF TInv
<1> QED BY <1>1, <1>2

LEMMA DataPlayers ==
    ASSUME TInv, PInv, NEW c \in Conns,
           \/ dataRemoveDead(c) \/ dataFind(c) \/ dataPossess(c) \/ dataGetRoom(c)
           \/ dataSwap(c) \/ dataSwapRoom(c) \/ dataReply(c)
    PROVE  PInv'
<1> DEFINE p == <<c, "handler">>
<1>1. p \in Procs
  BY DEF Procs
<1>2. CASE dataPossess(c)
  <2>1. work[p] \in Work /\ possess(c, work[p])
    BY <1>1, <1>2 DEF dataPossess, TInv, WorkTypes
  <2>2. Follows(work[p], Possessing(work[p]))
    BY <1>1, <1>2, WorkFollows DEF dataPossess, TInv
  <2> QED BY <2>1, <2>2, PossessKeeps DEF TInv
<1>3. CASE dataRemoveDead(c) \/ dataSwap(c) \/ dataSwapRoom(c) \/ dataReply(c)
  <2>1. work[p].at \notin ToStop \cup ToForget
    BY <1>3 DEF dataRemoveDead, dataSwap, dataSwapRoom, dataReply, ToStop, ToForget
  <2>2. (\E s : Goto(p, s)) \/ Done(p)
    BY <1>3 DEF dataRemoveDead, dataSwap, dataSwapRoom, dataReply
  <2>3. UNCHANGED <<timer, closedUser>> /\ loads \subseteq loads'
    BY <1>3 DEF dataRemoveDead, dataSwap, dataSwapRoom, dataReply, handVars
  <2>4. \A o \in Objects : owner'[o] # None => owner[o] # None
    BY <1>3 DEF dataRemoveDead, dataSwap, dataSwapRoom, dataReply, handVars, TInv,
                HandTypes
  <2> QED BY <1>1, <2>1, <2>2, <2>3, <2>4, GotoKeeps DEF TInv
<1>4. CASE dataFind(c) \/ dataGetRoom(c)
  <2>1. work[p].at \notin ToStop \cup ToForget
    BY <1>4 DEF dataFind, dataGetRoom, ToStop, ToForget
  <2>2. \E n : work' = [work EXCEPT ![p] = n]
    <3>1. work \in [Procs -> Work]
      BY DEF TInv, WorkTypes
    <3>2. (\E x, s : work' = [work EXCEPT ![p].player = x, ![p].at = s])
          \/ (\E x, s : work' = [work EXCEPT ![p].at = s, ![p].room = x])
      BY <1>4 DEF dataFind, dataGetRoom
    <3> HIDE DEF p
    <3>3. \A x, s : [work EXCEPT ![p].player = x, ![p].at = s]
                    = [work EXCEPT ![p] = [[work[p] EXCEPT !.player = x] EXCEPT !.at = s]]
      BY <1>1, <3>1
    <3>4. \A x, s : [work EXCEPT ![p].at = s, ![p].room = x]
                    = [work EXCEPT ![p] = [[work[p] EXCEPT !.at = s] EXCEPT !.room = x]]
      BY <1>1, <3>1
    <3> QED BY <3>2, <3>3, <3>4
  <2>3. UNCHANGED <<owner, timer, closedUser, loads>>
    BY <1>4 DEF dataFind, dataGetRoom, handVars
  <2> QED BY <1>1, <2>1, <2>2, <2>3, WorkKeeps DEF TInv
<1> QED BY <1>2, <1>3, <1>4

LEMMA LoadPlayers ==
    ASSUME TInv, PInv, NEW t \in loads,
           load(t) \/ loadPossess(t) \/ loadFail(t) \/ loadUnPossess(t)
    PROVE  PInv'
<1>1. t \in Task
  BY DEF TInv, LoadTypes
<1>2. CASE load(t) \/ loadFail(t)
  <2>1. PICK n : loads' = (loads \ {t}) \cup {n}
    BY <1>2 DEF load, loadFail
  <2>2. t.at \notin ToStop \cup ToForget /\ UNCHANGED <<work, owner, timer, closedUser>>
    BY <1>2 DEF load, loadFail, handVars, ToStop, ToForget
  <2>3. Follows(t, n)
    BY <2>1, <2>2, LoadFollows
  <2> QED BY <2>2, <2>3, OtherKeeps
<1>3. CASE loadPossess(t)
  <2> DEFINE n == Possessing(t)
  <2>1. loads' = (loads \ {t}) \cup {m \in {n} : m.at # "possessed"}
        /\ UNCHANGED work /\ possess(t.conn, t)
    BY <1>3 DEF loadPossess
  <2> HIDE DEF n
  <2>2. \/ loads' = (loads \ {t}) \cup {n}
        \/ loads' = (loads \ {t}) /\ n.at \notin ToStop \cup ToForget
    BY <2>1 DEF ToStop, ToForget
  <2>3. Follows(t, n)
    BY <2>1, <2>2, LoadFollows
  <2> QED BY <1>1, <2>1, <2>3, PossessKeeps DEF TInv, n
<1>4. CASE loadUnPossess(t)
  <2> DEFINE n == UnPossessing(t.conn, t)
  <2>1. loads' = (loads \ {t}) \cup {m \in {n} : m.at # "unPossessed"}
        /\ UNCHANGED work /\ unPossess(t.conn, t)
    BY <1>4 DEF loadUnPossess
  <2> HIDE DEF n
  <2>2. \/ loads' = (loads \ {t}) \cup {n}
        \/ loads' = (loads \ {t}) /\ n.at \notin ToStop \cup ToForget
    BY <2>1 DEF ToStop, ToForget
  <2>3. Follows(t, n)
    BY <2>1, <2>2, LoadFollows
  <2> QED BY <1>1, <2>1, <2>3, UnPossessKeeps DEF TInv, n
<1> QED BY <1>2, <1>3, <1>4

LEMMA RoomPlayers ==
    ASSUME TInv, PInv, NEW o \in Objects,
           \/ enterWorld(o) \/ closeExpired(o) \/ closeTimeout(o)
           \/ reconnectOld(o) \/ reconnectSaved(o) \/ finalize(o) \/ leaveRoom(o)
    PROVE  PInv'
<1>1. UNCHANGED <<work, loads, owner, timer>>
  BY DEF enterWorld, closeExpired, closeTimeout, reconnectOld, reconnectSaved, finalize,
         leaveRoom, handVars
<1>2. \A x \in Objects : closedUser'[x] # None => closedUser[x] # None
  BY DEF enterWorld, closeExpired, closeTimeout, reconnectOld, reconnectSaved, finalize,
         leaveRoom, handVars, TInv, HandTypes
<1> QED BY <1>1, <1>2, RestKeeps

LEMMA NextPlayers ==
    ASSUME TInv, PInv, [Next]_vars
    PROVE  PInv'
<1>1. CASE Client \/ keepAlive \/ Login
  BY <1>1, KeepAlives, ConnPlayers DEF Client, Login
<1>2. CASE Close \/ Data \/ Load \/ Room
  BY <1>2, ClosePlayers, DataPlayers, LoadPlayers, RoomPlayers
     DEF Close, Data, Load, Room
<1>3. CASE UNCHANGED vars
  BY <1>3, RestKeeps DEF vars, handVars
<1> QED BY <1>1, <1>2, <1>3 DEF Next

\* PInv for an owned player with nobody at a stage of possess or unPossess.
LEMMA PInvPlayed == TInv /\ PInv => PlayedIsNotTimed
<1> SUFFICES ASSUME TInv, PInv, NEW o \in Objects, owner[o] # None, ~Changing(o)
             PROVE  ~timer[o] /\ closedUser[o] = None
  BY DEF PlayedIsNotTimed
<1>1. ToStop \cup ToForget \subseteq DOMAIN PossessOrder \cup DOMAIN UnPossessOrder
  BY Stages DEF ToStop, ToForget, PossessStages, UnPossessStages, HoldStages
<1>2. ~At(o, ToStop) /\ ~At(o, ToForget)
  BY <1>1 DEF At, Hands, Changing, Changes
<1> QED BY <1>2 DEF PInv

\* A player with an owner is neither timed nor marked closed once the
\* possession of it has run its course, whatever handler, database task, close
\* or room thread ran beside it (User::possess, User::unPossess,
\* CloseComponent).
THEOREM PlayedStays == Spec => []PlayedIsNotTimed
<1>1. Init => TInv /\ PInv
  BY InitTyped DEF Init, PInv
<1>2. TInv /\ PInv /\ [Next]_vars => TInv' /\ PInv'
  BY NextTyped, NextPlayers
<1> QED BY <1>1, <1>2, PInvPlayed, PTL DEF Spec

-----------------------------------------------------------------------------
(* UserManager.                                                            *)

\* What p's step does to the processes.
LEMMA Moved ==
    ASSUME WorkTypes, NEW p \in Procs, NEW n, work' = [work EXCEPT ![p] = n]
    PROVE  work'[p] = n /\ \A q \in Procs : q # p => work'[q] = work[q]
BY DEF WorkTypes

\* The two processes of a connection.
LEMMA TwoProcs ==
    /\ \A c \in Conns : <<c, "handler">> \in Procs /\ <<c, "closed">> \in Procs
    /\ \A p \in Procs : \E c \in Conns : p = <<c, "handler">> \/ p = <<c, "closed">>
    /\ \A c, d : <<c, "handler">> # <<d, "closed">>
    /\ \A c, d : <<c, "handler">> = <<d, "handler">> => c = d
BY DEF Procs

\* How the stages relate, with "idle" in none.
LEMMA LoginStagesOf ==
    /\ PastFlag \subseteq Closing /\ Closing \subseteq LoginStages
    /\ {"closeSocket", "insert", "setId"} \subseteq LoginStages \ Closing
    /\ {"flag", "setFlag"} \subseteq Closing \ PastFlag
    /\ {"getPlayer", "unPossessed"} \subseteq PastFlag
    /\ "idle" \notin LoginStages
BY DEF LoginStages, Closing, PastFlag, UnPossessStages, HoldStages

\* The flags after a step of p to n.
LEMMA FlagsNext ==
    ASSUME RInv, NEW p \in Procs, NEW n, work'[p] = n,
           \A q \in Procs : q # p => work'[q] = work[q],
           \A c \in Conns : Known(c) => Known(c)',
           \A c \in Conns : processed[c] => processed'[c],
           \A c \in Conns : n.target = c =>
               /\ n.at \in Closing => Known(c)'
               /\ n.at \in PastFlag => processed'[c],
           \A c \in Conns : processed'[c] => processed[c] \/ Known(c)'
    PROVE  FlagOK'
<1>1. ASSUME NEW q \in Procs, NEW c \in Conns, work'[q].target = c
      PROVE  /\ work'[q].at \in Closing => Known(c)'
             /\ work'[q].at \in PastFlag => processed'[c]
  <2>1. CASE q = p
    BY <1>1, <2>1
  <2>2. CASE q # p
    BY <1>1, <2>2 DEF RInv, FlagOK
  <2> QED BY <2>1, <2>2
<1>2. \A c \in Conns : processed'[c] => Known(c)'
  BY DEF RInv, FlagOK
<1> QED BY <1>1, <1>2 DEF FlagOK

\* A step that neither logs in nor closes, or is part of the same close.
LEMMA Neutral ==
    ASSUME TInv, RInv, NEW p \in Procs, NEW n, work' = [work EXCEPT ![p] = n],
           UNCHANGED <<socket, userId, processed, users, robbed, unnamed>>,
           \/ work[p].at \notin LoginStages /\ n.at \notin LoginStages
           \/ /\ work[p].at \in PastFlag /\ n.at \in PastFlag
              /\ n.target = work[p].target
    PROVE  RInv'
<1>1. work'[p] = n /\ \A q \in Procs : q # p => work'[q] = work[q]
  BY Moved DEF TInv
<1>2. \A c \in Conns : work[<<c, "handler">>].at = "setId"
                          \/ work'[<<c, "handler">>].at = "setId" =>
                          work'[<<c, "handler">>] = work[<<c, "handler">>]
  BY <1>1, LoginStagesOf, TwoProcs
<1>3. \A c \in Conns : Known(c)' <=> Known(c)
  BY <1>2 DEF Known
<1>4. \A q \in Procs : /\ work'[q].at \in PastFlag <=> work[q].at \in PastFlag
                       /\ work'[q].at \in PastFlag => work'[q].target = work[q].target
  BY <1>1, LoginStagesOf
<1>5. \A c \in Conns : TearDown(c)' <=> TearDown(c)
  BY <1>4 DEF TearDown
<1>6. \A c \in Conns, a \in Accounts : Entering(c, a)' <=> Entering(c, a)
  BY <1>2 DEF Entering
<1>7. LoginOK'
  <2>1. \A c \in Conns : work'[<<c, "handler">>].at \in LoginStages <=>
                            work[<<c, "handler">>].at \in LoginStages
    BY <1>1, LoginStagesOf, TwoProcs
  <2> QED BY <2>1, <1>2, <1>6 DEF RInv, LoginOK
<1>8. FlagOK'
  <2>1. ASSUME NEW c \in Conns, n.target = c
        PROVE  /\ n.at \in Closing => Known(c)'
               /\ n.at \in PastFlag => processed'[c]
    BY <2>1, <1>3, LoginStagesOf DEF RInv, FlagOK
  <2> QED BY <2>1, <1>1, <1>3, FlagsNext
<1>9. Registry'
  BY <1>5, <1>6 DEF RInv, Registry
<1> QED BY <1>7, <1>8, <1>9 DEF RInv

\* Nobody moves.
LEMMA Still ==
    ASSUME RInv, UNCHANGED <<work, userId, processed, users, robbed, unnamed>>,
           \A c \in Conns : socket'[c] = "closed" <=> socket[c] = "closed"
    PROVE  RInv'
<1>1. \A c \in Conns : Known(c)' <=> Known(c)
  BY DEF Known
<1>2. LoginOK'
  BY DEF RInv, LoginOK, Entering
<1>3. FlagOK'
  BY <1>1 DEF RInv, FlagOK
<1>4. \A c \in Conns, a \in Accounts : TearDown(c)' = TearDown(c) /\ Entering(c, a)' = Entering(c, a)
  BY DEF TearDown, Entering
<1>5. Registry'
  BY <1>4 DEF RInv, Registry
<1> QED BY <1>2, <1>3, <1>5 DEF RInv

LEMMA LoginReqRegistry ==
    ASSUME SessionAssumption, TInv, RInv, NEW c \in Conns, NEW a \in Accounts, loginReq(c, a)
    PROVE  RInv'
<1> DEFINE p == <<c, "handler">>
           n == [Resting EXCEPT !.at = IF users[a] = None THEN "insert" ELSE "flag",
                                !.target = users[a], !.arg = a]
<1>1. /\ n.at = IF users[a] = None THEN "insert" ELSE "flag"
      /\ n.target = users[a] /\ n.arg = a
  BY DEF Resting
<1>2. /\ work' = [work EXCEPT ![p] = n] /\ p \in Procs
      /\ UNCHANGED <<socket, userId, processed, users, robbed, unnamed>>
      /\ userId[c] = None /\ socket[c] = "open"
  BY DEF loginReq, connVars, histVars, Procs
<1>3. \A q \in Procs : q[1] = c => work[q].at = "idle"
  BY DEF loginReq, CanStart, Running
<1>4. work[p].at = "idle"
  BY <1>2, <1>3
<1> HIDE DEF n
<1>5. work'[p] = n /\ \A q \in Procs : q # p => work'[q] = work[q]
  BY <1>2, Moved DEF TInv
<1>6. \A d \in Conns : d # c => work'[<<d, "handler">>] = work[<<d, "handler">>]
  BY <1>5, TwoProcs
<1>7. \A d \in Conns : Known(d)' <=> Known(d)
  BY <1>1, <1>2, <1>4, <1>5, <1>6 DEF Known
<1>8. ~Known(c) /\ ~processed[c]
  BY <1>2, <1>4 DEF Known, RInv, FlagOK
<1>9. \A d \in Conns, b \in Accounts : Entering(d, b)' <=> Entering(d, b)
  BY <1>1, <1>2, <1>4, <1>5, <1>6 DEF Entering
<1>10. LoginOK'
  BY <1>1, <1>2, <1>5, <1>6, <1>8, <1>9 DEF RInv, LoginOK
<1>11. FlagOK'
  <2>1. ASSUME NEW d \in Conns, users[a] = d
        PROVE  Known(d)
    BY <2>1, SessionAssumption DEF RInv, Registry, Known, Entering
  <2>2. \A d \in Conns : n.target = d => Known(d)'
    BY <2>1, <1>1, <1>7
  <2>3. n.at \notin PastFlag
    BY <1>1, LoginStagesOf
  <2> QED BY <1>2, <1>5, <1>7, <2>2, <2>3, FlagsNext
<1>12. Registry'
  <2>1. \A d \in Conns : TearDown(d)' <=> TearDown(d)
    BY <1>1, <1>4, <1>5, LoginStagesOf DEF TearDown
  <2> QED BY <1>2, <2>1, <1>9 DEF RInv, Registry
<1> QED BY <1>10, <1>11, <1>12 DEF RInv

LEMMA LoginInsertRegistry ==
    ASSUME SessionAssumption, TInv, RInv, NEW c \in Conns, loginInsert(c)
    PROVE  RInv'
<1> DEFINE p == <<c, "handler">>
           a == work[p].arg
           n == work'[p]
<1>1. /\ work[p].at = "insert" /\ p \in Procs
      /\ UNCHANGED <<socket, userId, processed, robbed, unnamed>>
  BY DEF loginInsert, connVars, histVars, Procs
<1>2. a \in Accounts
  BY <1>1 DEF TInv, WorkTypes, HoldsIts
<1>3. /\ work' = [work EXCEPT ![p] = n]
      /\ \/ users[a] = None /\ users' = [users EXCEPT ![a] = c] /\ n.at = "setId" /\ n.arg = a
         \/ users' = users /\ n.at = "idle"
  <2>1. CASE users[a] = None
    <3>1. Goto(p, "setId") /\ users' = [users EXCEPT ![a] = c]
      BY <2>1 DEF loginInsert
    <3> QED BY <3>1, <2>1, <1>1, Goes, LoginStagesOf DEF TInv
  <2>2. CASE users[a] # None
    BY <2>2, <1>1, Ends DEF loginInsert, TInv
  <2> QED BY <2>1, <2>2
<1>4. userId[c] = None /\ ~processed[c] /\ socket[c] # "closed"
  BY <1>1, LoginStagesOf DEF RInv, LoginOK
<1> HIDE DEF n
<1>5. work'[p] = n /\ \A q \in Procs : q # p => work'[q] = work[q]
  BY <1>1, <1>3, Moved DEF TInv
<1>6. \A d \in Conns : d # c => work'[<<d, "handler">>] = work[<<d, "handler">>]
  BY <1>5, TwoProcs
<1>7. \A d \in Conns : Known(d) => Known(d)'
  BY <1>1, <1>6 DEF Known
<1>8. \A b \in Accounts, d \in Conns :
         /\ users[b] = d => users'[b] = d
         /\ users'[b] = d => users[b] = d \/ (b = a /\ d = c /\ n.at = "setId" /\ n.arg = a)
  BY <1>2, <1>3, SessionAssumption DEF TInv, ConnTypes
<1>9. \A d \in Conns, b \in Accounts :
         /\ Entering(d, b) => Entering(d, b)'
         /\ Entering(d, b)' => Entering(d, b) \/ (d = c /\ b = a /\ users'[a] = c)
  <2>1. ~Entering(c, a) /\ \A b \in Accounts : ~Entering(c, b)
    BY <1>1 DEF Entering
  <2>2. \A b \in Accounts : Entering(c, b)' => b = a /\ users'[a] = c
    BY <1>2, <1>3, <1>5 DEF Entering, TInv, ConnTypes
  <2>3. \A d \in Conns, b \in Accounts : d # c => (Entering(d, b)' <=> Entering(d, b))
    BY <1>6 DEF Entering
  <2> QED BY <2>1, <2>2, <2>3
<1>10. LoginOK'
  <2>1. ASSUME NEW d \in Conns, NEW b \in Accounts, Entering(d, b)'
        PROVE  users'[b] = d \/ d \in robbed'
    BY <2>1, <1>1, <1>8, <1>9 DEF RInv, LoginOK
  <2>2. ASSUME NEW d \in Conns, d # c
        PROVE  /\ work'[<<d, "handler">>].at \in LoginStages => userId'[d] = None
               /\ work'[<<d, "handler">>].at \in LoginStages \ {"setId"} =>
                      ~processed'[d] /\ socket'[d] # "closed"
    BY <2>2, <1>1, <1>6 DEF RInv, LoginOK
  <2>3. /\ userId'[c] = None
        /\ work'[<<c, "handler">>].at \notin LoginStages \ {"setId"}
    BY <1>1, <1>3, <1>4, <1>5, LoginStagesOf
  <2> QED BY <2>1, <2>2, <2>3 DEF LoginOK
<1>11. FlagOK'
  <2>1. n.at \notin Closing /\ n.at \notin PastFlag
    BY <1>3, LoginStagesOf
  <2> QED BY <2>1, <1>1, <1>5, <1>7, FlagsNext
<1>12. Registry'
  <2>1. \A d \in Conns : TearDown(d)' <=> TearDown(d)
    BY <1>1, <1>3, <1>5, LoginStagesOf DEF TearDown
  <2>2. \A b \in Accounts : n.at = "setId" /\ n.arg = b => Entering(c, b)'
    BY <1>5 DEF Entering
  <2>3. ASSUME NEW b \in Accounts, NEW d \in Conns
        PROVE  /\ users'[b] = d => userId[d] = b \/ Entering(d, b)'
               /\ users'[b] = d /\ processed[d] => d \in unnamed \/ TearDown(d)
               /\ userId[d] = b /\ ~processed[d] => users'[b] = d \/ d \in robbed
    <3>1. /\ users[b] = d => userId[d] = b \/ Entering(d, b)
          /\ users[b] = d /\ processed[d] => d \in unnamed \/ TearDown(d)
          /\ userId[d] = b /\ ~processed[d] => users[b] = d \/ d \in robbed
      BY DEF RInv, Registry
    <3>2. ASSUME users'[b] = d PROVE userId[d] = b \/ Entering(d, b)'
      <4>1. users[b] = d \/ (b = a /\ d = c /\ n.at = "setId" /\ n.arg = a)
        BY <3>2, <1>8
      <4> QED BY <4>1, <3>1, <1>9, <2>2
    <3>3. ASSUME users'[b] = d, processed[d] PROVE d \in unnamed \/ TearDown(d)
      <4>1. d # c
        BY <3>3, <1>4
      <4>2. users[b] = d
        BY <3>3, <4>1, <1>8
      <4> QED BY <3>1, <3>3, <4>2
    <3>4. ASSUME userId[d] = b, ~processed[d] PROVE users'[b] = d \/ d \in robbed
      <4>1. users[b] = d \/ d \in robbed
        BY <3>1, <3>4
      <4>2. users[b] = d => users'[b] = d
        BY <1>8
      <4> QED BY <4>1, <4>2
    <3> QED BY <3>2, <3>3, <3>4
  <2> QED BY <1>1, <2>1, <2>3 DEF Registry
<1> QED BY <1>10, <1>11, <1>12 DEF RInv

LEMMA LoginSetIdRegistry ==
    ASSUME SessionAssumption, TInv, RInv, NEW c \in Conns, loginSetId(c)
    PROVE  RInv'
<1> DEFINE p == <<c, "handler">>
           a == work[p].arg
<1>1. /\ work[p].at = "setId" /\ p \in Procs /\ Done(p)
      /\ userId' = [userId EXCEPT ![c] = a]
      /\ UNCHANGED <<socket, processed, users, robbed, unnamed>>
  BY DEF loginSetId, histVars, Procs
<1>2. a \in Accounts /\ a # None /\ Entering(c, a)
  BY <1>1, SessionAssumption DEF TInv, WorkTypes, HoldsIts, Entering
<1>3. userId'[c] = a /\ \A d \in Conns : d # c => userId'[d] = userId[d]
  BY <1>1 DEF TInv, ConnTypes
<1>4. /\ work' = [work EXCEPT ![p] = Resting] /\ Resting.at = "idle"
  BY <1>1, Ends DEF TInv
<1>5. work'[p] = Resting /\ \A q \in Procs : q # p => work'[q] = work[q]
  BY <1>1, <1>4, Moved DEF TInv
<1>6. \A d \in Conns : d # c => work'[<<d, "handler">>] = work[<<d, "handler">>]
  BY <1>5, TwoProcs
<1>7. \A d \in Conns : Known(d) => Known(d)'
  BY <1>1, <1>2, <1>3, <1>6 DEF Known
<1>8. userId[c] = None /\ (users[a] = c \/ c \in robbed)
  BY <1>1, <1>2, LoginStagesOf DEF RInv, LoginOK
<1>9. \A d \in Conns, b \in Accounts :
         Entering(d, b)' <=> Entering(d, b) /\ d # c
  BY <1>4, <1>5, <1>6 DEF Entering
<1>10. LoginOK'
  <2>1. ASSUME NEW d \in Conns, d # c
        PROVE  /\ work'[<<d, "handler">>].at \in LoginStages => userId'[d] = None
               /\ work'[<<d, "handler">>].at \in LoginStages \ {"setId"} =>
                      ~processed'[d] /\ socket'[d] # "closed"
               /\ \A b \in Accounts : Entering(d, b)' => users'[b] = d \/ d \in robbed'
    BY <2>1, <1>1, <1>3, <1>6, <1>9 DEF RInv, LoginOK
  <2>2. /\ work'[<<c, "handler">>].at \notin LoginStages
        /\ \A b \in Accounts : ~Entering(c, b)'
    BY <1>4, <1>5, <1>9, LoginStagesOf
  <2> QED BY <2>1, <2>2 DEF LoginOK
<1>11. FlagOK'
  <2>1. Resting.at \notin Closing /\ Resting.at \notin PastFlag
    BY <1>4, LoginStagesOf
  <2> QED BY <2>1, <1>1, <1>5, <1>7, FlagsNext
<1>12. Registry'
  <2>1. \A d \in Conns : TearDown(d)' <=> TearDown(d)
    BY <1>1, <1>4, <1>5, LoginStagesOf DEF TearDown
  <2>2. ASSUME NEW b \in Accounts, NEW d \in Conns
        PROVE  /\ users[b] = d => userId'[d] = b \/ Entering(d, b)'
               /\ users[b] = d /\ processed[d] => d \in unnamed \/ TearDown(d)
               /\ userId'[d] = b /\ ~processed[d] => users[b] = d \/ d \in robbed
    <3>1. CASE d = c
      <4>1. users[b] = c => a = b
        BY <1>2, <1>8, SessionAssumption DEF RInv, Registry, Entering
      <4> QED BY <3>1, <4>1, <1>3, <1>8 DEF RInv, Registry
    <3>2. CASE d # c
      BY <3>2, <1>3, <1>9 DEF RInv, Registry
    <3> QED BY <3>1, <3>2
  <2> QED BY <1>1, <2>1, <2>2 DEF Registry
<1> QED BY <1>10, <1>11, <1>12 DEF RInv

LEMMA OnClosedRegistry ==
    ASSUME TInv, RInv, NEW c \in Conns, onClosed(c)
    PROVE  RInv'
<1> DEFINE p == <<c, "closed">>
           n == [Resting EXCEPT !.at = "flag", !.target = c]
<1>1. n.at = "flag" /\ n.target = c
  BY DEF Resting
<1>2. /\ work' = [work EXCEPT ![p] = n] /\ p \in Procs
      /\ UNCHANGED <<userId, processed, users, robbed, unnamed>>
      /\ socket' = [socket EXCEPT ![c] = "closed"]
  BY DEF onClosed, handVars, histVars, Procs
<1>3. \A q \in Procs : q[1] = c => work[q].at = "idle"
  BY DEF onClosed, CanStart, Running
<1>4. work[p].at = "idle" /\ work[<<c, "handler">>].at = "idle"
  BY <1>2, <1>3, TwoProcs
<1> HIDE DEF n
<1>5. work'[p] = n /\ \A q \in Procs : q # p => work'[q] = work[q]
  BY <1>2, Moved DEF TInv
<1>6. \A d \in Conns : work'[<<d, "handler">>] = work[<<d, "handler">>]
  BY <1>5, TwoProcs
<1>7. socket'[c] = "closed" /\ \A d \in Conns : d # c => socket'[d] = socket[d]
  BY <1>2 DEF TInv, ConnTypes
<1>8. \A d \in Conns : Known(d) => Known(d)'
  BY <1>2, <1>6, <1>7 DEF Known
<1>9. \A d \in Conns, b \in Accounts : Entering(d, b)' <=> Entering(d, b)
  BY <1>2, <1>6 DEF Entering
<1>10. LoginOK'
  BY <1>2, <1>4, <1>6, <1>7, <1>9, LoginStagesOf DEF RInv, LoginOK
<1>11. FlagOK'
  <2>1. Known(c)' /\ n.at \notin PastFlag
    BY <1>1, <1>7, LoginStagesOf DEF Known
  <2> QED BY <2>1, <1>1, <1>2, <1>5, <1>8, FlagsNext
<1>12. Registry'
  <2>1. \A d \in Conns : TearDown(d)' <=> TearDown(d)
    BY <1>1, <1>4, <1>5, LoginStagesOf DEF TearDown
  <2> QED BY <1>2, <1>9, <2>1 DEF RInv, Registry
<1> QED BY <1>10, <1>11, <1>12 DEF RInv

\* A step of a close, or of the login that runs one, towards its insert.
LEMMA CloserMoves ==
    ASSUME RInv, NEW p \in Procs, NEW n, work'[p] = n,
           \A q \in Procs : q # p => work'[q] = work[q],
           work[p].at \in LoginStages \ {"setId"}, n.at # "setId",
           UNCHANGED userId,
           \A c \in Conns : socket'[c] = "closed" <=> socket[c] = "closed"
    PROVE  /\ \A c \in Conns : Known(c)' <=> Known(c)
           /\ \A c \in Conns, a \in Accounts : Entering(c, a)' <=> Entering(c, a)
           /\ \A c \in Conns : work'[<<c, "handler">>].at \in LoginStages \ {"setId"}
                                  => work[<<c, "handler">>].at \in LoginStages \ {"setId"}
           /\ \A c \in Conns : work'[<<c, "handler">>].at \in LoginStages
                                  => work[<<c, "handler">>].at \in LoginStages
<1>1. ASSUME NEW c \in Conns
      PROVE  \/ work'[<<c, "handler">>] = work[<<c, "handler">>]
             \/ /\ work[<<c, "handler">>].at \in LoginStages \ {"setId"}
                /\ work'[<<c, "handler">>].at # "setId"
  BY TwoProcs
<1>2. \A c \in Conns : Known(c)' <=> Known(c)
  BY <1>1 DEF Known
<1>3. \A c \in Conns, a \in Accounts : Entering(c, a)' <=> Entering(c, a)
  BY <1>1 DEF Entering
<1> QED BY <1>1, <1>2, <1>3

\* How the steps of a close move it.
LEMMA CloserSteps ==
    ASSUME WorkTypes, NEW p \in Procs, work[p].at \in LoginStages
    PROVE  /\ \A s \in LoginStages : Goto(p, s) =>
                 /\ work'[p].at = s /\ work'[p].target = work[p].target
                 /\ \A q \in Procs : q # p => work'[q] = work[q]
           /\ Closed(p) =>
                 /\ work'[p].at \in {"idle", "closeSocket"}
                 /\ \A q \in Procs : q # p => work'[q] = work[q]
<1>1. ASSUME NEW s \in LoginStages, Goto(p, s)
      PROVE  /\ work'[p].at = s /\ work'[p].target = work[p].target
             /\ \A q \in Procs : q # p => work'[q] = work[q]
  <2>1. /\ work' = [work EXCEPT ![p] = work'[p]]
        /\ work'[p].at = s /\ work'[p].target = work[p].target
    BY <1>1, Goes
  <2>2. \A q \in Procs : q # p => work'[q] = work[q]
    BY <2>1 DEF WorkTypes
  <2> QED BY <2>1, <2>2
<1>2. ASSUME Closed(p)
      PROVE  /\ work'[p].at \in {"idle", "closeSocket"}
             /\ \A q \in Procs : q # p => work'[q] = work[q]
  <2>1. CASE p[2] = "handler"
    BY <2>1, <1>1, <1>2, LoginStagesOf DEF Closed
  <2>2. CASE p[2] # "handler"
    BY <2>2, <1>2, Ends, Moved DEF Closed
  <2> QED BY <2>1, <2>2
<1> QED BY <1>1, <1>2

LEMMA CloseCheckRegistry ==
    ASSUME TInv, RInv, NEW p \in Procs, closeCheck(p)
    PROVE  RInv'
<1>1. /\ work[p].at = "flag" /\ work[p].at \in LoginStages \ {"setId"}
      /\ Closed(p) \/ Goto(p, "setFlag")
      /\ UNCHANGED <<socket, userId, processed, users, robbed, unnamed>>
  BY LoginStagesOf DEF closeCheck, connVars, histVars
<1>2. /\ \A q \in Procs : q # p => work'[q] = work[q]
      /\ work'[p].at \in {"idle", "closeSocket", "setFlag"}
      /\ work'[p].at = "setFlag" => work'[p].target = work[p].target
  BY <1>1, CloserSteps, LoginStagesOf DEF TInv
<1>3. /\ \A c \in Conns : Known(c)' <=> Known(c)
      /\ \A c \in Conns, a \in Accounts : Entering(c, a)' <=> Entering(c, a)
      /\ \A c \in Conns : work'[<<c, "handler">>].at \in LoginStages \ {"setId"}
                             => work[<<c, "handler">>].at \in LoginStages \ {"setId"}
      /\ \A c \in Conns : work'[<<c, "handler">>].at \in LoginStages
                             => work[<<c, "handler">>].at \in LoginStages
  BY <1>1, <1>2, CloserMoves
<1>4. LoginOK'
  BY <1>1, <1>3 DEF RInv, LoginOK
<1>5. FlagOK'
  <2>1. \A c \in Conns : work[p].target = c => Known(c)
    BY <1>1, LoginStagesOf DEF RInv, FlagOK
  <2>2. \A c \in Conns : work'[p].target = c =>
            /\ work'[p].at \in Closing => Known(c)'
            /\ work'[p].at \notin PastFlag
    BY <1>2, <1>3, <2>1, LoginStagesOf
  <2> QED BY <1>1, <1>2, <1>3, <2>2, FlagsNext
<1>6. Registry'
  <2>1. work'[p].at \notin PastFlag /\ work[p].at \notin PastFlag
    BY <1>1, <1>2, LoginStagesOf
  <2>2. \A c \in Conns : TearDown(c)' <=> TearDown(c)
    BY <2>1, <1>2 DEF TearDown
  <2> QED BY <1>1, <1>3, <2>2 DEF RInv, Registry
<1> QED BY <1>4, <1>5, <1>6 DEF RInv

LEMMA CloseSetFlagRegistry ==
    ASSUME TInv, RInv, NEW p \in Procs, closeSetFlag(p)
    PROVE  RInv'
<1> DEFINE t == work[p].target
<1>1. /\ work[p].at = "setFlag" /\ work[p].at \in LoginStages \ {"setId"}
      /\ Goto(p, "getPlayer") /\ processed' = [processed EXCEPT ![t] = TRUE]
      /\ UNCHANGED <<socket, userId, users, robbed, unnamed>>
  BY LoginStagesOf DEF closeSetFlag, histVars
<1>2. /\ \A q \in Procs : q # p => work'[q] = work[q]
      /\ work'[p].at = "getPlayer" /\ work'[p].target = t
      /\ t \in Conns
  BY <1>1, CloserSteps, Closers, LoginStagesOf DEF TInv
<1>3. /\ \A c \in Conns : Known(c)' <=> Known(c)
      /\ \A c \in Conns, a \in Accounts : Entering(c, a)' <=> Entering(c, a)
      /\ \A c \in Conns : work'[<<c, "handler">>].at \in LoginStages \ {"setId"}
                             => work[<<c, "handler">>].at \in LoginStages \ {"setId"}
      /\ \A c \in Conns : work'[<<c, "handler">>].at \in LoginStages
                             => work[<<c, "handler">>].at \in LoginStages
  BY <1>1, <1>2, CloserMoves
<1>4. processed'[t] /\ \A c \in Conns : c # t => processed'[c] = processed[c]
  BY <1>1, <1>2 DEF TInv, ConnTypes
<1>5. Known(t)
  BY <1>1, <1>2, LoginStagesOf DEF RInv, FlagOK
<1>6. LoginOK'
  <2>1. work[<<t, "handler">>].at \notin LoginStages \ {"setId"}
    BY <1>2, <1>5 DEF RInv, LoginOK, Known
  <2> QED BY <1>1, <1>3, <1>4, <2>1 DEF RInv, LoginOK
<1>7. FlagOK'
  <2>1. \A c \in Conns : work'[p].target = c => Known(c)' /\ processed'[c]
    BY <1>2, <1>3, <1>4, <1>5
  <2>2. \A c \in Conns : processed'[c] => processed[c] \/ Known(c)'
    BY <1>2, <1>3, <1>4, <1>5
  <2>3. \A c \in Conns : processed[c] => processed'[c]
    BY <1>4
  <2> QED BY <1>2, <1>3, <2>1, <2>2, <2>3, FlagsNext
<1>8. Registry'
  <2>1. work'[p].at \in PastFlag /\ work[p].at \notin PastFlag
    BY <1>1, <1>2, LoginStagesOf
  <2>2. /\ \A c \in Conns : c = t => TearDown(c)'
        /\ \A c \in Conns : TearDown(c) => TearDown(c)'
    BY <2>1, <1>2 DEF TearDown
  <2>3. ASSUME NEW a \in Accounts, NEW c \in Conns
        PROVE  /\ users[a] = c => userId[c] = a \/ Entering(c, a)'
               /\ users[a] = c /\ processed'[c] => c \in unnamed \/ TearDown(c)'
               /\ userId[c] = a /\ ~processed'[c] => users[a] = c \/ c \in robbed
    <3>1. /\ users[a] = c => userId[c] = a \/ Entering(c, a)
          /\ users[a] = c /\ processed[c] => c \in unnamed \/ TearDown(c)
          /\ userId[c] = a /\ ~processed[c] => users[a] = c \/ c \in robbed
      BY DEF RInv, Registry
    <3>2. Entering(c, a)' <=> Entering(c, a)
      BY <1>3
    <3>3. ASSUME users[a] = c, processed'[c] PROVE c \in unnamed \/ TearDown(c)'
      <4>1. CASE c = t
        BY <4>1, <2>2
      <4>2. CASE c # t
        <5>1. c \in unnamed \/ TearDown(c)
          BY <3>1, <3>3, <4>2, <1>4
        <5>2. TearDown(c) => TearDown(c)'
          BY <2>2
        <5> QED BY <5>1, <5>2
      <4> QED BY <4>1, <4>2
    <3>4. ASSUME userId[c] = a, ~processed'[c] PROVE users[a] = c \/ c \in robbed
      <4>1. ~processed[c]
        BY <3>4, <1>4
      <4> QED BY <3>1, <3>4, <4>1
    <3> QED BY <3>1, <3>2, <3>3, <3>4
  <2> QED BY <1>1, <2>3 DEF Registry
<1> QED BY <1>6, <1>7, <1>8 DEF RInv

LEMMA CloseUnPossessRegistry ==
    ASSUME TInv, RInv, NEW p \in Procs, closeUnPossess(p)
    PROVE  RInv'
<1> DEFINE w == work[p]
           n == UnPossessing(w.target, w)
<1>1. w.at \in UnPossessStages /\ w \in Work /\ unPossess(w.target, w)
  BY Stages DEF closeUnPossess, TInv, WorkTypes
<1>2. w.at \in Closing
  BY <1>1, CloseStages
<1>3. w.target \in Conns
  BY <1>2, Closers DEF TInv
<1>4. n.target = w.target
  BY <1>1, <1>3, UnPossessingTyped DEF TInv
<1>5. n.at \in PastFlag /\ w.at \in PastFlag
  BY <1>1, UnPossessGoes, CloseStages
<1>6. /\ work' = [work EXCEPT ![p] = n]
      /\ UNCHANGED <<socket, userId, processed, users, robbed, unnamed>>
  BY DEF closeUnPossess, connVars, histVars
<1> HIDE DEF n
<1> QED BY <1>4, <1>5, <1>6, Neutral

LEMMA CloseRemoveRegistry ==
    ASSUME SessionAssumption, TInv, RInv, NEW p \in Procs, closeRemove(p)
    PROVE  RInv'
<1> DEFINE t == work[p].target
           a == userId[t]
<1>1. /\ work[p].at = "unPossessed" /\ work[p].at \in LoginStages \ {"setId"}
      /\ Closed(p)
      /\ users' = IF a = None THEN users ELSE [users EXCEPT ![a] = None]
      /\ robbed' = robbed \cup {c \in Conns \ {t} : a # None /\ users[a] = c}
      /\ unnamed' = IF a = None THEN unnamed \cup {t} ELSE unnamed
      /\ UNCHANGED <<socket, userId, processed>>
  BY LoginStagesOf DEF closeRemove, connVars
<1>2. /\ \A q \in Procs : q # p => work'[q] = work[q]
      /\ work'[p].at \in {"idle", "closeSocket"}
      /\ t \in Conns
  BY <1>1, CloserSteps, Closers, LoginStagesOf DEF TInv
<1>3. /\ \A c \in Conns : Known(c)' <=> Known(c)
      /\ \A c \in Conns, b \in Accounts : Entering(c, b)' <=> Entering(c, b)
      /\ \A c \in Conns : work'[<<c, "handler">>].at \in LoginStages \ {"setId"}
                             => work[<<c, "handler">>].at \in LoginStages \ {"setId"}
      /\ \A c \in Conns : work'[<<c, "handler">>].at \in LoginStages
                             => work[<<c, "handler">>].at \in LoginStages
  BY <1>1, <1>2, CloserMoves
<1>4. processed[t]
  BY <1>1, <1>2, LoginStagesOf DEF RInv, FlagOK
<1>5. a # None => a \in Accounts /\ \A b \in Accounts : ~Entering(t, b)
  BY <1>2, LoginStagesOf DEF TInv, ConnTypes, RInv, LoginOK, Entering
<1>6. \A b \in Accounts, c \in Conns :
         /\ users'[b] = c => users[b] = c /\ (a # None => b # a)
         /\ users[b] = c => users'[b] = c \/ (a # None /\ b = a)
  BY <1>1, <1>5, SessionAssumption DEF TInv, ConnTypes
<1>7. robbed \subseteq robbed' /\ unnamed \subseteq unnamed'
  BY <1>1
<1>8. \A c \in Conns : c # t /\ a # None /\ users[a] = c => c \in robbed'
  BY <1>1
<1>9. LoginOK'
  <2>1. \A c \in Conns, b \in Accounts : Entering(c, b) => users'[b] = c \/ c \in robbed'
    <3> SUFFICES ASSUME NEW c \in Conns, NEW b \in Accounts, Entering(c, b)
                 PROVE  users'[b] = c \/ c \in robbed'
      OBVIOUS
    <3>1. users[b] = c \/ c \in robbed
      BY DEF RInv, LoginOK
    <3>2. CASE users[b] = c /\ a # None /\ b = a
      <4>1. c # t
        BY <3>2, <1>5
      <4> QED BY <4>1, <3>2, <1>8
    <3>3. CASE users[b] = c /\ ~(a # None /\ b = a)
      BY <3>3, <1>6
    <3> QED BY <3>1, <3>2, <3>3, <1>7
  <2> QED BY <1>1, <1>3, <2>1 DEF RInv, LoginOK
<1>10. FlagOK'
  <2>1. work'[p].at \notin Closing /\ work'[p].at \notin PastFlag
    BY <1>2, LoginStagesOf
  <2> QED BY <1>1, <1>2, <1>3, <2>1, FlagsNext
<1>11. Registry'
  <2>1. \A c \in Conns : c # t /\ TearDown(c) => TearDown(c)'
    BY <1>2 DEF TearDown
  <2>2. ASSUME NEW b \in Accounts, users'[b] = t
        PROVE  t \in unnamed'
    <3>1. userId[t] = b \/ Entering(t, b)
      BY <2>2, <1>2, <1>6 DEF RInv, Registry
    <3>2. a = None
      BY <2>2, <3>1, <1>2, <1>5, <1>6
    <3> QED BY <3>2, <1>1
  <2>3. ASSUME NEW b \in Accounts, NEW c \in Conns
        PROVE  /\ users'[b] = c => userId'[c] = b \/ Entering(c, b)'
               /\ users'[b] = c /\ processed'[c] => c \in unnamed' \/ TearDown(c)'
               /\ userId'[c] = b /\ ~processed'[c] => users'[b] = c \/ c \in robbed'
    <3>1. users'[b] = c => userId'[c] = b \/ Entering(c, b)'
      BY <1>1, <1>3, <1>6 DEF RInv, Registry
    <3>2. users'[b] = c /\ processed'[c] => c \in unnamed' \/ TearDown(c)'
      BY <1>1, <1>6, <1>7, <2>1, <2>2 DEF RInv, Registry
    <3>3. userId'[c] = b /\ ~processed'[c] => users'[b] = c \/ c \in robbed'
      BY <1>1, <1>4, <1>6, <1>7, <1>8 DEF RInv, Registry
    <3> QED BY <3>1, <3>2, <3>3
  <2> QED BY <2>3 DEF Registry
<1> QED BY <1>9, <1>10, <1>11 DEF RInv

LEMMA CloseSocketRegistry ==
    ASSUME TInv, RInv, NEW p \in Procs, closeSocket(p)
    PROVE  RInv'
<1> DEFINE t == work[p].target
<1>1. /\ work[p].at = "closeSocket" /\ work[p].at \in LoginStages \ {"setId"}
      /\ Goto(p, "insert")
      /\ socket' = IF socket[t] = "open" THEN [socket EXCEPT ![t] = "closing"] ELSE socket
      /\ UNCHANGED <<userId, processed, users, robbed, unnamed>>
  BY LoginStagesOf DEF closeSocket, histVars
<1>2. /\ \A q \in Procs : q # p => work'[q] = work[q]
      /\ work'[p].at = "insert"
  BY <1>1, CloserSteps, LoginStagesOf DEF TInv
<1>3. \A c \in Conns : socket'[c] = "closed" <=> socket[c] = "closed"
  BY <1>1 DEF TInv, ConnTypes
<1>4. /\ \A c \in Conns : Known(c)' <=> Known(c)
      /\ \A c \in Conns, a \in Accounts : Entering(c, a)' <=> Entering(c, a)
      /\ \A c \in Conns : work'[<<c, "handler">>].at \in LoginStages \ {"setId"}
                             => work[<<c, "handler">>].at \in LoginStages \ {"setId"}
      /\ \A c \in Conns : work'[<<c, "handler">>].at \in LoginStages
                             => work[<<c, "handler">>].at \in LoginStages
  BY <1>1, <1>2, <1>3, CloserMoves
<1>5. LoginOK'
  BY <1>1, <1>3, <1>4 DEF RInv, LoginOK
<1>6. work'[p].at \notin Closing /\ work'[p].at \notin PastFlag /\ work[p].at \notin PastFlag
  BY <1>1, <1>2, LoginStagesOf
<1>7. FlagOK'
  BY <1>1, <1>2, <1>4, <1>6, FlagsNext
<1>8. Registry'
  <2>1. \A c \in Conns : TearDown(c)' <=> TearDown(c)
    BY <1>2, <1>6 DEF TearDown
  <2> QED BY <1>1, <1>4, <2>1 DEF RInv, Registry
<1> QED BY <1>5, <1>7, <1>8 DEF RInv

\* PlayerDataReq keeps off the registry.
LEMMA DataRegistry ==
    ASSUME TInv, RInv, NEW c \in Conns,
           \/ \E pid \in Players : dataReq(c, pid)
           \/ dataRemoveDead(c) \/ dataFind(c) \/ dataPossess(c) \/ dataGetRoom(c)
           \/ dataSwap(c) \/ dataSwapRoom(c) \/ dataReply(c)
    PROVE  RInv'
<1> DEFINE p == <<c, "handler">>
<1>1. p \in Procs /\ WorkTypes
  BY DEF Procs, TInv
<1>2. UNCHANGED <<socket, userId, processed, users, robbed, unnamed>>
  BY DEF dataReq, dataRemoveDead, dataFind, dataPossess, dataGetRoom, dataSwap,
         dataSwapRoom, dataReply, connVars, histVars
<1>3. work[p].at \notin LoginStages
  <2>1. CASE \E pid \in Players : dataReq(c, pid)
    BY <2>1, <1>1, LoginStagesOf DEF dataReq, CanStart, Running
  <2>2. CASE dataPossess(c)
    BY <2>2, Stages, DataStagesOf DEF dataPossess
  <2>3. CASE \/ dataRemoveDead(c) \/ dataFind(c) \/ dataGetRoom(c)
             \/ dataSwap(c) \/ dataSwapRoom(c) \/ dataReply(c)
    BY <2>3, DataStagesOf
       DEF dataRemoveDead, dataFind, dataGetRoom, dataSwap, dataSwapRoom, dataReply
  <2> QED BY <2>1, <2>2, <2>3
<1>4. \E n : work' = [work EXCEPT ![p] = n] /\ n.at \notin LoginStages
  <2>1. CASE \E pid \in Players : dataReq(c, pid)
    <3> DEFINE o == Lock(waiting[userId[c]])
    <3>1. PICK s \in {"removeDead", "find"}, pid \in Players :
             work' = [work EXCEPT ![p] = [Resting EXCEPT !.at = s, !.arg = pid, !.old = o]]
      BY <2>1 DEF dataReq
    <3>2. [Resting EXCEPT !.at = s, !.arg = pid, !.old = o].at = s
      BY DEF Resting
    <3> QED BY <3>1, <3>2, DataStagesOf
  <2>2. CASE dataPossess(c)
    <3>1. work[p] \in Work /\ work[p].at \in PossessStages
      BY <2>2, <1>1, Stages DEF dataPossess, WorkTypes
    <3>2. Possessing(work[p]).at \notin LoginStages
      BY <3>1, PossessGoes, DataStagesOf
    <3> QED BY <2>2, <3>2 DEF dataPossess
  <2>3. CASE dataRemoveDead(c) \/ dataSwap(c) \/ dataSwapRoom(c)
    <3>1. PICK s \in DataStages : Goto(p, s)
      BY <2>3, DataStagesOf DEF dataRemoveDead, dataSwap, dataSwapRoom
    <3>2. s \notin LoginStages
      BY DataStagesOf
    <3>3. work' = [work EXCEPT ![p] = work'[p]] /\ work'[p].at = s
      BY <1>1, <3>1, Goes
    <3> QED BY <3>2, <3>3
  <2>4. CASE dataReply(c)
    BY <2>4, <1>1, Ends, LoginStagesOf DEF dataReply
  <2>5. CASE dataFind(c)
    <3> DEFINE x == players[work[p].arg]
               s == IF x = None THEN Found(work[p]) ELSE "setUser"
    <3>1. s \in DataStages /\ work' = [work EXCEPT ![p].player = x, ![p].at = s]
      BY <2>5, DataStagesOf DEF dataFind, Found
    <3> HIDE DEF p, x, s
    <3>2. /\ work \in [Procs -> Work] /\ work[p] \in Work
      BY <1>1 DEF WorkTypes
    <3>3. work' = [work EXCEPT ![p] = [[work[p] EXCEPT !.player = x] EXCEPT !.at = s]]
      BY <1>1, <3>1, <3>2
    <3>4. [[work[p] EXCEPT !.player = x] EXCEPT !.at = s].at = s
      BY <3>2 DEF Work
    <3>5. s \notin LoginStages
      BY <3>1, DataStagesOf
    <3> DEFINE n == [[work[p] EXCEPT !.player = x] EXCEPT !.at = s]
    <3>6. work' = [work EXCEPT ![p] = n] /\ n.at = s
      BY <3>3, <3>4
    <3> HIDE DEF n
    <3> QED BY <3>5, <3>6
  <2>6. CASE dataGetRoom(c)
    <3> DEFINE x == InRoom(work[p].player)
               s == Found(work[p])
    <3>1. s \in DataStages /\ work' = [work EXCEPT ![p].at = s, ![p].room = x]
      BY <2>6, DataStagesOf DEF dataGetRoom, Found
    <3> HIDE DEF p, x, s
    <3>2. /\ work \in [Procs -> Work] /\ work[p] \in Work
      BY <1>1 DEF WorkTypes
    <3>3. work' = [work EXCEPT ![p] = [[work[p] EXCEPT !.at = s] EXCEPT !.room = x]]
      BY <1>1, <3>1, <3>2
    <3>4. [[work[p] EXCEPT !.at = s] EXCEPT !.room = x].at = s
      BY <3>2 DEF Work
    <3>5. s \notin LoginStages
      BY <3>1, DataStagesOf
    <3> DEFINE n == [[work[p] EXCEPT !.at = s] EXCEPT !.room = x]
    <3>6. work' = [work EXCEPT ![p] = n] /\ n.at = s
      BY <3>3, <3>4
    <3> HIDE DEF n
    <3> QED BY <3>5, <3>6
  <2> QED BY <2>1, <2>2, <2>3, <2>4, <2>5, <2>6
<1> QED BY <1>1, <1>2, <1>3, <1>4, Neutral

\* So do the database and the room, and no socket is closed beside a callback.
LEMMA OthersRegistry ==
    ASSUME TInv, RInv, Load \/ Room \/ UNCHANGED vars
                       \/ \E c \in Conns : accept(c) \/ disconnect(c)
    PROVE  RInv'
<1>1. UNCHANGED <<work, userId, processed, users, robbed, unnamed>>
  BY DEF Load, load, loadPossess, loadFail, loadUnPossess, Room, enterWorld, closeExpired,
         closeTimeout, reconnectOld, reconnectSaved, finalize, leaveRoom, accept,
         disconnect, connVars, histVars, vars
<1>2. \A c \in Conns : socket'[c] = "closed" <=> socket[c] = "closed"
  BY DEF Load, load, loadPossess, loadFail, loadUnPossess, Room, enterWorld, closeExpired,
         closeTimeout, reconnectOld, reconnectSaved, finalize, leaveRoom, accept,
         disconnect, connVars, vars, TInv, ConnTypes
<1> QED BY <1>1, <1>2, Still

LEMMA InitRegistry == SessionAssumption /\ Init => RInv
<1> SUFFICES ASSUME SessionAssumption, Init PROVE RInv
  OBVIOUS
<1>1. \A p \in Procs : work[p] = Resting /\ Resting.at = "idle" /\ Resting.target = None
  BY DEF Init, Resting
<1>2. None \notin Conns
  BY SessionAssumption
<1> QED BY <1>1, <1>2, TwoProcs, LoginStagesOf
        DEF Init, RInv, LoginOK, FlagOK, Registry, Entering, Known

LEMMA NextRegistry ==
    ASSUME SessionAssumption, TInv, RInv, [Next]_vars
    PROVE  RInv'
<1>1. CASE Client \/ keepAlive
  BY <1>1, KeepAlives, LoginReqRegistry, DataRegistry, OthersRegistry DEF Client
<1>2. CASE Login
  BY <1>2, LoginInsertRegistry, LoginSetIdRegistry, OnClosedRegistry DEF Login
<1>3. CASE Close
  BY <1>3, CloseCheckRegistry, CloseSetFlagRegistry, CloseUnPossessRegistry,
     CloseRemoveRegistry, CloseSocketRegistry DEF Close
<1>4. CASE Data
  BY <1>4, DataRegistry DEF Data
<1>5. CASE Load \/ Room \/ UNCHANGED vars
  BY <1>5, OthersRegistry
<1> QED BY <1>1, <1>2, <1>3, <1>4, <1>5 DEF Next

\* Registry with nobody at setId or past the flag.
LEMMA QuietRegistry == RInv => RegistryIsExact
<1> SUFFICES ASSUME RInv, Quiet, NEW a \in Accounts, NEW c \in Conns
             PROVE  /\ users[a] = c => userId[c] = a /\ (LoggedIn(c) \/ c \in unnamed)
                    /\ LoggedIn(c) /\ userId[c] = a => users[a] = c \/ c \in robbed
  BY DEF RegistryIsExact
<1>1. \A b \in Accounts : ~Entering(c, b)
  BY TwoProcs DEF Entering, Quiet
<1>2. ~TearDown(c)
  BY LoginStagesOf DEF TearDown, Quiet
<1> QED BY <1>1, <1>2, SessionAssumption DEF RInv, Registry, LoggedIn

\* With no handler under way UserManager holds exactly the connections that are
\* logged in, whatever number of network threads ran the logins and the closes,
\* but for those whose entry the close of another removed and those closed
\* before they had their id (PktLoginReqHandler.cpp:37-70, User.cpp:393-438).
THEOREM ExactRegistry == Spec => []RegistryIsExact
<1>1. Init => TInv /\ RInv
  BY SessionAssumption, InitTyped, InitRegistry
<1>2. TInv /\ RInv /\ [Next]_vars => TInv' /\ RInv'
  BY SessionAssumption, NextTyped, NextRegistry
<1> QED BY <1>1, <1>2, QuietRegistry, PTL DEF Spec
=============================================================================
