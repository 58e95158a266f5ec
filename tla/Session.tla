------------------------------- MODULE Session -------------------------------
(***************************************************************************)
(* Connections, accounts and players: PktLoginReqHandler and               *)
(* PktPlayerDataReqHandler on the network threads, User::_closeProcess run *)
(* by a socket's own close or by the forceClose of the next login, the     *)
(* database task that loads a player, and the two-minute timer of          *)
(* CloseComponent on the room thread, over the maps UserManager,           *)
(* PlayerManager and PlayerCloseManager.                                   *)
(*                                                                         *)
(* A handler is a sequence of steps, one per access to a shared map or     *)
(* member; IOCP_THREAD_COUNT of them run at a time, and the database and   *)
(* room threads beside them.  Saving the player (disconnnectSave) is a     *)
(* CacheTx and changes nothing here.                                       *)
(***************************************************************************)
EXTENDS Naturals, FiniteSets

CONSTANTS
    Conns,          \* User objects, one per accepted connection
    Accounts,       \* user ids
    Players,        \* player ids, each of one account
    AccountOf,      \* the account of a player id
    Objects,        \* Player objects the run may create
    IoThreads,      \* IOCP_THREAD_COUNT
    MaxRequests,    \* bound: PlayerDataReq packets of a behaviour
    None

ASSUME SessionAssumption ==
    /\ AccountOf \in [Players -> Accounts]
    /\ IoThreads \in Nat \ {0}
    /\ MaxRequests \in Nat
    /\ None \notin Conns \cup Accounts \cup Players \cup Objects

VARIABLES
    socket,     \* "new", "open", "closing" (closeSocket called) or "closed"
    userId,     \* User::_id
    processed,  \* User::_isCloseProcessed
    avatar,     \* User::_playerWeakPtr
    work,       \* the handler and the close callback of each connection
    users,      \* UserManager
    players,    \* PlayerManager
    waiting,    \* PlayerCloseManager
    playerId,   \* Player::_id of an object, None before it is created
    owner,      \* Player::_userWeakPtr
    closedUser, \* CloseComponent::_clsoedUserId
    timer,      \* CloseComponent::_closedTimeSec # 0
    room,       \* "none", "in", "leaving" or "left"
    leaving,    \* objects with a queued reconnectOldPlayerProcess
    saving,     \* objects whose last save is under way
    finalizing, \* objects within CloseComponent::finalize
    expired,    \* objects within CloseComponent::update, past the check
    loads,      \* the database tasks of PlayerDataReq
    requests,   \* PlayerDataReq packets so far, for MaxRequests
    robbed,     \* history: connections whose entry another's close removed
    unnamed     \* history: connections whose close removed the id 0

connVars == <<socket, userId, processed>>
handVars == <<avatar, owner, waiting, closedUser, timer>>
roomVars == <<room, leaving, saving, finalizing, expired>>
histVars == <<robbed, unnamed>>
vars == <<connVars, handVars, work, users, players, playerId, roomVars, loads,
          requests, histVars>>

Procs == Conns \X {"handler", "closed"}
Resting == [at |-> "idle", target |-> None, arg |-> None, old |-> None,
            player |-> None, room |-> FALSE]

Init ==
    /\ socket = [c \in Conns |-> "new"]
    /\ userId = [c \in Conns |-> None]
    /\ processed = [c \in Conns |-> FALSE]
    /\ avatar = [c \in Conns |-> None]
    /\ work = [p \in Procs |-> Resting]
    /\ users = [a \in Accounts |-> None]
    /\ players = [p \in Players |-> None]
    /\ waiting = [a \in Accounts |-> None]
    /\ playerId = [o \in Objects |-> None]
    /\ owner = [o \in Objects |-> None]
    /\ closedUser = [o \in Objects |-> None]
    /\ timer = [o \in Objects |-> FALSE]
    /\ room = [o \in Objects |-> "none"]
    /\ leaving = {} /\ saving = {} /\ finalizing = {} /\ expired = {}
    /\ loads = {}
    /\ requests = 0
    /\ robbed = {} /\ unnamed = {}

-----------------------------------------------------------------------------
Running == {p \in Procs : work[p].at # "idle"}

\* A network thread is free to run p, a connection's events one at a time.
CanStart(p) ==
    /\ Cardinality(Running) < IoThreads
    /\ \A q \in Running : q[1] # p[1]

Goto(p, step) == work' = [work EXCEPT ![p].at = step]
Done(p) == work' = [work EXCEPT ![p] = Resting]

InRoom(o) == room[o] \in {"in", "leaving"}

\* Someone still holds a shared_ptr to the object, so a weak_ptr locks.
Alive(o) ==
    \/ \E p \in Players : players[p] = o
    \/ InRoom(o)
    \/ \E t \in loads : t.player = o
    \/ \E p \in Procs : o \in {work[p].old, work[p].player}
    \/ o \in leaving \cup saving \cup finalizing
Lock(o) == IF o # None /\ Alive(o) THEN o ELSE None

accept(c) ==
    /\ socket[c] = "new"
    /\ socket' = [socket EXCEPT ![c] = "open"]
    /\ UNCHANGED <<userId, processed, handVars, work, users, players, playerId,
                   roomVars, loads, requests, histVars>>

\* The client goes away.
disconnect(c) ==
    /\ socket[c] = "open"
    /\ socket' = [socket EXCEPT ![c] = "closing"]
    /\ UNCHANGED <<userId, processed, handVars, work, users, players, playerId,
                   roomVars, loads, requests, histVars>>

\* Its ping is overdue.
checkKeepAlive(c) == disconnect(c)

\* The timer asks the users in UserManager: a connection that never logged in
\* is not among them.
keepAlive == \E a \in Accounts : users[a] # None /\ checkKeepAlive(users[a])

-----------------------------------------------------------------------------
(* The two ways a player changes hands, an access at a time: w says how    *)
(* far the caller is and which player it holds.                            *)

\* User::possess by the User c, with CloseComponent::possess.
possess(c, w) ==
    LET o == w.player IN
    \/ /\ w.at = "setUser"
       /\ owner' = [owner EXCEPT ![o] = c]
       /\ UNCHANGED <<avatar, waiting, closedUser, timer>>
    \/ /\ w.at = "unlist"
       /\ waiting' = [a \in Accounts |-> IF a = closedUser[o] THEN None
                                         ELSE waiting[a]]
       /\ UNCHANGED <<avatar, owner, closedUser, timer>>
    \/ /\ w.at = "forgetUser"
       /\ closedUser' = [closedUser EXCEPT ![o] = None]
       /\ UNCHANGED <<avatar, owner, waiting, timer>>
    \/ /\ w.at = "stopTimer"
       /\ timer' = [timer EXCEPT ![o] = FALSE]
       /\ UNCHANGED <<avatar, owner, waiting, closedUser>>
    \/ /\ w.at = "setPlayer"
       /\ avatar' = [avatar EXCEPT ![c] = o]
       /\ UNCHANGED <<owner, waiting, closedUser, timer>>

\* The access that follows; "forgetUser" only where there is one to forget.
PossessOrder == [setUser |-> "unlist", unlist |-> "forgetUser",
                 forgetUser |-> "stopTimer", stopTimer |-> "setPlayer",
                 setPlayer |-> "possessed"]
Possessing(w) ==
    [w EXCEPT !.at = IF w.at = "unlist" /\ closedUser[w.player] = None
                     THEN "stopTimer" ELSE PossessOrder[w.at]]

\* User::unPossess of the User c, with CloseComponent::unPossess.  The key of
\* the insert is the member written just before, which is read again or not.
unPossess(c, w) ==
    LET o == w.player IN
    \/ /\ w.at = "getPlayer"
       /\ UNCHANGED handVars
    \/ /\ w.at = "markClosed"
       /\ closedUser' = [closedUser EXCEPT ![o] = userId[c]]
       /\ UNCHANGED <<avatar, owner, waiting, timer>>
    \/ /\ w.at = "list"
       /\ \E key \in {userId[c], closedUser[o]} :
             waiting' = [a \in Accounts |-> IF a = key /\ waiting[a] = None
                                            THEN o ELSE waiting[a]]
       /\ UNCHANGED <<avatar, owner, closedUser, timer>>
    \/ /\ w.at = "startTimer"
       /\ timer' = [timer EXCEPT ![o] = TRUE]
       /\ UNCHANGED <<avatar, owner, waiting, closedUser>>
    \/ /\ w.at = "dropUser"
       /\ owner' = [owner EXCEPT ![o] = None]
       /\ UNCHANGED <<avatar, waiting, closedUser, timer>>
    \/ /\ w.at = "dropPlayer"
       /\ avatar' = [avatar EXCEPT ![c] = None]
       /\ UNCHANGED <<owner, waiting, closedUser, timer>>

\* Mutant of UnPossessOrder: the owner goes before the timer is started.
UnPossessUserFirst == [markClosed |-> "list", list |-> "dropUser",
                       dropUser |-> "startTimer", startTimer |-> "dropPlayer",
                       dropPlayer |-> "unPossessed"]

UnPossessOrder == [markClosed |-> "list", list |-> "startTimer",
                   startTimer |-> "dropUser", dropUser |-> "dropPlayer",
                   dropPlayer |-> "unPossessed"]
UnPossessing(c, w) ==
    LET o == Lock(avatar[c]) IN
    IF w.at = "getPlayer"
    THEN [w EXCEPT !.at = IF o = None THEN "dropPlayer" ELSE "markClosed",
                   !.player = o]
    ELSE [w EXCEPT !.at = UnPossessOrder[w.at],
                   !.player = IF w.at = "dropPlayer" THEN None ELSE @]

-----------------------------------------------------------------------------
(* PktLoginReqHandler::_onHandler.                                         *)

loginReq(c, a) ==
    LET p == <<c, "handler">> IN
    /\ socket[c] = "open" /\ CanStart(p)
    /\ userId[c] = None /\ Lock(avatar[c]) = None
    /\ work' = [work EXCEPT ![p] =
                  [Resting EXCEPT !.at = IF users[a] = None THEN "insert"
                                         ELSE "flag",
                                  !.target = users[a], !.arg = a]]
    /\ UNCHANGED <<connVars, handVars, users, players, playerId, roomVars, loads,
                   requests, histVars>>

loginInsert(c) ==
    LET p == <<c, "handler">>
        a == work[p].arg IN
    /\ work[p].at = "insert"
    /\ IF users[a] = None
       THEN users' = [users EXCEPT ![a] = c] /\ Goto(p, "setId")
       ELSE UNCHANGED users /\ Done(p)
    /\ UNCHANGED <<connVars, handVars, players, playerId, roomVars, loads,
                   requests, histVars>>

loginSetId(c) ==
    LET p == <<c, "handler">> IN
    /\ work[p].at = "setId"
    /\ userId' = [userId EXCEPT ![c] = work[p].arg]
    /\ Done(p)
    /\ UNCHANGED <<socket, processed, handVars, users, players, playerId, roomVars,
                   loads, requests, histVars>>

-----------------------------------------------------------------------------
(* User::_closeProcess of the target t, by the close callback of t or by   *)
(* the login that found t registered.                                      *)

onClosed(c) ==
    LET p == <<c, "closed">> IN
    /\ socket[c] = "closing" /\ CanStart(p)
    /\ socket' = [socket EXCEPT ![c] = "closed"]
    /\ work' = [work EXCEPT ![p] = [Resting EXCEPT !.at = "flag", !.target = c]]
    /\ UNCHANGED <<userId, processed, handVars, users, players, playerId, roomVars,
                   loads, requests, histVars>>

\* After the close process a login goes on to closeSocket and insert.
Closed(p) == IF p[2] = "handler" THEN Goto(p, "closeSocket") ELSE Done(p)

closeCheck(p) ==
    /\ work[p].at = "flag"
    /\ IF processed[work[p].target] THEN Closed(p) ELSE Goto(p, "setFlag")
    /\ UNCHANGED <<connVars, handVars, users, players, playerId, roomVars, loads,
                   requests, histVars>>

\* For a player out of every room PlayerManager is then asked to remove the
\* USER id, which is taken to be no key of it; in a room, its save is queued.
closeSetFlag(p) ==
    /\ work[p].at = "setFlag"
    /\ processed' = [processed EXCEPT ![work[p].target] = TRUE]
    /\ Goto(p, "getPlayer")
    /\ UNCHANGED <<socket, userId, handVars, users, players, playerId, roomVars,
                   loads, requests, histVars>>

closeUnPossess(p) ==
    /\ unPossess(work[p].target, work[p])
    /\ work' = [work EXCEPT ![p] = UnPossessing(work[p].target, work[p])]
    /\ UNCHANGED <<connVars, users, players, playerId, roomVars, loads, requests,
                   histVars>>

\* Mutant of closeRemove: the entry of UserManager stays.
closeRemoveNothing(p) ==
    /\ work[p].at = "unPossessed"
    /\ Closed(p)
    /\ UNCHANGED <<connVars, handVars, users, players, playerId, roomVars, loads,
                   requests, histVars>>

closeRemove(p) ==
    LET t == work[p].target
        a == userId[t] IN
    /\ work[p].at = "unPossessed"
    /\ users' = IF a = None THEN users ELSE [users EXCEPT ![a] = None]
    /\ robbed' = robbed \cup {c \in Conns \ {t} : a # None /\ users[a] = c}
    /\ unnamed' = IF a = None THEN unnamed \cup {t} ELSE unnamed
    /\ Closed(p)
    /\ UNCHANGED <<connVars, handVars, players, playerId, roomVars, loads, requests>>

closeSocket(p) ==
    LET t == work[p].target IN
    /\ work[p].at = "closeSocket"
    /\ socket' = IF socket[t] = "open" THEN [socket EXCEPT ![t] = "closing"]
                 ELSE socket
    /\ Goto(p, "insert")
    /\ UNCHANGED <<userId, processed, handVars, users, players, playerId, roomVars,
                   loads, requests, histVars>>

-----------------------------------------------------------------------------
(* PktPlayerDataReqHandler::_onHandler.                                    *)

\* The player waiting for the account's return.  The client names a player of
\* its account; the handler does not check it.
dataReq(c, pid) ==
    LET p == <<c, "handler">>
        a == userId[c]
        old == Lock(waiting[a]) IN
    /\ socket[c] = "open" /\ CanStart(p)
    /\ a # None /\ AccountOf[pid] = a
    /\ requests < MaxRequests /\ requests' = requests + 1
    /\ work' = [work EXCEPT ![p] =
                  [Resting EXCEPT !.at = IF waiting[a] # None /\ old = None
                                         THEN "removeDead" ELSE "find",
                                  !.arg = pid, !.old = old]]
    /\ UNCHANGED <<connVars, handVars, users, players, playerId, roomVars, loads,
                   histVars>>

dataRemoveDead(c) ==
    LET p == <<c, "handler">> IN
    /\ work[p].at = "removeDead"
    /\ waiting' = [waiting EXCEPT ![userId[c]] = None]
    /\ Goto(p, "find")
    /\ UNCHANGED <<connVars, avatar, owner, closedUser, timer, users, players,
                   playerId, roomVars, loads, requests, histVars>>

\* Another player of the account was still waiting, or the reply is next.
Found(w) == IF w.old # None /\ w.old # w.player THEN "swap" ELSE "reply"

dataFind(c) ==
    LET p == <<c, "handler">>
        o == players[work[p].arg] IN
    /\ work[p].at = "find"
    /\ work' = [work EXCEPT ![p].player = o,
                            ![p].at = IF o = None THEN Found(work[p]) ELSE "setUser"]
    /\ UNCHANGED <<connVars, handVars, users, players, playerId, roomVars, loads,
                   requests, histVars>>

dataPossess(c) ==
    LET p == <<c, "handler">> IN
    /\ possess(c, work[p])
    /\ work' = [work EXCEPT ![p] = Possessing(@)]
    /\ UNCHANGED <<connVars, users, players, playerId, roomVars, loads, requests,
                   histVars>>

dataGetRoom(c) ==
    LET p == <<c, "handler">> IN
    /\ work[p].at = "possessed"
    /\ work' = [work EXCEPT ![p].at = Found(work[p]),
                            ![p].room = InRoom(work[p].player)]
    /\ UNCHANGED <<connVars, handVars, users, players, playerId, roomVars, loads,
                   requests, histVars>>

\* The other player is let go and, in a room, to be saved and taken out.
dataSwap(c) ==
    LET p == <<c, "handler">>
        old == work[p].old IN
    /\ work[p].at = "swap"
    /\ owner' = [owner EXCEPT ![old] = None]
    /\ Goto(p, "swapRoom")
    /\ UNCHANGED <<connVars, avatar, waiting, closedUser, timer, users, players,
                   playerId, roomVars, loads, requests, histVars>>

dataSwapRoom(c) ==
    LET p == <<c, "handler">>
        old == work[p].old IN
    /\ work[p].at = "swapRoom"
    /\ leaving' = IF InRoom(old) THEN leaving \cup {old} ELSE leaving
    /\ Goto(p, "reply")
    /\ UNCHANGED <<connVars, handVars, users, players, playerId, room, saving,
                   finalizing, expired, loads, requests, histVars>>

\* In a room the data is sent; otherwise a database task loads or answers.
dataReply(c) ==
    LET p == <<c, "handler">>
        w == work[p] IN
    /\ w.at = "reply"
    /\ loads' = IF w.player # None /\ w.room THEN loads
                ELSE loads \cup {[conn |-> c, pid |-> w.arg, player |-> w.player,
                                  at |-> "load", number |-> requests]}
    /\ Done(p)
    /\ UNCHANGED <<connVars, handVars, users, players, playerId, roomVars,
                   requests, histVars>>

\* PlayerManager::insert keeps an entry that is there.
register(pid, o) ==
    players' = IF players[pid] = None THEN [players EXCEPT ![pid] = o]
               ELSE players

\* The database task creates the object unless the handler found one.
load(t) ==
    /\ t.at = "load"
    /\ IF t.player # None
       THEN /\ loads' = (loads \ {t}) \cup {[t EXCEPT !.at = "setUser"]}
            /\ UNCHANGED <<players, playerId>>
       ELSE \E o \in Objects :
              /\ playerId[o] = None
              /\ playerId' = [playerId EXCEPT ![o] = t.pid]
              /\ register(t.pid, o)
              /\ loads' = (loads \ {t}) \cup
                            {[t EXCEPT !.at = "setUser", !.player = o]}
    /\ UNCHANGED <<connVars, handVars, work, users, roomVars, requests, histVars>>

loadPossess(t) ==
    /\ possess(t.conn, t)
    /\ loads' = (loads \ {t}) \cup
                  {n \in {Possessing(t)} : n.at # "possessed"}
    /\ UNCHANGED <<connVars, work, users, players, playerId, roomVars, requests,
                   histVars>>

\* initializeDB fails: the User gives up whatever it possesses.
loadFail(t) ==
    /\ t.at = "load" /\ t.player = None
    /\ loads' = (loads \ {t}) \cup {[t EXCEPT !.at = "getPlayer"]}
    /\ UNCHANGED <<connVars, handVars, work, users, players, playerId, roomVars,
                   requests, histVars>>

loadUnPossess(t) ==
    /\ unPossess(t.conn, t)
    /\ loads' = (loads \ {t}) \cup
                  {n \in {UnPossessing(t.conn, t)} : n.at # "unPossessed"}
    /\ UNCHANGED <<connVars, work, users, players, playerId, roomVars, requests,
                   histVars>>

-----------------------------------------------------------------------------
(* The room thread, which does one thing to an object at a time.           *)

AtRest(o) == o \notin expired \cup finalizing

\* Player::enterWorld, asked for by the client that possesses the player.
enterWorld(o) ==
    /\ room[o] = "none" /\ Alive(o) /\ AtRest(o)
    /\ \E c \in Conns : owner[o] = c /\ avatar[c] = o /\ socket[c] = "open"
    /\ room' = [room EXCEPT ![o] = "in"]
    /\ UNCHANGED <<connVars, handVars, work, users, players, playerId, leaving,
                   saving, finalizing, expired, loads, requests, histVars>>

\* CloseComponent::update, in every frame the object still spends in the room:
\* the check, and what follows from it.
closeExpired(o) ==
    /\ timer[o] /\ InRoom(o) /\ AtRest(o)
    /\ expired' = expired \cup {o}
    /\ UNCHANGED <<connVars, handVars, work, users, players, playerId, room,
                   leaving, saving, finalizing, loads, requests, histVars>>

closeTimeout(o) ==
    /\ o \in expired
    /\ expired' = expired \ {o}
    /\ room' = [room EXCEPT ![o] = "leaving"]
    /\ players' = [players EXCEPT ![playerId[o]] = None]
    /\ UNCHANGED <<connVars, handVars, work, users, playerId, leaving, saving,
                   finalizing, loads, requests, histVars>>

\* reconnectOldPlayerProcess leaves the manager and starts a save, whose
\* callback, on success or failure, is leaveWorld and finalize.
reconnectOld(o) ==
    /\ o \in leaving /\ AtRest(o)
    /\ leaving' = leaving \ {o}
    /\ saving' = saving \cup {o}
    /\ players' = [players EXCEPT ![playerId[o]] = None]
    /\ UNCHANGED <<connVars, handVars, work, users, playerId, room, finalizing,
                   expired, loads, requests, histVars>>

\* The callback up to the removal of CloseComponent::finalize from
\* PlayerCloseManager; the timer stays as it is.
reconnectSaved(o) ==
    /\ o \in saving /\ AtRest(o)
    /\ saving' = saving \ {o}
    /\ room' = [room EXCEPT ![o] = IF @ = "in" THEN "leaving" ELSE @]
    /\ waiting' = [a \in Accounts |-> IF a = closedUser[o] THEN None ELSE waiting[a]]
    /\ finalizing' = IF closedUser[o] = None THEN finalizing
                     ELSE finalizing \cup {o}
    /\ UNCHANGED <<connVars, avatar, owner, closedUser, timer, work, users, players,
                   playerId, leaving, expired, loads, requests, histVars>>

finalize(o) ==
    /\ o \in finalizing
    /\ finalizing' = finalizing \ {o}
    /\ closedUser' = [closedUser EXCEPT ![o] = None]
    /\ UNCHANGED <<connVars, avatar, owner, waiting, timer, work, users, players,
                   playerId, room, leaving, saving, expired, loads, requests,
                   histVars>>

\* The room, which is not in src, drops an object marked removable.
leaveRoom(o) ==
    /\ room[o] = "leaving" /\ AtRest(o)
    /\ room' = [room EXCEPT ![o] = "left"]
    /\ UNCHANGED <<connVars, handVars, work, users, players, playerId, leaving,
                   saving, finalizing, expired, loads, requests, histVars>>

-----------------------------------------------------------------------------
Client ==
    \E c \in Conns :
        \/ accept(c) \/ disconnect(c)
        \/ \E a \in Accounts : loginReq(c, a)
        \/ \E pid \in Players : dataReq(c, pid)

Login == \E c \in Conns : loginInsert(c) \/ loginSetId(c) \/ onClosed(c)

Close ==
    \E p \in Procs :
        \/ closeCheck(p) \/ closeSetFlag(p) \/ closeUnPossess(p) \/ closeRemove(p)
        \/ closeSocket(p)

Data ==
    \E c \in Conns :
        \/ dataRemoveDead(c) \/ dataFind(c) \/ dataPossess(c) \/ dataGetRoom(c)
        \/ dataSwap(c) \/ dataSwapRoom(c) \/ dataReply(c)

Load == \E t \in loads : load(t) \/ loadPossess(t) \/ loadFail(t) \/ loadUnPossess(t)

Room ==
    \E o \in Objects :
        \/ enterWorld(o) \/ closeExpired(o) \/ closeTimeout(o)
        \/ reconnectOld(o) \/ reconnectSaved(o) \/ finalize(o) \/ leaveRoom(o)

Next == Client \/ keepAlive \/ Login \/ Close \/ Data \/ Load \/ Room

Spec == Init /\ [][Next]_vars

-----------------------------------------------------------------------------
(* Properties.                                                             *)

Quiet == \A p \in Procs : work[p].at = "idle"
LoggedIn(c) == userId[c] # None /\ ~processed[c]

\* With no handler under way UserManager holds exactly the logged-in
\* connections, whatever the threads of the network did, but for the two races
\* the code has: a connection whose entry the late close of another one
\* removed, and one that was closed between the insert of its login and setId
\* (PktLoginReqHandler.cpp:60-69), whose entry is never removed.
RegistryIsExact ==
    Quiet => \A a \in Accounts, c \in Conns :
        /\ users[a] = c => userId[c] = a /\ (LoggedIn(c) \/ c \in unnamed)
        /\ LoggedIn(c) /\ userId[c] = a => users[a] = c \/ c \in robbed

\* Somebody is giving o an owner or taking one from it.
Changes(w, o) ==
    w.player = o /\ w.at \in DOMAIN PossessOrder \cup DOMAIN UnPossessOrder
Changing(o) ==
    \/ \E p \in Procs : Changes(work[p], o)
    \/ \E t \in loads : Changes(t, o)

\* A player that has an owner and is not just changing hands is neither
\* counting down to its removal nor marked as closed, in whatever order the
\* handler, the database task and the close of its connections did their
\* accesses (User.cpp:120-150, CloseComponent.cpp:63-86).
PlayedIsNotTimed ==
    \A o \in Objects :
        owner[o] # None /\ ~Changing(o) => ~timer[o] /\ closedUser[o] = None

\* With no handler and no load under way, a player of the world that waits in
\* PlayerCloseManager is counting down: "Key: the ID of the disconnected user
\* in its kCloseClearCheckSec wait" (PlayerManager.h:27).
WaitingIsTimed ==
    Quiet /\ loads = {} =>
        \A a \in Accounts, o \in Objects :
            waiting[a] = o /\ room[o] = "in" /\ AtRest(o) => timer[o]

\* The close of one connection removes only its own entry of UserManager:
\* "it prevents the later close event of the socket from affecting the new
\* connection" (User.cpp:208).
NewLoginUnaffected ==
    [][\A p \in Procs : \A c \in Conns : \A a \in Accounts :
          closeRemove(p) /\ users[a] = c /\ users'[a] = None
              => c = work[p].target]_vars
=============================================================================
