------------------------------ MODULE LobbyLink ------------------------------
(***************************************************************************)
(* LobbyClient: the connection of the game server to the lobby server, and *)
(* GameServer::onAccepterStart, which lets users in once it has been made. *)
(* The timer, and the callbacks of the socket, run on different threads;   *)
(* Core::Client (connect, _connected = true, close) is not in src and is   *)
(* modelled from how LobbyClient uses it.                                  *)
(***************************************************************************)
EXTENDS Integers

CONSTANT MaxDrops       \* bound: failures and losses of the connection

ASSUME LinkAssumption == MaxDrops \in Nat

VARIABLES
    connected,      \* _connected
    tryConnect,     \* _tryConnect
    attempts,       \* connects that Core::Client has not answered yet
    closing,        \* onClosed between its two assignments
    opened,         \* isInit: users are accepted
    drops           \* failures so far, for MaxDrops

linkVars == <<connected, tryConnect, attempts, closing, opened, drops>>

LinkInit ==
    /\ connected = FALSE /\ tryConnect = FALSE /\ attempts = 0
    /\ closing = FALSE /\ opened = FALSE /\ drops = 0

\* The timer of start, every 3 seconds, and a connect that began.
tryToConnect ==
    /\ ~connected /\ ~tryConnect
    /\ tryConnect' = TRUE /\ attempts' = attempts + 1
    /\ UNCHANGED <<connected, closing, opened, drops>>

\* The same tick when connect returns FALSE.
connectRefused ==
    /\ ~connected /\ ~tryConnect /\ drops < MaxDrops
    /\ drops' = drops + 1
    /\ tryConnect' = FALSE
    /\ UNCHANGED <<connected, attempts, closing, opened>>

\* Core::Client sets _connected and calls onConnected; the acceptor may fail
\* to open its port, which stops the server (not modelled).
onConnected ==
    /\ attempts > 0
    /\ attempts' = attempts - 1
    /\ connected' = TRUE /\ tryConnect' = FALSE
    /\ opened' = TRUE
    /\ UNCHANGED <<closing, drops>>

\* Mutant of onConnectFailed: the flag stays set.
onConnectFailedStuck ==
    /\ attempts > 0 /\ drops < MaxDrops
    /\ drops' = drops + 1
    /\ attempts' = attempts - 1
    /\ UNCHANGED <<connected, tryConnect, closing, opened>>

onConnectFailed ==
    /\ attempts > 0 /\ drops < MaxDrops
    /\ drops' = drops + 1
    /\ attempts' = attempts - 1 /\ tryConnect' = FALSE
    /\ UNCHANGED <<connected, closing, opened>>

\* onClosed clears the one flag, then the other; the timer may run between.
onClosed ==
    /\ connected /\ ~closing /\ drops < MaxDrops
    /\ drops' = drops + 1
    /\ connected' = FALSE /\ closing' = TRUE
    /\ UNCHANGED <<tryConnect, attempts, opened>>

closedTryConnect ==
    /\ closing
    /\ closing' = FALSE /\ tryConnect' = FALSE
    /\ UNCHANGED <<connected, attempts, opened, drops>>

LinkNext ==
    \/ tryToConnect \/ connectRefused \/ onConnected \/ onConnectFailed
    \/ onClosed \/ closedTryConnect
=============================================================================
