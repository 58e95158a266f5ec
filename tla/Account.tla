------------------------------- MODULE Account -------------------------------
(***************************************************************************)
(* A server and its accounts: the lobby connection that lets users in      *)
(* (LobbyLink), the players an account creates and deletes (Roster) and    *)
(* plays (Growth), over the same rows.                                     *)
(***************************************************************************)
EXTENDS LobbyLink, Growth

vars == <<linkVars, rosterVars, growthVars>>

Init == LinkInit /\ RosterInit /\ GrowthInit

\* Users are accepted once onAccepterStart has opened the port.
Next ==
    \/ LinkNext /\ UNCHANGED <<rosterVars, growthVars>>
    \/ opened /\ RosterNext /\ UNCHANGED <<linkVars, growthVars>>
    \/ opened /\ GrowthNext /\ UNCHANGED linkVars

\* The timer loops every 3 seconds, the operating system answers a connect,
\* and a callback that has begun goes on.  Nothing else is fair.
LinkStep(A) == A /\ UNCHANGED <<rosterVars, growthVars>>

Spec ==
    /\ Init /\ [][Next]_vars
    /\ WF_vars(LinkStep(tryToConnect))
    /\ WF_vars(LinkStep(onConnected))
    /\ WF_vars(LinkStep(closedTryConnect))

-----------------------------------------------------------------------------
\* A player of the account's list can be played: whichever insert of its
\* creation fails, and whatever else runs, its representative character and
\* its deck exist and are its own, and equipment has the item it names.
PlayerIsWhole ==
    /\ \A p \in PlayerIds : playerRows[p] # NoRow =>
          /\ deckRows[p] # NoDeck
          /\ playerRows[p].rep \in OwnedRows(p)
    /\ equipRows \subseteq itemRows

\* No deck holds a character twice, in the rows or in memory, though a
\* request is looked at before it is queued and written after, the command
\* that adds characters waits for no slot change in flight, and a new user
\* may read the deck before the old one's is written.
NobodyTwice ==
    \A p \in PlayerIds : /\ ~HasDuplicates(deckRows[p])
                         /\ p \in listed => ~HasDuplicates(mem[p].deck)

\* Points are neither made nor lost, whatever is in flight when.  One that
\* was spent comes back only with all the others
\* (PktStatPointModifyReqHandler.cpp:56), unless its player was taken over
\* by another user before the points were written back: the handler then
\* compares with points of before, as PlayerTxReconnect shows.
NoPartialRefund ==
    [][\A c \in CharIds :
          charRows[c] # NoRow /\ charRows'[c] # NoRow =>
             LET now == charRows[c].points
                 then == charRows'[c].points
             IN /\ Total(then) = StartPoints
                /\ \/ charRows[c].owner \in rushed
                   \/ Spent(then) = 0
                   \/ \A s \in Stats : then.spent[s] >= now.spent[s]]_vars

\* A player is saved in a village, at a location of that village, however it
\* left: closed in a dungeon, replaced by another player, or timed out.
RowNamesVillage ==
    \A p \in PlayerIds : playerRows[p] # NoRow =>
       /\ playerRows[p].place.world \in Villages
       /\ playerRows[p].place.loc = playerRows[p].place.world

\* Whatever was lost, and wherever the timer ran between the callbacks, the
\* server gets back to the lobby.
Reconnects == []<>connected
=============================================================================
