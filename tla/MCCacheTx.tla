------------------------------ MODULE MCCacheTx ------------------------------
(* Two rooms and two objects: a unit spans managers, or a manager owns both *)
(* objects; one object is enough where only modes and progress differ.      *)
EXTENDS CacheTx

CONSTANTS m1, m2, o1, o2, noRoom

MCManagers == {m1, m2}
MCObjects == {o1, o2}
MCOneObject == {o1}
MCSourcesInRooms == {m1, m2}
MCSources == {m1, m2, noRoom}
MCDefault == {"AsyncDB_AsyncCallback"}
MCAll == ETxSyncType
=============================================================================
