----------------------------- MODULE UnitOfWork -----------------------------
(***************************************************************************)
(* What a caller of CacheTx is promised (src/README.md, section 4.6, "Unit *)
(* of Work"): the changes enlisted in a unit are stored together or not at *)
(* all, the objects in memory follow the stored rows and never run ahead   *)
(* of them, and whoever registered a callback is told the truth.           *)
(***************************************************************************)
CONSTANT Objects                 \* the ORM objects a unit can change

VARIABLES
    unit,       \* the objects whose change is enlisted
    decision,   \* "open", "commit", "abort", or "crashed" with the server
    rows,       \* the objects whose new value is in the database
    members,    \* the objects whose new value the game logic sees
    told        \* the verdicts callbacks were run with

vars == <<unit, decision, rows, members, told>>

Verdicts == {"success", "failure"}

Init ==
    /\ unit = {}
    /\ decision = "open"
    /\ rows = {}
    /\ members = {}
    /\ told = {}

Enlist(o) ==
    /\ decision = "open"
    /\ unit' = unit \cup {o}
    /\ UNCHANGED <<decision, rows, members, told>>

\* The one step that changes the database, for every enlisted object at once.
Commit ==
    /\ decision = "open"
    /\ decision' = "commit"
    /\ rows' = unit
    /\ UNCHANGED <<unit, members, told>>

Abort ==
    /\ decision = "open"
    /\ decision' = "abort"
    /\ UNCHANGED <<unit, rows, members, told>>

\* The owner of some of the objects sees their new values.
Publish(some) ==
    /\ decision = "commit"
    /\ members' = members \cup some
    /\ UNCHANGED <<unit, decision, rows, told>>

TellSuccess ==
    /\ decision = "commit"
    /\ members = rows
    /\ told' = told \cup {"success"}
    /\ UNCHANGED <<unit, decision, rows, members>>

TellFailure ==
    /\ decision = "abort"
    /\ told' = told \cup {"failure"}
    /\ UNCHANGED <<unit, decision, rows, members>>

\* The process dies; after the restart the objects are loaded from their rows.
Crash ==
    /\ decision # "crashed"
    /\ decision' = "crashed"
    /\ members' = rows
    /\ UNCHANGED <<unit, rows, told>>

Next ==
    \/ \E o \in Objects : Enlist(o)
    \/ Commit \/ Abort
    \/ \E some \in SUBSET unit : Publish(some)
    \/ TellSuccess \/ TellFailure
    \/ Crash

Spec == Init /\ [][Next]_vars
=============================================================================
