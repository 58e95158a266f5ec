------------------------------ MODULE MCAccount ------------------------------
EXTENDS Account

\* Bound: what fails between the server and the lobby and what the accounts
\* ask for are not both exhausted in one behaviour.  Once the port is open
\* neither side reads what the other writes.
LinkOrRequests == drops + orders <= MaxOrders
=============================================================================
