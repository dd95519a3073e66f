--------------------------- MODULE MCTransactions ---------------------------
(* Constants of Transactions for TLC. *)
EXTENDS Transactions

CONSTANTS t1, t2

\* Either two transactions are asked for and no page is open, or one is, with its
\* receipts, and pages open.
NarrowNext ==
    \/ Step
    \/ \E p \in Pages : request[t2] = "none" /\ OpenPage(p) /\ UNCHANGED txVars
    \/ \E i \in Ids : (i = t1 \/ Open = {}) /\ CreateTransaction(i)
    \/ \E i \in Ids, n \in 1 .. MaxReceipts : Open # {} /\ GetReceipt(i, n)

NarrowSpec == Init /\ [][NarrowNext]_vars /\ Fairness
=============================================================================
