--------------------------- MODULE BundleLifeCycle ---------------------------
(****************************************************************************)
(* What the aggregator promises of the bundles that were added to it, seen  *)
(* from outside: what a new process would find in the database, and what is *)
(* on chain.  BundleService implements this, with its query groups, tasks,  *)
(* crashes and undone transactions (aggregator/src/app/BundleService.ts).   *)
(****************************************************************************)
CONSTANT Rows

VARIABLES
    status,     \* of each row, as it would survive a crash
    executed    \* rows of aggregates in blocks that did not revert

vars == <<status, executed>>

Init ==
    /\ status = [r \in Rows |-> "none"]
    /\ executed = {}

\* A bundle is confirmed only once it was executed, and neither a confirmed
\* nor a failed bundle is ever taken up again.
MayBecome(r, new) ==
    \/ new = status[r]
    \/ status[r] = "none" /\ new = "pending"
    \/ status[r] = "pending" /\ new = "failed"
    \/ status[r] = "pending" /\ new = "confirmed" /\ r \in executed

\* One database transaction may do this to several rows.
Commit == \A r \in Rows : MayBecome(r, status'[r])

\* All rows are deleted, and new ones are added.
Reset ==
    \A r \in Rows :
        status'[r] \in IF status[r] = "none" THEN {"none", "pending"} ELSE {"none"}

Execute == executed \subseteq executed'

Next ==
    \/ Commit /\ UNCHANGED executed
    \/ Reset /\ UNCHANGED executed
    \/ Execute /\ UNCHANGED status

Spec == Init /\ [][Next]_vars
=============================================================================
