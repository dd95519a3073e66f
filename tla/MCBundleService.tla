-------------------------- MODULE MCBundleService --------------------------
(* Constants of BundleService for TLC.                                      *)
EXTENDS BundleService, TLC

CallSymmetry == Permutations(Calls)

Aggregates == (SUBSET Rows) \ {{}}

NothingReverted == \A n \in DOMAIN mined' : mined'[n].ok

\* Nobody stops the service and no rows are deleted.  Transactions revert after the
\* restart only, which may come before anything else.
RunningNext ==
    \/ TryAggregating \/ CheckFails \/ TimerFires \/ HandleBlock
    \/ AddBundle \/ AddRow \/ AddFails
    \/ Submission
    \/ \E t \in Calls : Task(t)
    \/ Block /\ (restarts = 0 => NothingReverted)
    \/ Restart \/ \E t \in Calls : RestartWhileConfirming(t)

RunningSpec == Init /\ [][RunningNext]_vars /\ Fairness
=============================================================================
