---------------------------- MODULE BundleService ----------------------------
(****************************************************************************)
(* The aggregator (aggregator/src/app/BundleService.ts, SubmissionTimer.ts, *)
(* runQueryGroup.ts, helpers/Mutex.ts, AdminService.ts): bundles are added  *)
(* to a table; a submission picks eligible rows, has the aggregation        *)
(* strategy choose among them, and starts a task that submits the aggregate *)
(* and confirms its rows.                                                   *)
(*                                                                          *)
(* One process runs all of this on one thread.  It can switch at an await   *)
(* only, so each action is the code between two awaits.  Adding a row and   *)
(* running a submission are query groups: they hold a mutex and a database  *)
(* transaction, over several awaits.                                        *)
(*                                                                          *)
(* An exception in a submission is not caught: the process ends, like in    *)
(* any crash, and is started again (Restart).                               *)
(****************************************************************************)
EXTENDS BundleTable, EthereumService

CONSTANTS
    bundleQueryLimit,
    breakevenOperationCount,   \* each bundle has one operation
    maxUnconfirmedAggregations,
    maxEligibilityDelay,
    MayLeaveOut,   \* whether the strategy may leave out every row
    MaxChecks,     \* bound on the calls of tryAggregating at one time
    MaxAdds,       \* bound on the bundles being added at one time
    MaxRestarts    \* bound on the restarts of the process

ASSUME ServiceAssumption ==
    /\ Bundles = (SUBSET Rows) \ {{}}
    /\ NoBundle = {}
    /\ IsFiniteSet(Calls)
    /\ bundleQueryLimit \in Nat \ {0}
    /\ breakevenOperationCount \in Nat \ {0}
    /\ maxUnconfirmedAggregations \in Nat \ {0}
    /\ maxEligibilityDelay \in Nat
    /\ MayLeaveOut \in BOOLEAN
    /\ {MaxChecks, MaxAdds, MaxRestarts} \subseteq Nat

VARIABLES
    rows,                  \* what the database connection sees
    lastId,                \* AUTOINCREMENT
    backup,                \* what ROLLBACK returns to, inside a query group
    group,                 \* the query group that holds the mutex
    queue,                 \* the query groups that wait for the mutex
    checks,                \* calls of tryAggregating that await the block number
    timer,                 \* whether the submission timer is active
    submissionsInProgress, \* calls of runSubmission
    unconfirmedRowIds,     \* rows in aggregates that are being submitted
    permits,               \* permits of the submission semaphore
    stopping,              \* stop() was called
    onChain,               \* rows of aggregates in blocks that did not revert
    restarts,              \* number of restarts
    cutShort               \* history: aggregates confirmed in part

databaseVars == <<rows, lastId, backup>>
mutexVars == <<group, queue>>
timerVars == <<checks, timer, submissionsInProgress>>
submissionVars == <<unconfirmedRowIds, permits>>
vars == <<databaseVars, mutexVars, timerVars, submissionVars, stopping,
          onChain, restarts, cutShort, ethereumVars>>

GroupKinds == {"add", "submission"}
GroupSteps == {"blockNumber", "strategy", "semaphore"}

\* blocks: how many blocks ago the group read the block number.
Groups ==
    [ kind: GroupKinds \union {"none"}, step: GroupSteps, blocks: Nat,
      eligible: SUBSET Rows, included: SUBSET Rows ]

Group(kind) ==
    [ kind |-> kind, step |-> "blockNumber", blocks |-> 0,
      eligible |-> {}, included |-> {} ]

NoGroup == Group("none")

\* Every permit that is not there is a task's.  Once the service is stopping,
\* a task that is not started any more takes its permit with it.
BusyCalls == {t \in Calls : ~At(t, "idle")}

PermitsCounted ==
    LET counted == permits + Cardinality(BusyCalls)
    IN  IF stopping THEN counted <= maxUnconfirmedAggregations
        ELSE counted = maxUnconfirmedAggregations

ServiceTypeOK ==
    /\ EthereumTypeOK
    /\ rows \in [Rows -> Row]
    /\ lastId \in Nat
    /\ backup \in [rows: [Rows -> Row], lastId: Nat]
    /\ group \in Groups
    /\ queue \in Seq(GroupKinds)
    /\ checks \in Nat /\ timer \in BOOLEAN
    /\ submissionsInProgress \in Nat
    /\ unconfirmedRowIds \subseteq Rows
    /\ permits \in 0..maxUnconfirmedAggregations /\ PermitsCounted
    /\ stopping \in BOOLEAN
    /\ onChain \subseteq Rows
    /\ restarts \in Nat
    /\ cutShort \subseteq Bundles

ProcessInit ==
    /\ group = NoGroup /\ queue = <<>>
    /\ checks = 0 /\ timer = FALSE /\ submissionsInProgress = 0
    /\ unconfirmedRowIds = {} /\ permits = maxUnconfirmedAggregations
    /\ stopping = FALSE

Init ==
    /\ EthereumInit
    /\ ProcessInit
    /\ rows = Clear /\ lastId = 0
    /\ backup = [rows |-> Clear, lastId |-> 0]
    /\ onChain = {}
    /\ restarts = 0
    /\ cutShort = {}

-----------------------------------------------------------------------------
(* Query groups                                                             *)

Holds(kind, step) == group.kind = kind /\ group.step = step

Begin == backup' = [rows |-> rows', lastId |-> lastId']

\* A query group starts, or waits behind the others.
Lock(kind) ==
    IF group = NoGroup
    THEN group' = Group(kind) /\ Begin /\ UNCHANGED queue
    ELSE queue' = Append(queue, kind) /\ UNCHANGED <<group, backup>>

\* The next query group starts when the group ends.
Release ==
    IF queue = <<>>
    THEN group' = NoGroup /\ UNCHANGED <<queue, backup>>
    ELSE /\ group' = Group(Head(queue))
         /\ queue' = Tail(queue)
         /\ Begin

-----------------------------------------------------------------------------
(* When to submit                                                           *)

\* addTask(tryAggregating), when runs submissions are in progress.
StartCheck(runs) ==
    checks' = IF stopping \/ runs > 0 \/ checks = MaxChecks
              THEN checks ELSE checks + 1

SubmittableCount ==
    Cardinality(FindEligible(rows, bundleQueryLimit) \ unconfirmedRowIds)

Trigger ==
    /\ timer' = FALSE
    /\ submissionsInProgress' = submissionsInProgress + 1
    /\ UNCHANGED <<rows, lastId>>
    /\ Lock("submission")

TryAggregating ==
    /\ checks > 0
    /\ checks' = checks - 1
    /\ IF SubmittableCount >= breakevenOperationCount
       THEN Trigger
       ELSE /\ timer' = (SubmittableCount > 0)
            /\ UNCHANGED <<databaseVars, mutexVars, submissionsInProgress>>
    /\ UNCHANGED <<submissionVars, stopping, onChain, restarts, cutShort,
                   ethereumVars>>

CheckFails ==
    /\ checks > 0 /\ Fault("blockNumber")
    /\ checks' = checks - 1
    /\ UNCHANGED <<databaseVars, mutexVars, timer, submissionsInProgress,
                   submissionVars, stopping, onChain, restarts, cutShort,
                   nextNonce, call, mempool, mined>>

TimerFires ==
    /\ timer
    /\ Trigger
    /\ UNCHANGED <<checks, submissionVars, stopping, onChain, restarts,
                   cutShort, ethereumVars>>

\* A new block: handleBlock.
HandleBlock ==
    /\ rows' = NextBlock(rows)
    /\ backup' = [backup EXCEPT !.rows = NextBlock(@)]
    /\ group' = [group EXCEPT
           !.blocks = IF Holds("submission", "strategy") /\ @ < maxEligibilityDelay
                      THEN @ + 1 ELSE @]
    /\ StartCheck(submissionsInProgress)
    /\ UNCHANGED <<lastId, queue, timer, submissionsInProgress, submissionVars,
                   stopping, onChain, restarts, cutShort, ethereumVars>>

-----------------------------------------------------------------------------
(* Adding a bundle                                                          *)

Adds ==
    Cardinality({i \in DOMAIN queue : queue[i] = "add"})
        + (IF group.kind = "add" THEN 1 ELSE 0)

\* A bundle that passed the checks of its signature and nonces.
AddBundle ==
    /\ Adds < MaxAdds /\ lastId + Adds + 1 \in Rows
    /\ UNCHANGED <<rows, lastId>>
    /\ Lock("add")
    /\ UNCHANGED <<timerVars, submissionVars, stopping, onChain, restarts,
                   cutShort, ethereumVars>>

AddRow ==
    /\ group.kind = "add"
    /\ rows' = Add(rows, lastId + 1)
    /\ lastId' = lastId + 1
    /\ StartCheck(submissionsInProgress)
    /\ Release
    /\ UNCHANGED <<timer, submissionsInProgress, submissionVars, stopping,
                   onChain, restarts, cutShort, ethereumVars>>

\* The block number cannot be read: ROLLBACK, the caller gets the error.
AddFails ==
    /\ group.kind = "add" /\ Fault("blockNumber")
    /\ rows' = backup.rows /\ lastId' = backup.lastId
    /\ Release
    /\ UNCHANGED <<timerVars, submissionVars, stopping, onChain, restarts,
                   cutShort, nextNonce, call, mempool, mined>>

-----------------------------------------------------------------------------
(* runSubmission                                                            *)

\* Mutated: rows that are being submitted are not excluded.
FindAllEligibleRows ==
    /\ Holds("submission", "blockNumber")
    /\ group' = [group EXCEPT !.step = "strategy",
                              !.eligible = FindEligible(rows, bundleQueryLimit)]
    /\ UNCHANGED <<databaseVars, queue, timerVars, submissionVars, stopping,
                   onChain, restarts, cutShort, ethereumVars>>

FindEligibleRows ==
    /\ Holds("submission", "blockNumber")
    /\ group' = [group EXCEPT
           !.step = "strategy",
           !.eligible = FindEligible(rows, bundleQueryLimit) \ unconfirmedRowIds]
    /\ UNCHANGED <<databaseVars, queue, timerVars, submissionVars, stopping,
                   onChain, restarts, cutShort, ethereumVars>>

\* A failed row waits twice as long as before, from the block that was read
\* before the strategy ran, or has failed for good.  The whole row is written
\* as it was read then: pending, and not in an aggregate.
HandleFailedRow(row) ==
    IF row.nextEligibilityDelay <= maxEligibilityDelay
    THEN [row EXCEPT
             !.status = "pending",
             !.wait = IF row.nextEligibilityDelay <= group.blocks THEN 0
                      ELSE row.nextEligibilityDelay - group.blocks,
             !.nextEligibilityDelay = 2 * @,
             !.aggregate = {}]
    ELSE [row EXCEPT !.status = "failed", !.aggregate = {}]

\* What the aggregation strategy may answer: rows are checked against the
\* chain, where the nonce of an operation is used once.
StrategyResult(included, failed) ==
    /\ IsResult(group.eligible, included, failed)
    /\ included \intersect onChain = {}
    /\ MayLeaveOut \/ group.eligible = {} \/ included \union failed # {}

RunStrategy(included, failed) ==
    /\ Holds("submission", "strategy")
    /\ StrategyResult(included, failed)
    /\ rows' = Update(rows, [r \in failed |-> HandleFailedRow(rows[r])])
    /\ unconfirmedRowIds' = unconfirmedRowIds \ failed
    /\ UNCHANGED lastId
    /\ IF included = {}
       THEN /\ Release
            /\ submissionsInProgress' = submissionsInProgress - 1
       ELSE /\ group' = [group EXCEPT !.step = "semaphore", !.included = included]
            /\ UNCHANGED <<queue, backup, submissionsInProgress>>
    /\ UNCHANGED <<checks, timer, permits, stopping, onChain, restarts,
                   cutShort, ethereumVars>>

\* With a permit, a task is started that submits the aggregate; no task is
\* started any more when the service is stopping.
SubmitAggregateBundle(t) ==
    /\ Holds("submission", "semaphore")
    /\ permits > 0 /\ At(t, "idle")
    /\ permits' = permits - 1
    /\ unconfirmedRowIds' = unconfirmedRowIds \union group.included
    /\ call' = IF stopping THEN call ELSE Submitted(t, group.included)
    /\ submissionsInProgress' = submissionsInProgress - 1
    /\ StartCheck(submissionsInProgress - 1)
    /\ UNCHANGED <<rows, lastId>>
    /\ Release
    /\ UNCHANGED <<timer, stopping, onChain, restarts, cutShort,
                   nextNonce, mempool, mined, faults>>

-----------------------------------------------------------------------------
(* The task that submits an aggregate                                       *)

\* Mutated: a task that failed keeps its permit.
EndTaskKeepsPermit(t) ==
    /\ call' = [call EXCEPT ![t] = Idle]
    /\ unconfirmedRowIds' = unconfirmedRowIds \ call[t].bundle
    /\ permits' = IF At(t, "failed") THEN permits ELSE permits + 1

\* finally: the rows are not unconfirmed any more, the permit is returned.
EndTask(t) ==
    /\ call' = [call EXCEPT ![t] = Idle]
    /\ unconfirmedRowIds' = unconfirmedRowIds \ call[t].bundle
    /\ permits' = permits + 1

Confirmed(changed, aggregate) ==
    [r \in changed |->
        [rows[r] EXCEPT !.status = "confirmed", !.aggregate = aggregate]]

\* Mutated: one row of the aggregate is not updated.
ConfirmButOne(t) ==
    /\ At(t, "complete")
    /\ \E r \in call[t].bundle :
           rows' = Update(rows, Confirmed(call[t].bundle \ {r}, call[t].bundle))
    /\ EndTask(t)
    /\ UNCHANGED <<lastId, backup, mutexVars, timerVars, stopping, onChain,
                   restarts, cutShort, nextNonce, mempool, mined, faults>>

Confirm(t) ==
    /\ At(t, "complete")
    /\ rows' = Update(rows, Confirmed(call[t].bundle, call[t].bundle))
    /\ EndTask(t)
    /\ UNCHANGED <<lastId, backup, mutexVars, timerVars, stopping, onChain,
                   restarts, cutShort, nextNonce, mempool, mined, faults>>

\* The rows are written one by one, each for itself unless a query group is
\* open: if that is cut short, the first rows are confirmed.
ConfirmPart(t) ==
    LET aggregate == call[t].bundle
    IN  /\ At(t, "complete")
        /\ \E part \in FirstParts(aggregate) :
               rows' = Update(rows, Confirmed(part, aggregate))
        /\ cutShort' = cutShort \union {aggregate}

\* A row cannot be written: the task ends before the others.
ConfirmFails(t) ==
    /\ ConfirmPart(t) /\ Fault("update")
    /\ EndTask(t)
    /\ UNCHANGED <<lastId, backup, mutexVars, timerVars, stopping, onChain,
                   restarts, nextNonce, mempool, mined>>

\* submitBundle threw, or the balance after it cannot be read.
TaskFails(t) ==
    /\ \/ At(t, "failed") /\ UNCHANGED faults
       \/ At(t, "complete") /\ Fault("balance")
    /\ EndTask(t)
    /\ UNCHANGED <<databaseVars, mutexVars, timerVars, stopping, onChain,
                   restarts, cutShort, nextNonce, mempool, mined>>

SubmitBundleStep(t) ==
    /\ Answers(t) \/ Fails(t)
    /\ UNCHANGED <<databaseVars, mutexVars, timerVars, submissionVars,
                   stopping, onChain, restarts, cutShort>>

\* The operations of a transaction's rows are run, or were before.
Block ==
    /\ Mine
    /\ LET receipt == mined'[Len(mined')]
       IN  onChain' = IF receipt.ok THEN onChain \union receipt.bundle
                       ELSE onChain
    /\ UNCHANGED <<databaseVars, mutexVars, timerVars, submissionVars,
                   stopping, restarts, cutShort>>

-----------------------------------------------------------------------------
(* The process                                                              *)

\* Only tests stop the service.
Stop ==
    /\ ~stopping
    /\ stopping' = TRUE
    /\ UNCHANGED <<databaseVars, mutexVars, timerVars, submissionVars,
                   onChain, restarts, cutShort, ethereumVars>>

\* AdminService.resetBundles deletes the rows, whatever runs.
ResetBundles ==
    /\ \E r \in Rows : Present(rows, r)
    /\ rows' = Clear
    /\ UNCHANGED <<lastId, backup, mutexVars, timerVars, submissionVars,
                   stopping, onChain, restarts, cutShort, ethereumVars>>

\* A new process.  The nonce is read from the blocks.
ProcessStarts ==
    /\ restarts < MaxRestarts
    /\ restarts' = restarts + 1
    /\ backup' = [rows |-> rows', lastId |-> lastId']
    /\ group' = NoGroup /\ queue' = <<>>
    /\ checks' = 0 /\ timer' = FALSE /\ submissionsInProgress' = 0
    /\ unconfirmedRowIds' = {} /\ permits' = maxUnconfirmedAggregations
    /\ stopping' = FALSE
    /\ call' = [t \in Calls |-> Idle]
    /\ nextNonce' = Len(mined)
    /\ UNCHANGED <<onChain, mempool, mined, faults>>

\* The process ended; its transaction did not take place, those it sent to
\* the chain may.
Restart ==
    /\ IF group = NoGroup
       THEN UNCHANGED <<rows, lastId>>
       ELSE rows' = backup.rows /\ lastId' = backup.lastId
    /\ UNCHANGED cutShort
    /\ ProcessStarts

\* It ended between two rows of an aggregate, outside a transaction.
RestartWhileConfirming(t) ==
    /\ group = NoGroup
    /\ ConfirmPart(t) /\ UNCHANGED lastId
    /\ ProcessStarts

-----------------------------------------------------------------------------

Submission ==
    \/ FindEligibleRows
    \/ \E included \in SUBSET group.eligible, failed \in SUBSET group.eligible :
           RunStrategy(included, failed)
    \/ \E t \in Calls : SubmitAggregateBundle(t)

Task(t) == SubmitBundleStep(t) \/ Confirm(t) \/ ConfirmFails(t) \/ TaskFails(t)

Next ==
    \/ TryAggregating \/ CheckFails \/ TimerFires \/ HandleBlock
    \/ AddBundle \/ AddRow \/ AddFails
    \/ Submission
    \/ \E t \in Calls : Task(t)
    \/ Block
    \/ Stop \/ ResetBundles \/ Restart
    \/ \E t \in Calls : RestartWhileConfirming(t)

Spec == Init /\ [][Next]_vars

\* The node answers every await, blocks are produced, and a timer that is
\* not cleared fires.
Fairness ==
    /\ WF_vars(TryAggregating) /\ WF_vars(TimerFires) /\ WF_vars(HandleBlock)
    /\ WF_vars(AddRow) /\ WF_vars(Submission) /\ WF_vars(Block)
    /\ \A t \in Calls : WF_vars(Answers(t) /\ SubmitBundleStep(t))
                      /\ WF_vars(Confirm(t) \/ TaskFails(t))

-----------------------------------------------------------------------------
(* Properties                                                               *)

\* No row is in two aggregates at one time, while the process runs: whatever
\* checks, timers and submissions overlap, an operation is submitted again
\* only after the task that submitted it has ended (unconfirmedRowIds).
SubmittedOnce ==
    \A t, u \in Calls : t # u => call[t].bundle \intersect call[u].bundle = {}

\* A row says "confirmed" only if an aggregate with it is in a block and did
\* not revert, whichever answers of the node were lost, and whichever
\* submissions of the row before this one failed (submitAggregateBundle).
ConfirmedIsOnChain ==
    \A r \in Rows : rows[r].status = "confirmed" => r \in onChain

\* From one confirmed row all rows of its aggregate are found that were not
\* deleted: the confirmed rows of an aggregate are all of its rows, unless a
\* failed write or a crash cut its confirmation short.  Then they are its first
\* rows, and no later submission of the others adds to them or takes them
\* apart (submitAggregateBundle, lookupAggregateBundle).
AggregateIsWhole ==
    \A r \in Rows :
        rows[r].status = "confirmed" =>
            LET aggregate == rows[r].aggregate
                found == FindAggregateBundle(rows, aggregate)
            IN  /\ found \subseteq aggregate
                /\ \A q \in aggregate :
                       \/ q \in found
                       \/ ~Present(rows, q)
                       \/ aggregate \in cutShort /\ r < q

\* What a new process finds in the database.
Durable == IF group = NoGroup THEN rows ELSE backup.rows

LifeCycle == INSTANCE BundleLifeCycle WITH
    status <- [r \in Rows |-> Durable[r].status],
    executed <- onChain

\* The service implements the life cycle of bundles: a bundle that is confirmed
\* for good was executed, and neither it nor a failed one is taken up again, by
\* a submission that writes back the row it read before, by the rollback of a
\* transaction it is part of, or by a restart (runSubmission, runQueryGroup).
LifeCycleOfBundles == LifeCycle!Spec

\* A bundle that was added is confirmed, has failed or is deleted in the end,
\* whichever checks were skipped, timers cleared, submissions failed and
\* confirmations undone (tryAggregating, runSubmission, handleFailedRow).
EveryRowSettles ==
    \A r \in Rows : rows[r].status = "pending" ~> rows[r].status # "pending"
=============================================================================
