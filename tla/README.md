# BLS Wallet in TLA+

Specifications of the core of BLS Wallet, the TLC runs that check them and the
theorems that TLAPS proves about them. Source paths are relative to the
repository's root.

- [The system](#the-system): components, their state, how they interact
- [The modules](#the-modules): what models what
- [The runs](#the-runs): questions, bounds, fairness
- [The proofs](#the-proofs)
- [Where the code and its documents disagree](#where-the-code-and-its-documents-disagree)
- [What is not modelled, and the plan](#what-is-not-modelled-and-the-plan)

To repeat everything, in this directory:

    tlc -workers 2 -config Transactions.cfg MCTransactions      # and so on, see the runs
    tlapm VerificationGatewayProofs.tla                         # and so on, see the proofs

## The system

A user's wallet is a contract. It does what operations say that are signed with
a BLS key; many users' operations travel in one bundle with one aggregated
signature. An *aggregator* collects bundles, joins them into an aggregate
bundle, and sends that to the chain, where the *VerificationGateway* checks the
signature and passes each operation to its wallet.

    extension / dapp -> clients -> aggregator --> expanders --> VerificationGateway --> BLSWallet
       keys, cells      sign,      BundleService   decompress   keys <-> wallets,       nonce, actions,
                        compress   EthereumService              week-long delays        guarded settings

| component | state | operations | what is hard |
|---|---|---|---|
| VerificationGateway (`contracts/contracts/VerificationGateway.sol`) | which key controls which wallet, in three mappings; keys that wait a week | processBundle, setBLSKeyForWallet, setPendingBLSKeyForWallet, recoverWallet, walletAdminCall, setTrustedBLSGateway | operations call back into the gateway, to any depth, and may revert at any depth; mappings that must agree through creations, key changes, recoveries |
| BLSWallet (`BLSWallet.sol`) | nonce; trusted gateway, recovery hash and admin call, each with a waiting successor | performOperation, setAnyPending, recover, setters | nonce against reentrancy and rollback; a week's wait, asked again, recovered from |
| BundleService (`aggregator/src/app/BundleService.ts`) with SubmissionTimer, Mutex, runQueryGroup, Semaphore | rows that are being submitted, permits, a timer, submissions in progress, query groups | add, tryAggregating, runSubmission, handleFailedRow, submitAggregateBundle, stop | everything awaits: checks, timers, groups and tasks interleave; transactions of one database connection; crashes |
| BundleTable (`BundleTable.ts`) | rows with status, eligibility and aggregate | add, update, findEligible, lookups, clear | rows are written back as a whole, as they were read |
| EthereumService (`EthereumService.ts`) | the next nonce | submitBundle, NextNonce, GasConfig | answers that are lost before or after the effect; retries; nonces in sequence |
| AggregationStrategy (`AggregationStrategy.ts`) | none between runs | run: filter, rounds, loss prevention | conflicts in a cycle, rounding of shares, a chain that moves between checks |
| AdminService, HTTP routers, proxy | none | resetBundles; the rest reads | rows deleted under a running submission |
| expanders, registries, VLQ, PseudoFloat | registries: an id per registered address or key | decompress bundles | formats of two code bases that must agree |
| clients (`contracts/clients/src`) | a key, a wallet address | sign, compress, send | encoders that must agree with the expanders |
| stored cells of the extension (`extension/source/cells`) | a versioned value in local storage; what each context saw last | read, write, update, iterate | every read and write awaits the browser; several contexts |
| transactions of the extension (`TransactionsController.ts`, `AggregatorController.ts`) | the list of transactions, in a stored cell | createTransaction, promptUser, status and hash updates, eth_sendTransaction | lists that are read, edited and written back awaits later; several popups at once |
| derived cells (`extension/source/cells/FormulaCell.ts`) | who reads, a loop over the inputs, its last value | read, iterate, stop; the formula returns or throws | readers come and go while a formula awaits a node; they are counted, with half a second's delay; the loop must run exactly while somebody reads |
| long polling (`LongPollingCell.ts`, `LongPollingController.ts`) | the page's value and the poll it can cancel; the background's open polls | poll, answer, time out, cancel | answers cross cancellations, and the loop of one view outlives it into the next |
| rest of the extension | keyring, preferences, network | keys added, network changed | as transactions, encrypted |

What makes each part correct, and is checked: one key controls a wallet and
guarded changes wait; each nonce is used once; a row is submitted once at a
time, confirmed only when it is on chain, and settles in the end; a submission
returns its own receipt; an aggregate has no conflicting operations and pays for
itself at breakeven; only what the user approved is sent; a page shows what is
stored, or what a formula gives, and a formula nobody reads is not computed.

## The modules

| module | models | its actions |
|---|---|---|
| `BLSWallet` | the storage of a wallet; each method as an operator from storage to storage | used by `VerificationGateway` |
| `VerificationGateway` | both contracts and the call stack of a transaction | one per external method; `PerformOperation`, `OperationSucceeds`, `OperationReverts`, `BundleEnds`, `BundleReverts` for the frames; `Tick` |
| `BundleTable` | the queries on the table of bundles | used by `BundleService` |
| `EthereumService` | submitBundle, one step per await, with nonces, pool and blocks | `NextNonce`, `GasConfig`, `SendTransaction`, `NonceError`, `ResponseError`, `Complete`, `WaitError`, `Retry`, ...; `Mine` is the chain |
| `BundleService` | the aggregator process; EXTENDS both of the above, so that a task of the service *is* a call of submitBundle | one per piece of code between two awaits |
| `BundleLifeCycle` | what the service promises of bundles: a status that only goes forward, and is confirmed only after execution | `Commit`, `Reset`, `Execute`; implemented by `BundleService` |
| `StrategyContract` | what the service expects of a strategy: one answer, a partition of rows it was given | `Answer`; implemented by `AggregationStrategy` |
| `AggregationStrategy` | one run of the strategy | `FilterRows`, `CheckCandidates`, `ConsiderRow`, `RoundEnds`, `CheckAggregate` |
| `Encodings` | the number formats, encoded by the clients and decoded by the contracts | used by `Expanders` |
| `Expanders` | the registries, the client that compresses a bundle, the delegator and the expanders | `RegisterAddress`, `RegisterKey`, `RegisterBoth`, `RegisterExpander`, `AddCompressor`, `StartCompress`, `CompressOperation`, `Compress`; expanding (`Run`) is a function of the state |
| `StorageCells` | a stored cell: the browser, its queues, pages that show the cell | `BrowserGets`, `BrowserSets`, `OpenPage`, `HandleChange`, `CellRead`, `IteratorRead` |
| `Transactions` | EXTENDS it with the controllers that update the cell, the popups and their user | `ControllerRead`, `UpdateRead`, `WriteRead` for an update; one per await of a request; `Press`, `ClosePopup` |
| `FormulaCell` | a derived cell: its loop, its readers, their count | `InputUpdates`, `FormulaReturns`, `FormulaThrows`; `ForEach`, `NextValue`, `Read`, `Stop`; `DecrementIterators` |
| `LongPolling` | EXTENDS it with the page and its polls, which are iterations of the cell | `FirstIterator`, `ZeroIterators`, `PageGets` in the page; `PollArrives`, `PollHandles`, `PollTimesOut`, `PollCancelled`, `PollEnds` in the background |
| `...Proofs` | theorems about the module they are named after | |
| `MC...` | values of constants and narrower next-state relations for TLC | |

**Contracts.** A key stands for its hash, a signature for who signed what. A
bundle is a sequence of operations; what an operation does is not part of it but
chosen while its frame is on the stack: its owner signed it, whatever it is. A
frame keeps the storage to return to when it reverts, so a revert anywhere undoes
exactly what ran above it. A revert ends the frames above it one by one: a nested bundle's makes the
operation that called it fail too (`BundleReverts`), or only itself, when a contract
between the two catches it. A call that leaves the storage as it is has no action.
A wallet may move to another gateway, whose code is not known: whatever
the wallet lets its gateway do, that one may do at any time (`ForeignOperation`, `ForeignCall`),
in a transaction of its own or called by an operation (`MayEnter`).
`history` is not in the code; it remembers which nonces were performed and when
guarded changes were asked for.

**Aggregator.** TypeScript runs on one thread and switches at an await only, so
an action is the code between two awaits. A query group is the mutex together
with the SQL transaction: `backup` is what ROLLBACK returns to. The connection is
shared, so a task that confirms rows writes into whatever transaction is open;
that is why a confirmation may be undone. It writes them row by row, in the order of the table
and awaiting nothing else, so the rows are confirmed in one step (`Confirm`) unless a write fails (`ConfirmFails`)
or the process ends between two (`RestartWhileConfirming`); then the first ones are
confirmed and the others are not. `cutShort` is not in the code and remembers the aggregates
to which that happened. A write that fails changes nothing; only a task's fail by the
fault "update", the others share the faults of their groups. Block numbers are relative (`wait` is
eligibleAfter minus the current block), which keeps the state finite. An
exception inside runSubmission is caught nowhere and ends the process; `Restart`
stands for this as for any other crash. A bundle in the model has one operation,
and its hash is its row's id.

The node is external. It refuses used nonces and nonces whose predecessors it has
not seen, mines in the order of nonces, and fails in the ways listed in
`FaultKinds`; a constant selects the kinds, another bounds their number.

BundleService takes of the strategy only what `StrategyResult` says: rows from
the eligible ones, none both included and failed, and none included that is on
chain already. The first two are `IsResult` of `BundleTable`, which `StrategyContract` promises and
`AggregationStrategy` is shown to keep (`MeetsContract`); the third is the simulation of each row on the
chain, where an operation whose nonce is used fails.

**Abstractions.** `BundleLifeCycle` has two variables: the status each row would have
after a crash, and the rows that were executed. `BundleService` refines it
(`LifeCycleOfBundles`) with `status` as the rows outside, or behind, the open query
group (`Durable`) and `executed` as what is on chain. Inside a group rows change freely, but they
become visible at COMMIT only, and a ROLLBACK takes a confirmation back only if
it was never durable. `StrategyContract` is refined by `AggregationStrategy` with an
answer once the run is over; that it is over at some time is part of it.

**Strategy.** A row has operations (pairs of key and nonce) and every simulation
of it chooses anew whether it succeeds, its gas and its fee. One unit of gas costs
one unit of fee. The breakeven count is a fraction, as in the code (4.5 by
default), and shares of the overhead are rounded as in the code. Rows are kept as sets: the code's lists of
them are always in the order of their ids, which `First` restores.

**Compression.** A stream is a sequence of bytes and of fixed-width words (keys,
addresses, encoded calls), so numbers are encoded and decoded byte by byte and
everything else is copied. A compressor's output is the list of fields it
encodes (`Fields`), and one step encodes the fields up to its next lookup in a
registry: others register in between. `zero` is both the address zero and the key of four
zeros: anyone may register them, and their ids are refused. Ids start at `FirstAddressId` and
`FirstKeyId`, registered before by others, so that ids of every length occur.

**Extension.** The background page and every other page are contexts with one thread
each; a context's requests to local storage are answered in their order, and a write
is sent without being awaited. A change event only makes a page read again. An update
of the list is three reads and a write, so other updates get in between. What
is kept of a transaction is its status and whether its hashes are known. A popup
has a cell like any page; of it only whether it shows its transaction is kept. The
popup may be used or closed before the background listens to it.

**Derived cells.** An event and all promises it resolves are one action, because they run
before the next event. What takes time is an action of its own: a timer, a formula, a
consumer that handles a value, an input that is heard of. `iteratorCount` is kept as the code
keeps it; who is counted is told from the iterators' and calls' states
(`CountsReaders`). An iterator is one call of forEach, or one poll in the background; a
call is a plain read. `hearsEnd` is whether the iterator still listens to the cell's end, which
it stops doing at its first change. An input is written at any time: of `TimeCell` only its writes are
modelled, not when its timer makes them. A poll is taken up by the background when the iterator's place
is free, so one that arrives while the former iterator still leaves waits for it (`PollArrives`). `MCLongPolling` runs either readers or a page, not both.

## The runs

Every property of a passing run has a mutant: a changed definition (marked
*Mutated* in its module) under which TLC finds the property violated.

| cfg | module | checks | shows |
|---|---|---|---|
| `WalletChanges` | `MCWalletChanges` | TypeOK, ControllerSigns, EachNonceOnce, DeployedIffRegistered, KeyChangesWait, GuardedChangesWait | two scenarios. Keys: two keys move between two wallets by timed changes and recoveries, with bundles inside operations of bundles, four frames deep, failing anywhere. Settings: recovery hashes, gateways, admin calls asked for, asked again, recovered from; a wallet at another gateway, which may send it back, or to address zero. One key controls a wallet; no nonce is used twice, none is skipped; a change waited its week and is the last one asked for |
| `SignedWallet` | `MCVerificationGateway` | RunsOnSignedWallet (violated) | see below |
| `Aggregator` | `MCBundleService` | ServiceTypeOK, SubmittedOnce, OwnReceipt, AggregateIsWhole, LifeCycleOfBundles | the whole process with two calls of submitBundle at a time, stop and resetBundles, and any one fault |
| `Settling` | `MCBundleService` | ConfirmedIsOnChain, AggregateIsWhole, EveryRowSettles, LifeCycleOfBundles | one fault and a restart, each at any step, between the writes of one aggregate's rows too; liveness |
| `NonceGap` | `MCBundleService` | NonceErrorsResolve (violated) | see below |
| `Strategy` | `MCAggregationStrategy` | TypeOK, NoConflicts, SomeRowStays, PaysAtBreakeven, MeetsContract | a cycle of conflicts, rounds, gas limit, rounding, loss prevention |
| `Expanders` | `MCExpanders` | ExpandsToBundle | every path of the three compressors, numbers and ids at the limits of the formats, registrations at any time, of zeros too |
| `PayingCall`, `ZeroAddress` | `MCExpanders` | ExpandsToBundle (violated) | see below |
| `Transactions` | `MCTransactions` | TypeOK, ApprovalsAreTheUsers, NoChangeMissed, ShownInTheEnd | two transactions with their updates interleaved, or one with its receipt while a page opens; liveness |
| `StatusTransitions` | `MCTransactions` | OnlyValidTransitions (violated) | see below |
| `LongPolling` | `MCLongPolling` | LongPollingTypeOK, CountsReaders, ServedWhileRead, IteratesForOpenPolls, ShowsLatest, RestsUnread, PageShowsLatest | readers, or a page's polls, come and go while inputs change and the formula runs, throws or is told to stop; liveness |

**Bounds.** *Contracts*: two keys and two wallets are the least with which a key
can be taken from another wallet; a week is one tick and the clock runs to two (one
wait, and one more after a second request) or six (a move to another gateway, two ticks, and the
same again from there). Nonces, operations of a bundle,
calls of an operation and depth of the stack are bounded by `MaxNonce`, `MaxOps`,
`MaxCalls`, `MaxDepth`: the scenario of keys has depth four, for a bundle inside an operation
inside a bundle inside an operation; that of settings has no nested bundles but all
six ticks. *Aggregator*: two rows make an aggregate of
two, two aggregates of one, and a row that is submitted while another waits; two
permits let both be in flight (`Settling` has one permit, so that the wait for it
matters, and one call, because a permit is held throughout a call). `MaxChecks` = 1 drops a check when one is already waiting, which would
find what the waiting one finds. Only one add is open at a time, next to any number
of submissions. `maxEligibilityDelay` = 1 lets a row fail twice, once with a delay and
once for good. Each of the kinds of fault is in one of the two passing runs, one fault
in a behaviour; `Settling` adds one restart; in it a transaction reverts only after
the restart, which may come first and change nothing, so that the run stays short. The query limit is the number of rows, so that no row waits
behind rows that never fit: that a limit's worth of such rows starves all others
(`BundleService.ts:289`) no document excludes. Call identities are interchangeable (`CallSymmetry`), used in safety
runs only. *Strategy*: four rows of which three conflict in a cycle, two per round.

*Compression*: a word has 24 bits and an exponent ends at 2, so that both limits are within
the numbers TLC has; the code's are 256 and 30. Five registrations are the three
expanders and any two more: an address registered again between two lookups, an
expander registered twice. The bundles are those of `AllBundles`; calls of
tokens in them send no ether, which is what `PayingCall` adds, and none has the address zero, which
is what `ZeroAddress` adds.

*Extension*: two transactions are the least that can overwrite each other; one unheard press
per popup, because the first one heard decides. The page opens only next to a single
transaction, which already writes the cell four times with all of the page's reads in
between; `Transactions` splits its steps that way to stay small.

*Derived cells*: two inputs, so that a record may be incomplete and two changes may fall into one
computation; two iterations and a read overlap in every way, and a second iteration may begin
when the first has gone. Two polls are the loops of two views that overlap. With them one
input changes, and of a change, a timeout and a second view two happen in a behaviour.

**Fairness.** `LongPolling` assumes that timers of half a second fire, that changes of inputs are heard of,
that a formula returns or throws, that consumers handle what they have, and that messages
between page and background arrive. It assumes nothing of readers, viewers and
inputs, and bounds polls that time out (`MaxTimeouts`): a poll lasts five minutes, so not all of
them time out before they get a first value, as a model without time would allow. `Transactions` assumes that the browser answers, and that contexts take answers
and events; nothing of users, popups or the aggregator. `Settling` assumes that the node answers every call of submitBundle, that blocks
are produced and mine what waits, that timers fire unless cleared, and that a
ready continuation runs: the event loop's promise, and the node's. No fairness is
assumed of faults, adds, restarts or deadlines. The run also takes the strategy to
put at least one of the rows it is given into the aggregate or among the failed
(`MayLeaveOut = FALSE`): a row that never fits the gas limit stays pending for ever,
as the comment at `AggregationStrategy.ts:423` says it should. Faults that leave a nonce unused
are not among those of `Settling`: with them rows do not settle (`NonceGap`).
`NonceGap` states the same fairness, so that its counterexample is not a system that
just stops.

`CHECK_DEADLOCK FALSE` is said where the bounded system stops: the run of the
strategy is over, or everything is registered and the bundle compressed.

## The proofs

What TLC finds on small instances TLAPS proves for every value of the constants: any sets of
keys, wallets, rows, transactions, readers and polls, any limits, any bounds. Each
`...Proofs` module extends the module it is about and uses no assumption but those
that module states of its constants (`WalletAssumption` and `GatewayAssumption`;
`EthereumAssumption`, `RowsAssumption` and `ServiceAssumption`; `StrategyAssumption`;
`TransactionsAssumption` and `NoneAssumption`; `FormulaCellAssumption` and `PollsAssumption`;
`EncodingsAssumption` and `ExpandersAssumption`); TLC evaluates all of them in the runs.

| module | theorem | states |
|---|---|---|
| `VerificationGatewayProofs` | `TypeCorrect` | TypeOK |
| | `OneKeyControls` | ControllerSigns: the key that routes to a wallet is the only key registered for it |
| | `Registered` | DeployedIffRegistered: a wallet exists exactly when it is registered, and trusts address zero only if another gateway, to which it had moved, asked for that |
| | `NoReplay` | EachNonceOnce: each nonce below a wallet's nonce was performed by exactly one operation that was not undone |
| | `GuardedChangesAreSlow` | GuardedChangesWait, an action property: guarded settings change a week after the last request |
| | `KeyChangesAreSlow` | KeyChangesWait, an action property: so do keys, or the recovery hash committed to the key that goes |
| `BundleServiceProofs` | `ServiceTypeCorrect` | ServiceTypeOK: with the types, that each permit is free or some task's (`PermitsCounted`) |
| | `NeverSubmittedTwice` | SubmittedOnce: no row in two submissions at a time |
| | `ReceiptsAreOwn` | OwnReceipt: submitBundle returns the receipt of what it sent |
| | `ConfirmedRowsAreOnChain` | ConfirmedIsOnChain |
| | `AggregatesAreWhole` | AggregateIsWhole: of an aggregate all rows are found, or the first ones, if its confirmation was cut short |
| | `ImplementsLifeCycle` | LifeCycleOfBundles: the aggregator refines `BundleLifeCycle` |
| `AggregationStrategyProofs` | `StrategyTypeCorrect` | TypeOK |
| | `AggregatesDoNotConflict` | NoConflicts |
| | `FilterLeavesARow` | SomeRowStays |
| | `AggregatesPay` | PaysAtBreakeven |
| | `AnswersAsAgreed` | Contract!Answers: the safety part of MeetsContract |
| `TransactionsProofs` | `TransactionsTypeCorrect` | TypeOK |
| | `OnlyTheUserApproves` | ApprovalsAreTheUsers |
| | `PagesMissNothing` | NoChangeMissed |
| `FormulaCellProofs` | `ReadersAreCounted` | CountsReaders |
| | `ReadersAreServed` | ServedWhileRead: who awaits a first value has a loop that nobody stopped; who awaits a change has a loop, stopped or not, or the cell has ended; unless the formula has thrown |
| `LongPollingProofs` | `PollsTypeCorrect` | LongPollingTypeOK |
| | `PollsAreCounted`, `PollsAreServed` | CountsReaders and ServedWhileRead again, with polls among the readers |
| | `PollsLeaveTheCell` | IteratesForOpenPolls |
| `ExpandersProofs` | `VLQRoundTrip`, `PseudoFloatRoundTrip`, `RegIndexRoundTrip` | what a client encodes in each number format, the contracts decode |
| | `BitStreamRoundTrip` | the bits a client encodes, the contracts read in the same order, each once |
| | `RegisteredRoundTrip` | a key or an address, other than zero, compressed under one registry expands to itself under any that grew out of it |
| | `RegistrationsStay` | StepExtends, an action property: ids of addresses, keys and expanders stay as they were given |
| `CompressionProofs` | `CompressedBundlesExpand` | ExpandsToBundle, of all bundles that fit (`BundlesFit`) |

None of the properties is inductive alone. What had to be added says why each holds:

**Contracts.** A revert returns to a storage saved in the call
stack, so the invariant `IInv` says of every saved storage what it says of the current one
(`StorageOK`): types; the three mappings agree on every key that routes somewhere
(`RoutesAgree`); a pending signature comes with a key (`PendingKeys`, part of TypeOK); a wallet that is not deployed has nonce zero, no gateway and none waiting
(`Registrations`, `WalletOK`); performed nonces are those below the nonce (`Nonces`). Lemmas say
what each wallet method preserves (`...Settles`), then what each action preserves. For the
week, `WaitInv` adds that whatever waits until a time is the last request for it, made a week
before that time, and still counts (`AsAsked`), again in every saved storage: the
properties are about steps, and follow because a step applies what waits. That nobody but another gateway
makes a wallet trust address zero rests on it too. `AdminOf`, `Create2`'s
injectivity and the disjointness of the zero values are the assumptions that
matter: `Create2` is injective because the salt is the key's hash.

**Aggregator.** `BundleServiceProofs` begins with the half about the node, as lemmas: a call that waits has its own
transaction in the pool or in the block at its nonce (`WaitsForOwn`), and no nonce is in
the pool twice or in pool and block (`PoolOK`). That calls have different nonces is not true,
and not needed: after a crash the first nonces are given again, and the node
refuses the second transaction. For the rows, a task may confirm while a query group is open that is later rolled back, alone or
by a crash, so `TableOK` is said of the rows and of the backup, and `Since` relates the two: since
BEGIN, rows were deleted, or pending ones failed or were confirmed. What a submission has read
stays pending or is deleted (`PendingOrGone`), although it writes whole rows back awaits later: nobody
else writes to them, since they are disjoint from what tasks have in flight
(`GroupOK`, `BundlesUnconfirmed`). Permits are counted
exactly (`PermitsCounted`) until stop() is called; after it a task that is dropped keeps its permit, and
they are only bounded. A task that has confirmed some rows of its aggregate and is cut short
leaves an aggregate in `cutShort`, whose rows that are found come before those that are not. The refinement
goes action by action: a step inside a group stutters, COMMIT is `Commit`, a crash or ROLLBACK
stutters, a block is `Execute`.

**Strategy.** Rows are in one place at most (`OnePlace`); two rows that may still be in the aggregate share only
keys that the filter has not come to (`Apart`), so none when it is done; the best row of a
conflict stays, so some row does (`Stages`). Fees are rounded up per row: with the
denominators multiplied out, what included rows pay beyond their gas covers their share of
the overhead (`SharesPaid`), which at breakeven is all of it. Nothing is assumed of the
rows' operations, not even that there are any.

**Extension.** A list that says of a transaction that it is approved may be in the storage, on its way there,
in an answer or in an update's hands: wherever it is, its user has approved
(`ApprovedInCell`, `ApprovedInUpdates`, `ApprovedByRequests`). A page has an event, a request or
a newer answer to come, or has seen what is stored (`PagesOK`). That whoever awaits an answer
has exactly one request or answer in the queues (`UpdatesAwait`) carries both.

**Derived cells.** The count is the number of iterations begun, reads, delayed decrements and those lost for good
(`Counted`); a cell has no value yet only while somebody reads it (`CellOK`), so its count is not zero and its loop
has not been told to stop. Polls are iterations, so `PollingInv` is the same invariant with the
page's types and `IteratesForOpenPolls`.

**Compression.** The encoders and decoders are recursive functions of numbers or of positions. That such a function
exists is itself a lemma (`RecursionExists`: two partial functions defined by the same recursion agree, so
their union is the whole), and what holds of it follows by `StrongInduction`. A variable-length number
is decoded to the value of its segments, which is the number (`SegmentsAddUp`); the exponent of a
pseudo-float is unique, so the mantissa times its power is what was encoded (`PartsMultiply`); the
lowest bit is the first (`FirstBitIsLowest`). Each round trip is stated for any stream that starts
with the encoding and leaves what follows it. An id is the last position at which a value was
registered, and a registry only grows at its end (`StepExtends`), so the id finds the value later.

`CompressionProofs` puts these together. The codes of an operation's fields stand in the stream one after
the other, and `Here` is the expander's cursor before the k-th of them: reading a field moves it to the
next (`DecodesNext`). So an action's fields expand to the action, a list of actions to the
list, an operation to itself (`ExpandsOperation`, `ExpandsRegistration`), and the delegator runs one operation after another
(`ExpandsAll`). The bits are apart from the bytes, as one number before them; at most as many as the word has
fit (`AllSetIsLargest`). It remains that the client wrote such codes. The invariant
(`CompressionOK`) says of every operation that some of its fields are encoded, each under the
registries as they are or as they were when they were smaller, and that the rest are
to come (`InProgress`); a registration keeps what is encoded valid (`EncodedStays`). The
expander that the stream names is the one that was used, because a compressor's id is one under which the
delegator has it (`CompressorsOK`).

What is supposed: a word has at least 256 values; the ids that are given
are words; and the bundles fit (`BundlesFit`). That excludes what the code cannot compress: numbers beyond a word,
a call of a token's method with other arguments than it has, more bits than a word has (the
addresses of one operation, see below), and a call of a token's method that sends ether, which is the finding
`PayingCall`, and one with a zero where an id would be looked up, which is the finding `ZeroAddress`.
TLC evaluates `BundlesFit` in the three runs: the bundles of `Expanders`
fit, those of the other two do not (`OnlyTheseDoNotFit`).

**What the provers do not reach, and TLC checks alone.** Liveness: EveryRowSettles, ShownInTheEnd, ShowsLatest,
RestsUnread, PageShowsLatest, and of MeetsContract that a run ends; it takes fairness and ENABLED.
Every invariant of a passing run is stated by a theorem. The library's theorems of induction take a predicate as a parameter,
which no installed prover instantiates; `NatSetInduction` says the same of a set of numbers, from
the well-foundedness of `<`, and with it what FlattenSeq computes is proved where
PaysAtBreakeven needs it.

## Where the code and its documents disagree

Each is a run whose one property states what a document says and that TLC shows
violated.

- `SignedWallet`: verify() checks the wallet of each operation before the first one
  runs, processBundle resolves the wallet again for each; an operation that remaps
  a later operation's key makes that one run on another wallet.
- `NonceGap`: a submission that fails between taking its nonce and sending leaves a
  gap that no later submission can pass; each retries for ever with its permit.
- `PayingCall`: the compressor for tokens, which the aggregator tries first, does not
  look at an action's ether, and its expander sets none. A call of transfer, transferFrom,
  approve or mint that sends ether becomes an operation nobody signed, which the
  gateway refuses. The aggregator simulates the compressed bundle
  (`AggregationStrategy.#measureFees`), so such a bundle, valid as it was signed, fails
  every check and is never submitted.
- `ZeroAddress`: the registry takes the address zero and refuses to look it up; a
  compressor looks only at the event of its registration and encodes the id. Once anyone has registered
  it, a bundle that sends ether to the address zero, or approves or transfers tokens to
  it, does not expand.
- `StatusTransitions`: a list that was read before another transaction was approved is
  written after it, with that transaction as new again; the version that a write compares
  is read after the list, so it does not notice. Transactions are lost the same way.

Observed while modelling, without a document that says otherwise: when the confirmation of an aggregate is cut
short, lookupAggregateBundle answers with a part of it (`BundleTable.ts`; the client's documentation speaks of "the aggregate
bundle that a sub bundle was a part of", `clients/src/Aggregator.ts:130`), and the rows that
were not written stay pending until they fail as executed before; an operation of
a key whose wallet left it, or of a wallet that moved to another gateway, makes the
whole bundle revert and not only itself; a wallet whose key another wallet took keeps its own entry
(`hashFromWallet`, as recovery-test.ts:619 asserts), so its next key change deletes the
other wallet's route (`VerificationGateway.sol:449`); another gateway may leave a wallet with
address zero as its gateway, for good (`BLSWallet.sol:83`); `setAnyPending` may be called by anyone; a
row that was executed but whose balance could not be read afterwards ends as
failed; an operation
with so many addresses that their bits are no exact floating-point number cannot be compressed
(`encodeUtils.ts:111`); after stop(), which only tests call, a submission's permit and rows are not
given back (`BundleService.ts:94`); half of one row is none, so an unprofitable aggregate of a single row is tried
again unchanged (`AggregationStrategy.ts:252`); a popup closed before windows.create
returns leaves its request waiting for ever (`TransactionsController.ts:59`); and a
bundle may be sent and its caller be told that it was not, when its transaction's entry
was overwritten (`AggregatorController.ts:108`).

Of derived cells: a loop that is told to stop while its formula runs ends the cell for good if
somebody reads it again before the formula returns (`FormulaCell.ts:171`), after which every
poll of it fails with "Unexpected end" (`LongPollingController.ts:76`); the iterations of its
inputs are not returned then either (`Stoppable.ts:31`), so the inputs stay read. A formula that
throws leaves the cell with its last value and without a loop for ever (`FormulaCell.ts:151`),
or without any value if it was the first. An iteration that is stopped between two values, as
from its own handler, is counted for ever (`Stoppable.ts:31`), so its cell never rests (`left` in
`CountsReaders`). An iterator that has waited for a change once no longer hears of the cell's end
(`CellIterator.ts:44`). A loop of an earlier view may go on polling with no viewer, because
the answer crossed the cancellation, and clears the sharedCancel of the next
(`LongPollingCell.ts:42`).

Three more touch a document less directly and have no run: a key asked for
before a recovery survives in the gateway, under the hash of the wallet's old key, and
is adopted if the wallet has that key again (`VerificationGateway.sol:279`; recover()
says it clears "any pending operations", `BLSWallet.sol:136`, and clears the wallet's);
losing the answer to a sent transaction returns its permit, so that more than
MAX_UNCONFIRMED_AGGREGATIONS may wait on chain (`BundleService.ts:457`); the first round
that includes no row ends a run of the strategy, whatever waits behind it
(`AggregationStrategy.ts:140`).

## What is not modelled, and the plan

What the passing runs check of states and steps is proved for all values of the constants; liveness stays with
TLC. What could be added is breadth, in this order: the keyring, then the cells that write through a
derived cell.

Not modelled: the keyring (`KeyringController.ts`), which reads, edits and writes its cell back as
the controller of transactions does, with the cipher's awaits in addition. What goes wrong there
is the same (`StatusTransitions`): of two accounts added at a time one may be lost, and
addRecoveryWallet returns although its key is gone, because swapContractWalletAddress does
nothing for a key it does not find (`KeyringController.ts:212`). An addHDAccount that ends between its two updates
leaves an index whose account exists, so every later one throws (`KeyringController.ts:82`).
`TransformCell` writes through a derived cell with a read before; preferences and network are
single values that the user sets.

Left out for good: elliptic-curve arithmetic (`lib/BLS.sol`, a signature is who
signed what), deployment scripts, HTTP routing, user interface, and the proxy, which
keeps no state. Of the aggregator: conversions of token fees and estimates of
gas, which come from the node and from floating-point numbers; the Optimism fee,
which is read after the rows are confirmed and changes nothing.
