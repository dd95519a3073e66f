---------------------------- MODULE Transactions ----------------------------
(****************************************************************************)
(* Transactions that a page asks the extension to send: the background's    *)
(* TransactionsController and eth_sendTransaction of AggregatorController,  *)
(* the confirmation popup, and the cell the transactions are kept in.       *)
(*                                                                          *)
(* Each update of the cell awaits three reads and then writes: the          *)
(* controller reads the list it edits, update() reads the rest of the       *)
(* value, write() reads the version to compare with.  Updates of several    *)
(* transactions interleave at these reads.                                  *)
(****************************************************************************)
EXTENDS StorageCells, FiniteSets

CONSTANTS
    Ids,            \* of transactions that are asked for
    MaxMessages,    \* presses in a popup that the background has not heard yet
    MaxReceipts     \* polls of a transaction that find a receipt

\* The list is empty at first, and the background page is not one that shows it.
ASSUME TransactionsAssumption ==
    DefaultValue = << >> /\ Background \notin Pages /\ MaxReceipts \in Nat

VARIABLES
    request,     \* eth_sendTransaction of each transaction: what it awaits
    update,      \* the updates of the cell: what each awaits
    window,      \* the popup of each transaction
    messages,    \* from each popup, not heard yet
    sent,        \* transactions whose bundle the aggregator took
    pressed      \* in the popup of each transaction: what the user ever pressed

txVars == <<request, update, window, messages, sent, pressed>>
vars == <<cellVars, txVars>>

Requests ==
    {"none", "creating", "opening", "prompting", "deciding", "sending",
     "recording", "done", "failed"}

\* "shown": with its transaction, and the buttons to decide about it.
Windows == {"none", "open", "shown", "closing", "closed"}

Decisions == {"approved", "rejected"}

\* The update that the request of a transaction awaits, and those of its receipts.
Updates == Ids \X (0 .. MaxReceipts)

Reader(u) == <<"update", u>>

NoUpdate == [op |-> "none", step |-> "none", list |-> DefaultValue, version |-> 0]

\* What is kept of a transaction; the list is a function from ids.
NewTransaction == [status |-> "new", bundleHash |-> FALSE, txHash |-> FALSE]

NoTransactions == << >>

ValidTransitions ==
    {<<"new", "approved">>, <<"new", "rejected">>, <<"approved", "cancelled">>,
     <<"approved", "approved">>, <<"approved", "failed">>}

Init ==
    /\ CellsInit
    /\ request = [i \in Ids |-> "none"]
    /\ update = [u \in Updates |-> NoUpdate]
    /\ window = [i \in Ids |-> "none"]
    /\ messages = [i \in Ids |-> <<>>]
    /\ sent = {}
    /\ pressed = [i \in Ids |-> {}]

-----------------------------------------------------------------------------
(* Updates of the cell. *)

\* What the controller asserts of the list it read.
MayEdit(op, i, list) ==
    CASE op = "create" -> i \notin DOMAIN list
      [] op \in Decisions ->
             i \in DOMAIN list /\ <<list[i].status, op>> \in ValidTransitions
      [] op = "bundleHash" -> i \in DOMAIN list
      [] op = "txHash" -> i \in DOMAIN list /\ list[i].bundleHash

Edited(op, i, list) ==
    CASE op = "create" -> [j \in DOMAIN list \union {i} |->
                              IF j = i THEN NewTransaction ELSE list[j]]
      [] op \in Decisions -> [list EXCEPT ![i].status = op]
      [] op = "bundleHash" -> [list EXCEPT ![i].bundleHash = TRUE]
      [] op = "txHash" -> [list EXCEPT ![i].txHash = TRUE]

\* The controller's read.
StartUpdate(u, op) ==
    /\ update' = [update EXCEPT ![u] = [NoUpdate EXCEPT !.op = op, !.step = "read"]]
    /\ Send(Background, <<Get(Reader(u))>>)

\* What the request does when its update is over.
AfterUpdate(u, succeeded) ==
    LET next == [create |-> "opening", approved |-> "sending",
                 rejected |-> "failed", bundleHash |-> "done"]
    IN  request' =
            IF u[2] # 0 THEN request
            ELSE [request EXCEPT ![u[1]] =
                     IF succeeded THEN next[update[u].op] ELSE "failed"]

EndUpdate(u, succeeded) ==
    /\ update' = [update EXCEPT ![u] = [NoUpdate EXCEPT !.step = "over"]]
    /\ AfterUpdate(u, succeeded)

\* The controller edits the list it read, or throws.
ControllerRead(u) ==
    /\ update[u].step = "read"
    /\ Answered(Background, Reader(u))
    /\ LET list == Answer(Background).value IN
       IF MayEdit(update[u].op, u[1], list)
       THEN /\ update' = [update EXCEPT ![u].step = "update",
                                        ![u].list = Edited(update[u].op, u[1], list)]
            /\ Send(Background, <<Get(Reader(u))>>)
            /\ UNCHANGED request
       ELSE /\ EndUpdate(u, FALSE)
            /\ UNCHANGED requests
    /\ UNCHANGED <<stored, changes, lastSeen, iterator, window, messages, sent, pressed>>

\* CollectionCell.update: the list replaces the one that is read now, and the
\* version to write is one after it.
UpdateRead(u) ==
    /\ update[u].step = "update"
    /\ Answered(Background, Reader(u))
    /\ update' = [update EXCEPT ![u].step = "write",
                                ![u].version = Answer(Background).version + 1]
    /\ Send(Background, <<Get(Reader(u))>>)
    /\ UNCHANGED <<stored, changes, lastSeen, iterator, request, window, messages, sent, pressed>>

\* CollectionCell.write: a version that is not newer than the storage's is rejected.
Rejected(u) == update[u].version <= Answer(Background).version

WriteRead(u) ==
    /\ update[u].step = "write"
    /\ Answered(Background, Reader(u))
    /\ IF Rejected(u) THEN UNCHANGED requests
       ELSE Send(Background, <<Set([version |-> update[u].version,
                                   value |-> update[u].list])>>)
    /\ EndUpdate(u, ~Rejected(u))
    /\ UNCHANGED <<stored, changes, lastSeen, iterator, window, messages, sent, pressed>>

-----------------------------------------------------------------------------
(* eth_sendTransaction *)

\* createTransaction
CreateTransaction(i) ==
    /\ request[i] = "none"
    /\ request' = [request EXCEPT ![i] = "creating"]
    /\ StartUpdate(<<i, 0>>, "create")
    /\ UNCHANGED <<stored, answers, changes, lastSeen, iterator>>
    /\ UNCHANGED <<window, messages, sent, pressed>>

\* promptUser: the popup opens, and it may be used before the background knows it.
OpenPopup(i) ==
    /\ request[i] = "opening"
    /\ window[i] = "none"
    /\ window' = [window EXCEPT ![i] = "open"]
    /\ UNCHANGED <<cellVars, request, update, messages, sent, pressed>>

\* windows.create is over and the listeners are added.
Listen(i) ==
    /\ request[i] = "opening"
    /\ window[i] # "none"
    /\ request' = [request EXCEPT ![i] = "prompting"]
    /\ UNCHANGED <<cellVars, update, window, messages, sent, pressed>>

\* The promise of promptUser resolves: the popup is removed and the status updated.
Decide(i, result) ==
    /\ request' = [request EXCEPT ![i] = "deciding"]
    /\ window' = [window EXCEPT ![i] = "closed"]
    /\ StartUpdate(<<i, 0>>, result)

\* Mutated: any popup's message decides.
IsForAny(i, message) == TRUE

\* The listener that promptUser added for transaction i.
IsFor(i, message) == message.id = i

HearMessage(i) ==
    /\ messages[i] # <<>>
    /\ messages' = [messages EXCEPT ![i] = Tail(@)]
    /\ LET message == Head(messages[i])
           listening == {j \in Ids : request[j] = "prompting" /\ IsFor(j, message)}
       IN  \/ \E j \in listening : Decide(j, message.result)
           \/ listening = {} /\ UNCHANGED <<request, window, update, requests>>
    /\ UNCHANGED <<stored, answers, changes, lastSeen, iterator, sent, pressed>>

\* onRemovedListener, if it was added in time.
PopupRemoved(i) ==
    /\ window[i] = "closing"
    /\ IF request[i] = "prompting"
       THEN Decide(i, "rejected")
       ELSE /\ window' = [window EXCEPT ![i] = "closed"]
            /\ UNCHANGED <<request, update, requests>>
    /\ UNCHANGED <<stored, answers, changes, lastSeen, iterator, messages, sent, pressed>>

\* The aggregator takes the bundle, and its hash is recorded.
SendBundle(i) ==
    /\ request[i] = "sending"
    /\ request' = [request EXCEPT ![i] = "recording"]
    /\ sent' = sent \union {i}
    /\ StartUpdate(<<i, 0>>, "bundleHash")
    /\ UNCHANGED <<stored, answers, changes, lastSeen, iterator>>
    /\ UNCHANGED <<window, messages, pressed>>

\* Something on the way to the aggregator fails, or it refuses the bundle.
SendFails(i) ==
    /\ request[i] = "sending"
    /\ request' = [request EXCEPT ![i] = "failed"]
    /\ UNCHANGED <<cellVars, update, window, messages, sent, pressed>>

\* eth_getTransactionReceipt finds a receipt and does not await the update.
GetReceipt(i, n) ==
    /\ request[i] = "done"
    /\ update[<<i, n>>] = NoUpdate
    /\ StartUpdate(<<i, n>>, "txHash")
    /\ UNCHANGED <<stored, answers, changes, lastSeen, iterator>>
    /\ UNCHANGED <<request, window, messages, sent, pressed>>

-----------------------------------------------------------------------------
(* The popup and its user. *)

\* The popup's own cell finds the transaction, which takes it a while (see Pages).
ShowTransaction(i) ==
    /\ window[i] = "open"
    /\ i \in DOMAIN stored.value
    /\ window' = [window EXCEPT ![i] = "shown"]
    /\ UNCHANGED <<cellVars, request, update, messages, sent, pressed>>

\* "Error: Tx not found"
LoseTransaction(i) ==
    /\ window[i] = "shown"
    /\ i \notin DOMAIN stored.value
    /\ window' = [window EXCEPT ![i] = "open"]
    /\ UNCHANGED <<cellVars, request, update, messages, sent, pressed>>

\* respondTx
Press(i, result) ==
    /\ window[i] = "shown"
    /\ Len(messages[i]) < MaxMessages
    /\ messages' = [messages EXCEPT ![i] = Append(@, [id |-> i, result |-> result])]
    /\ pressed' = [pressed EXCEPT ![i] = @ \union {result}]
    /\ UNCHANGED <<cellVars, request, update, window, sent>>

ClosePopup(i) ==
    /\ window[i] \in {"open", "shown"}
    /\ window' = [window EXCEPT ![i] = "closing"]
    /\ UNCHANGED <<cellVars, request, update, messages, sent, pressed>>

-----------------------------------------------------------------------------
UpdateStep(u) == ControllerRead(u) \/ UpdateRead(u) \/ WriteRead(u)

\* What goes on once somebody asked for it.
Step ==
    \/ \E c \in Contexts : BrowserStep(c) /\ UNCHANGED txVars
    \/ \E p \in Pages : PageStep(p) /\ UNCHANGED txVars
    \/ \E u \in Updates : UpdateStep(u)
    \/ \E i \in Ids :
           \/ OpenPopup(i) \/ Listen(i) \/ HearMessage(i) \/ PopupRemoved(i)
           \/ SendBundle(i) \/ SendFails(i)
           \/ \E result \in Decisions : Press(i, result)
           \/ ShowTransaction(i) \/ LoseTransaction(i) \/ ClosePopup(i)

Next ==
    \/ Step
    \/ \E p \in Pages : OpenPage(p) /\ UNCHANGED txVars
    \/ \E i \in Ids :
           \/ CreateTransaction(i)
           \/ \E n \in 1 .. MaxReceipts : GetReceipt(i, n)

Spec == Init /\ [][Next]_vars

\* The browser answers, and contexts take answers and events, in the end.
Fairness ==
    /\ \A c \in Contexts : WF_vars(BrowserStep(c) /\ UNCHANGED txVars)
    /\ \A p \in Pages :
           /\ WF_vars(HandleChange(p) /\ UNCHANGED txVars)
           /\ WF_vars((CellRead(p) \/ IteratorRead(p)) /\ UNCHANGED txVars)
    /\ \A u \in Updates : WF_vars(UpdateStep(u))

FairSpec == Spec /\ Fairness

-----------------------------------------------------------------------------
(* Types. *)

Transaction == [status: {"new"} \union Decisions, bundleHash: BOOLEAN, txHash: BOOLEAN]
Lists == UNION {[ids -> Transaction] : ids \in SUBSET Ids}
Versioned == [version: Nat, value: Lists]
UpdateReaders == {Reader(u) : u \in Updates}

Update ==
    [ op: {"none", "create", "bundleHash", "txHash"} \union Decisions,
      step: {"none", "read", "update", "write", "over"},
      list: Lists,
      version: Nat ]

\* undefined is no object.
ASSUME NoneAssumption == None \notin [waiting: BOOLEAN, provided: Lists \union {None}]

\* What a reader waits for: the places in the context's queues that are for it.
Awaited(context, reader) ==
    {<<"request", n>> : n \in {m \in DOMAIN requests[context] :
         requests[context][m].op = "get" /\ requests[context][m].reader = reader}}
    \union
    {<<"answer", n>> : n \in {m \in DOMAIN answers[context] :
         answers[context][m].reader = reader}}

\* The variables have their types, an update waits for one answer at a time, and
\* so does a page's iterator unless it waits for a change (the awaits of
\* CellCollection.ts:128-176 and CellIterator.ts:27-62).
TypeOK ==
    /\ stored \in Versioned
    /\ changes \in [Pages -> Nat]
    /\ lastSeen \in [Pages -> Versioned \union {None}]
    /\ \A c \in Contexts :
           /\ \A n \in DOMAIN requests[c] :
                  \/ requests[c][n].op = "get"
                  \/ requests[c][n].op = "set" /\ requests[c][n].versioned \in Versioned
           /\ \A n \in DOMAIN answers[c] : answers[c][n].versioned \in Versioned
    /\ request \in [Ids -> Requests]
    /\ update \in [Updates -> Update]
    /\ window \in [Ids -> Windows]
    /\ \A i \in Ids : messages[i] \in Seq([id: Ids, result: Decisions])
    /\ sent \subseteq Ids
    /\ pressed \in [Ids -> SUBSET Decisions]
    /\ \A u \in Updates : Cardinality(Awaited(Background, Reader(u))) =
           IF update[u].step \in {"read", "update", "write"} THEN 1 ELSE 0
    /\ \A p \in Open : Cardinality(Awaited(p, Iterator)) =
           IF iterator[p].waiting THEN 0 ELSE 1

-----------------------------------------------------------------------------
(* Properties. *)

\* A bundle goes to the aggregator, and a transaction is stored as approved, only if
\* the user approved that transaction, in its own popup: no message for another, and
\* no list that was written from an older read, makes it so
\* (TransactionsController.ts:62-68, :119-130, :187-229).
ApprovalsAreTheUsers ==
    \A i \in Ids :
        \/ "approved" \in pressed[i]
        \/ /\ i \notin sent
           /\ i \in DOMAIN stored.value => stored.value[i].status # "approved"

\* A page that has nothing left to read shows what is stored: no change is missed
\* between a read and the wait for a change (CellIterator.ts:27-62).
NoChangeMissed ==
    \A p \in Open :
        changes[p] = 0 /\ requests[p] = <<>> /\ answers[p] = <<>>
            => iterator[p].waiting /\ iterator[p].provided = stored.value

\* Reads and changes do not chase each other for ever: again and again, an open page
\* shows what is stored (forEach.ts:19-40, CellIterator.ts:27-62).
ShownInTheEnd ==
    \A p \in Pages : []<>(p \in Open => iterator[p].provided = stored.value)

\* "Forbidden transaction status transition" (TransactionsController.ts:217): a
\* stored transaction's status changes along validTransitions only.
OnlyValidTransitions ==
    [][\A i \in DOMAIN stored.value \intersect DOMAIN stored'.value :
           \/ stored'.value[i].status = stored.value[i].status
           \/ <<stored.value[i].status, stored'.value[i].status>> \in ValidTransitions]_vars
=============================================================================
