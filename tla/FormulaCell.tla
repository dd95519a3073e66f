----------------------------- MODULE FormulaCell -----------------------------
(****************************************************************************)
(* A cell of the extension that is computed from other cells (FormulaCell   *)
(* in cells/FormulaCell.ts), by a formula that may take its time, such as a *)
(* request to a node.  It follows its inputs only while somebody iterates   *)
(* it: the first reader starts a loop that awaits inputs and computes, and  *)
(* half a second after the last reader left the loop is stopped.            *)
(*                                                                          *)
(* Iterators are what forEach does with the cell (CellIterator.ts inside    *)
(* Stoppable.ts); calls are reads of the cell.  An action is what the       *)
(* thread does with one event, with the promises this resolves; only what   *)
(* needs a timer, a formula, a handler or another cell takes longer.        *)
(****************************************************************************)
EXTENDS Naturals, FiniteSets, Functions

CONSTANTS
    Inputs,         \* the input cells
    Values,         \* of the input cells
    Formula(_),     \* of a function from inputs to values
    MayFail,        \* whether it may throw
    Iterators,
    Calls,
    None,           \* undefined
    Pending,        \* 'pending'
    MaxChanges,     \* bound on changes of the inputs
    MaxOpens        \* bound on iterations that are begun

\* A value is wrapped in an object, which is neither undefined nor 'pending'.
ASSUME FormulaCellAssumption ==
    /\ Iterators \intersect Calls = {}
    /\ None # Pending
    /\ \A f \in [Inputs -> Values] : Formula(f) \notin {None, Pending}

VARIABLES
    inputs,         \* the values of the input cells
    changes,        \* how often they have changed
    latest,         \* toIterableOfRecords: the values it has, of the cells it has
    updated,        \* whether the loop has not taken these values yet
    loop,           \* the loop of iterateInputs
    iterationCell,  \* the value the loop has computed
    lastProvided,   \* lastProvidedValue
    iteratorCount,
    delays,         \* calls of decrementIterators that wait for their half second
    ended,
    iterator,       \* each iteration by forEach: its CellIterator
    opens,          \* how many were begun
    left,           \* how many were left without return() being called
    call            \* each read of the cell

inputVars == <<inputs, changes>>
loopVars == <<latest, updated, loop, iterationCell, lastProvided>>
readerVars == <<iterator, opens, left, call>>
vars == <<inputVars, loopVars, readerVars, iteratorCount, delays, ended>>

\* "running": the formula is, on the values that were taken.
Loop(state, stopped, taken) == [state |-> state, stopped |-> stopped, taken |-> taken]
NoLoop == Loop("none", FALSE, << >>)

\* "reading": next() awaits a read of the cell; "waiting": it awaits a change;
\* "handling": its consumer has a value; "leaving": returned while it was reading.
IteratorStates == {"closed", "reading", "waiting", "handling", "leaving", "done"}
Closed == [state |-> "closed", provided |-> None, hearsEnd |-> FALSE]

Init ==
    /\ inputs \in [Inputs -> Values]
    /\ changes = 0
    /\ latest = << >> /\ updated = FALSE
    /\ loop = NoLoop
    /\ iterationCell = None
    /\ lastProvided = None
    /\ iteratorCount = 0 /\ delays = 0 /\ ended = FALSE
    /\ iterator = [r \in Iterators |-> Closed]
    /\ opens = 0 /\ left = 0
    /\ call = [c \in Calls |-> "none"]

Open == {r \in Iterators : iterator[r].state \in {"reading", "waiting", "handling"}}

\* Reads of the cell that wait for the first value of the loop.
Reading ==
    {r \in Iterators : iterator[r].state \in {"reading", "leaving"}}
        \union {c \in Calls : call[c] = "reading"}

Available == iterationCell \notin {None, Pending}

-----------------------------------------------------------------------------
(* The inputs.                                                              *)

\* Mutated: a record is provided before every input has a value.
AnyFilled(record) == TRUE

\* An input is written, by whoever writes it: a timer's input at any time.
Change(i, value) ==
    /\ changes < MaxChanges
    /\ value # inputs[i]
    /\ inputs' = [inputs EXCEPT ![i] = value]
    /\ changes' = changes + 1
    /\ UNCHANGED <<loopVars, readerVars, iteratorCount, delays, ended>>

\* keysFilled === keysNeeded
Filled(record) == DOMAIN record = Inputs

\* toIterableOfRecords hears of an input.  There is a record once every input
\* has a value, and the loop takes it if it waits for one.
InputUpdates(i) ==
    /\ loop.state \in {"waiting", "running"}
    /\ i \in DOMAIN latest => latest[i] # inputs[i]
    /\ latest' = [j \in DOMAIN latest \union {i} |-> IF j = i THEN inputs[i] ELSE latest[j]]
    /\ IF Filled(latest') /\ loop.state = "waiting"
       THEN loop' = Loop("running", FALSE, latest') /\ UNCHANGED updated
       ELSE updated' = Filled(latest') /\ UNCHANGED loop
    /\ UNCHANGED <<inputVars, iterationCell, lastProvided, readerVars,
                   iteratorCount, delays, ended>>

-----------------------------------------------------------------------------
(* Readers come.                                                            *)

\* Called n times in a row.
IterateInputs(n) ==
    /\ iteratorCount' = iteratorCount + n
    /\ IF iterationCell = None
       THEN /\ loop' = Loop("waiting", FALSE, << >>)
            /\ iterationCell' = Pending
            /\ latest' = << >> /\ updated' = FALSE
       ELSE UNCHANGED <<loop, iterationCell, latest, updated>>
    /\ UNCHANGED lastProvided

\* Mutated: a read that need not wait does not decrement.
ReadEndsForFree == UNCHANGED delays

\* A read that finds a value is over at once, and decrements half a second later.
ReadEnds == delays' = IF Available THEN delays + 1 ELSE delays

\* CellIterator.next() once the cell was read.
AfterRead(it, value) ==
    IF it.state = "leaving" THEN Closed
    ELSE IF it.provided # value THEN [it EXCEPT !.state = "handling", !.provided = value]
    ELSE IF ended THEN [it EXCEPT !.state = "done"]
    ELSE [it EXCEPT !.state = "waiting"]

\* [Symbol.asyncIterator]() and the first next().
AsyncIterator(r) ==
    /\ iterator[r].state = "closed"
    /\ IterateInputs(2)
    /\ LET it == [state |-> "reading", provided |-> None, hearsEnd |-> TRUE] IN
       iterator' = [iterator EXCEPT ![r] = IF Available THEN AfterRead(it, iterationCell) ELSE it]
    /\ ReadEnds
    /\ UNCHANGED <<inputVars, left, call, ended>>

ForEach(r) ==
    /\ opens < MaxOpens
    /\ opens' = opens + 1
    /\ AsyncIterator(r)

\* The consumer has handled its value.
NextValue(r) ==
    /\ iterator[r].state = "handling"
    /\ IterateInputs(1)
    /\ iterator' = [iterator EXCEPT ![r] =
           IF Available THEN AfterRead(@, iterationCell) ELSE [@ EXCEPT !.state = "reading"]]
    /\ ReadEnds
    /\ UNCHANGED <<inputVars, opens, left, call, ended>>

Read(c) ==
    /\ call[c] = "none"
    /\ IterateInputs(1)
    /\ call' = [call EXCEPT ![c] = IF Available THEN "over" ELSE "reading"]
    /\ ReadEnds
    /\ UNCHANGED <<inputVars, iterator, opens, left, ended>>

-----------------------------------------------------------------------------
(* Readers go.                                                              *)

\* The iteration is stopped.  Stoppable returns the iterator if it is in next();
\* between two of its values the loop of forEach ends without returning it.
Stop(r) ==
    /\ r \in Open
    /\ iterator' = [iterator EXCEPT ![r] =
           IF @.state = "reading" THEN [@ EXCEPT !.state = "leaving"] ELSE Closed]
    /\ IF iterator[r].state = "handling"
       THEN left' = left + 1 /\ UNCHANGED delays
       ELSE delays' = delays + 1 /\ UNCHANGED left
    /\ UNCHANGED <<inputVars, loopVars, iteratorCount, ended, opens, call>>

NoMoreInputs == latest' = << >> /\ updated' = FALSE

\* Mutated: the loop is only stopped while it awaits inputs.
StopWaitingLoop ==
    IF loop.state = "waiting"
    THEN loop' = NoLoop /\ iterationCell' = None /\ NoMoreInputs
    ELSE UNCHANGED <<loop, iterationCell, latest, updated>>

\* 'zero-iterators': a loop that awaits inputs ends, one that computes ends later.
StopLoop ==
    \/ /\ loop.state = "waiting"
       /\ loop' = NoLoop /\ iterationCell' = None /\ NoMoreInputs
    \/ /\ loop.state = "running"
       /\ loop' = [loop EXCEPT !.stopped = TRUE]
       /\ UNCHANGED <<iterationCell, latest, updated>>
    \/ /\ loop.state \in {"none", "failed"}
       /\ UNCHANGED <<loop, iterationCell, latest, updated>>

\* Mutated: the last one that is left is not counted.
DecrementsToOne ==
    /\ delays > 0
    /\ delays' = delays - 1
    /\ iteratorCount' = iteratorCount - 1
    /\ IF iteratorCount' <= 1 THEN StopLoop
       ELSE UNCHANGED <<loop, iterationCell, latest, updated>>
    /\ UNCHANGED <<inputVars, lastProvided, readerVars, ended>>

\* The half second of a call of decrementIterators is over.
DecrementIterators ==
    /\ delays > 0
    /\ delays' = delays - 1
    /\ iteratorCount' = iteratorCount - 1
    /\ IF iteratorCount' = 0 THEN StopLoop
       ELSE UNCHANGED <<loop, iterationCell, latest, updated>>
    /\ UNCHANGED <<inputVars, lastProvided, readerVars, ended>>

-----------------------------------------------------------------------------
(* The formula.                                                             *)

\* Iterators that await a change hear of one, or, if they never heard of one
\* before, of the cell's end.
AfterEvents(it, value, ends) ==
    IF it.state # "waiting" THEN it
    ELSE IF value # lastProvided
    THEN [state |-> "handling", provided |-> value, hearsEnd |-> FALSE]
    ELSE IF ends /\ it.hearsEnd THEN [it EXCEPT !.state = "done"]
    ELSE it

\* Mutated: records that came while the formula ran are not looked for.
LoopWaits(value) ==
    IF loop.stopped
    THEN loop' = NoLoop /\ iterationCell' = None /\ NoMoreInputs
    ELSE /\ loop' = Loop("waiting", FALSE, << >>)
         /\ iterationCell' = value
         /\ UNCHANGED <<latest, updated>>

\* The loop asks for the next record.
LoopGoesOn(value) ==
    IF loop.stopped
    THEN loop' = NoLoop /\ iterationCell' = None /\ NoMoreInputs
    ELSE /\ loop' = IF updated THEN Loop("running", FALSE, latest)
                    ELSE Loop("waiting", FALSE, << >>)
         /\ iterationCell' = value
         /\ updated' = FALSE
         /\ UNCHANGED latest

\* Whoever reads gets the value.  A loop that was stopped ends now, and the cell
\* with it if it has readers again.
FormulaReturns ==
    /\ loop.state = "running"
    /\ LET value == Formula(loop.taken)
           ends == loop.stopped /\ iteratorCount > 0
       IN  /\ LoopGoesOn(value)
           /\ lastProvided' = value
           /\ ended' = (ended \/ ends)
           /\ iterator' = [r \in Iterators |->
                  IF r \in Reading THEN AfterRead(iterator[r], value)
                  ELSE AfterEvents(iterator[r], value, ends)]
           /\ call' = [c \in Calls |-> IF c \in Reading THEN "over" ELSE call[c]]
    /\ delays' = delays + Cardinality(Reading)
    /\ UNCHANGED <<inputVars, opens, left, iteratorCount>>

\* Nobody catches what the formula throws: the loop is over, its cell is left.
FormulaThrows ==
    /\ MayFail
    /\ loop.state = "running"
    /\ loop' = Loop("failed", loop.stopped, << >>)
    /\ NoMoreInputs
    /\ UNCHANGED <<inputVars, iterationCell, lastProvided, readerVars,
                   iteratorCount, delays, ended>>

-----------------------------------------------------------------------------
CellStep ==
    \/ \E i \in Inputs, value \in Values : Change(i, value)
    \/ \E i \in Inputs : InputUpdates(i)
    \/ \E c \in Calls : Read(c)
    \/ DecrementIterators
    \/ FormulaReturns
    \/ FormulaThrows

ReaderStep(r) == ForEach(r) \/ NextValue(r) \/ Stop(r)

Next == CellStep \/ \E r \in Iterators : ReaderStep(r)

\* Timers fire, inputs are heard of, formulas return or throw, and consumers
\* handle what they have.
Fairness ==
    /\ \A i \in Inputs : WF_vars(InputUpdates(i))
    /\ \A r \in Iterators : WF_vars(NextValue(r))
    /\ WF_vars(DecrementIterators)
    /\ WF_vars(FormulaReturns \/ FormulaThrows)

Spec == Init /\ [][Next]_vars /\ Fairness

-----------------------------------------------------------------------------
(* Properties.                                                              *)

Results == {Formula(f) : f \in [Inputs -> Values]}

TypeOK ==
    /\ inputs \in [Inputs -> Values]
    /\ latest \in UNION {[S -> Values] : S \in SUBSET Inputs}
    /\ updated \in BOOLEAN
    /\ loop.state \in {"none", "waiting", "running", "failed"}
    /\ loop.state = "running" => loop.taken \in [Inputs -> Values]
    /\ iterationCell \in Results \union {None, Pending}
    /\ lastProvided \in Results \union {None}
    /\ {iteratorCount, delays, changes, opens, left} \subseteq Nat
    /\ {ended} \subseteq BOOLEAN
    /\ iterator \in [Iterators -> [state: IteratorStates,
                                    provided: Results \union {None},
                                    hearsEnd: BOOLEAN]]
    /\ call \in [Calls -> {"none", "reading", "over"}]

Done == {r \in Iterators : iterator[r].state = "done"}

\* iteratorCount counts each iteration and each read once, from its begin to half
\* a second after its end, whatever they find and however they end: it is not zero
\* while anybody reads.  Iterations that are left between two values, or that end
\* with the cell, are counted for ever (iterateInputs, read, decrementIterators).
CountsReaders ==
    iteratorCount = Cardinality(Open) + Cardinality(Reading) + delays
                        + Cardinality(Done) + left

\* As long as the formula has not thrown: whoever awaits the first value has a loop
\* that nobody has told to stop, and an iterator that awaits a change has a loop,
\* which may have been told to stop, or the cell has ended (iterateInputs,
\* 'zero-iterators').
ServedWhileRead ==
    loop.state = "failed" \/
        /\ Reading # {} => loop.state # "none" /\ ~loop.stopped
        /\ (\E r \in Iterators : iterator[r].state = "waiting") =>
               ended \/ loop.state # "none"

\* However inputs change while the formula runs, readers come and go, and
\* consumers take their time: again and again all iterations show what the formula
\* gives for the inputs, unless the cell has ended or its formula has thrown.
ShowsLatest ==
    []<>(\/ ended \/ loop.state = "failed"
         \/ \A r \in Open : iterator[r].provided = Formula(inputs))

\* "Some cells only update when something is iterating them" (forEach.ts:9): once
\* all readers have gone, and none was left uncounted for, the formula is not
\* computed any more ('zero-iterators').
RestsUnread ==
    (Open = {} /\ Reading = {} /\ Done = {} /\ left = 0) ~>
        (\/ loop.state \in {"none", "failed"}
         \/ Open # {} \/ Reading # {} \/ Done # {} \/ left > 0)
=============================================================================
