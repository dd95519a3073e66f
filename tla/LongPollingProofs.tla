-------------------------- MODULE LongPollingProofs --------------------------
(****************************************************************************)
(* For any polls, of any iterators of the cell: the background serves them  *)
(* as it serves any reader.  Each step of a poll is one of the cell's, so   *)
(* the cell's invariant is kept, and with it what FormulaCellProofs says of *)
(* readers; and polls that are over have left the cell.                     *)
(****************************************************************************)
EXTENDS LongPolling, FormulaCellProofs

PollType ==
    [state: PollStates, different: Results \union {None}, result: PollResults,
     value: Results \union {None}, cancelled: BOOLEAN, awaited: BOOLEAN]

PageTypeOK ==
    /\ viewing \in BOOLEAN /\ views \in Nat /\ timeouts \in Nat
    /\ shown \in Results \union {None}
    /\ sharedCancel \in Polls \union {None}
    /\ poll \in [Polls -> PollType]

PollingInv ==
    /\ IInv
    /\ PageTypeOK
    /\ IteratesForOpenPolls

-----------------------------------------------------------------------------
(* The page.                                                                *)

LEMMA NoPollOK == NoPoll \in PollType
BY DEF NoPoll, PollType, PollStates, PollResults

LEMMA SentOK ==
  ASSUME NEW different \in Results \union {None}, NEW awaited \in BOOLEAN
  PROVE  Sent(different, awaited) \in PollType
BY NoPollOK DEF Sent, PollType, PollStates

LEMMA PollInitOK == LongPollingInit => PollingInv
<1> SUFFICES ASSUME LongPollingInit PROVE PollingInv
  OBVIOUS
<1>1. Init /\ PageInit
  BY DEF LongPollingInit
<1>2. PageTypeOK
  BY <1>1, NoPollOK DEF PageInit, PageTypeOK
<1>3. IteratesForOpenPolls
  BY <1>1, PollsAssumption DEF Init, Open, Closed, IteratesForOpenPolls
<1> QED
  BY <1>1, <1>2, <1>3, InitOK DEF PollingInv

\* What the page does with its polls leaves the cell alone.
LEMMA PageOnly ==
  ASSUME PollingInv, UNCHANGED vars,
         \A p \in Polls : poll[p].state = "open" => poll'[p].state = "open"
  PROVE  IInv' /\ IteratesForOpenPolls'
<1>1. IInv'
  BY UnchangedOK DEF PollingInv
<1>2. Open' = Open
  BY DEF Open, vars, readerVars
<1> HIDE DEF Open
<1> QED
  BY <1>1, <1>2 DEF PollingInv, IteratesForOpenPolls

LEMMA FirstIteratorOK ==
  ASSUME PollingInv, NEW p \in Polls, FirstIterator(p)
  PROVE  PollingInv'
<1>1. /\ viewing' = TRUE /\ views' = views + 1 /\ poll[p] = NoPoll
      /\ poll' = [poll EXCEPT ![p] = Sent(shown, sharedCancel = None)]
      /\ sharedCancel' \in {p, sharedCancel}
      /\ UNCHANGED <<shown, timeouts>> /\ UNCHANGED vars
  BY DEF FirstIterator
<1>2. Sent(shown, sharedCancel = None) \in PollType
  BY SentOK DEF PollingInv, PageTypeOK
<1>3. PageTypeOK'
  BY <1>1, <1>2 DEF PollingInv, PageTypeOK
<1>4. \A q \in Polls : poll[q].state = "open" => poll'[q].state = "open"
  BY <1>1 DEF PollingInv, PageTypeOK, NoPoll
<1> QED
  BY <1>1, <1>3, <1>4, PageOnly DEF PollingInv

LEMMA ZeroIteratorsOK ==
  ASSUME PollingInv, ZeroIterators
  PROVE  PollingInv'
<1>1. viewing' = FALSE /\ UNCHANGED <<views, timeouts>> /\ UNCHANGED vars
  BY DEF ZeroIterators
<1>2. CASE sharedCancel = None
  <2>1. UNCHANGED <<shown, sharedCancel, poll>>
    BY <1>2 DEF ZeroIterators
  <2>2. PageTypeOK'
    BY <1>1, <2>1 DEF PollingInv, PageTypeOK
  <2> QED
    BY <1>1, <2>1, <2>2, PageOnly DEF PollingInv
<1>3. CASE sharedCancel # None
  <2>1. /\ poll' = [poll EXCEPT ![sharedCancel].cancelled = TRUE]
        /\ sharedCancel' = None /\ shown' = None
    BY <1>3 DEF ZeroIterators
  <2>2. sharedCancel \in Polls /\ poll \in [Polls -> PollType]
    BY <1>3 DEF PollingInv, PageTypeOK
  <2>3. poll' \in [Polls -> PollType]
    BY <2>1, <2>2 DEF PollType
  <2>4. PageTypeOK'
    BY <1>1, <2>1, <2>3 DEF PollingInv, PageTypeOK
  <2>5. \A q \in Polls : poll[q].state = "open" => poll'[q].state = "open"
    BY <2>1, <2>2 DEF PollType
  <2> QED
    BY <1>1, <2>4, <2>5, PageOnly DEF PollingInv
<1> QED
  BY <1>2, <1>3

LEMMA PageGetsOK ==
  ASSUME PollingInv, NEW p \in Polls, PageGets(p)
  PROVE  PollingInv'
<1> DEFINE goesOn == poll[p].awaited /\ Continues(poll[p].result)
<1>1. /\ poll[p].state = "answered"
      /\ shown' = IF goesOn /\ poll[p].result = "value" THEN poll[p].value ELSE shown
      /\ poll' = [poll EXCEPT ![p] = IF goesOn THEN Sent(shown', TRUE) ELSE NoPoll]
      /\ sharedCancel' \in {p, None, sharedCancel}
      /\ UNCHANGED <<viewing, views, timeouts>> /\ UNCHANGED vars
  BY DEF PageGets
<1> HIDE DEF goesOn
<1>2. poll \in [Polls -> PollType] /\ shown \in Results \union {None}
  BY DEF PollingInv, PageTypeOK
<1>3. shown' \in Results \union {None}
  BY <1>1, <1>2 DEF PollType
<1>4. Sent(shown', TRUE) \in PollType
  BY <1>3, SentOK
<1>5. poll' \in [Polls -> PollType]
  BY <1>1, <1>2, <1>4, NoPollOK
<1>6. PageTypeOK'
  BY <1>1, <1>3, <1>5 DEF PollingInv, PageTypeOK
<1>7. \A q \in Polls : poll[q].state = "open" => poll'[q].state = "open"
  BY <1>1, <1>2
<1> QED
  BY <1>1, <1>6, <1>7, PageOnly DEF PollingInv

-----------------------------------------------------------------------------
(* The background.                                                          *)

\* The step of one iterator opens and closes no other.
LEMMA OnlyOne ==
  ASSUME NEW r \in Iterators, NEW it, iterator \in [Iterators -> CellIterators],
         iterator' = [iterator EXCEPT ![r] = it]
  PROVE  /\ \A s \in Iterators \ {r} : s \in Open' <=> s \in Open
         /\ r \in Open' <=> it.state \in {"reading", "waiting", "handling"}
BY DEF Open

LEMMA PollArrivesOK ==
  ASSUME PollingInv, NEW p \in Polls, PollArrives(p)
  PROVE  PollingInv'
<1>1. /\ p \in Iterators /\ AsyncIterator(p)
      /\ poll' = [poll EXCEPT ![p].state = "open"]
      /\ UNCHANGED <<opens, viewing, views, shown, sharedCancel, timeouts>>
  BY PollsAssumption DEF PollArrives
<1>2. opens' \in Nat
  BY <1>1 DEF PollingInv, IInv, TypeOK
<1>3. IInv'
  BY <1>1, <1>2, AsyncIteratorOK DEF PollingInv
<1>4. poll \in [Polls -> PollType]
  BY DEF PollingInv, PageTypeOK
<1>5. poll' \in [Polls -> PollType]
  BY <1>1, <1>4 DEF PollType, PollStates
<1>6. PageTypeOK'
  BY <1>1, <1>5 DEF PollingInv, PageTypeOK
<1>7. PICK it : iterator' = [iterator EXCEPT ![p] = it]
  BY <1>1 DEF AsyncIterator
<1>8. iterator \in [Iterators -> CellIterators]
  BY DEF PollingInv, IInv, TypeOK, CellIterators
<1>9. \A s \in Iterators \ {p} : s \in Open' <=> s \in Open
  BY <1>1, <1>7, <1>8, OnlyOne
<1> HIDE DEF Open
<1>10. IteratesForOpenPolls'
  BY <1>1, <1>4, <1>9, PollsAssumption DEF PollingInv, IteratesForOpenPolls
<1> QED
  BY <1>3, <1>6, <1>10 DEF PollingInv

\* A poll is answered when its iterator has been closed, or is over.
LEMMA AnswerOK ==
  ASSUME PollingInv, IInv', NEW p \in Polls, NEW result \in PollResults,
         NEW it, iterator' = [iterator EXCEPT ![p] = it],
         it.state \notin {"reading", "waiting", "handling"},
         Answer(p, result), timeouts' \in Nat,
         UNCHANGED <<viewing, views, shown, sharedCancel>>
  PROVE  PollingInv'
<1>1. p \in Iterators /\ iterator \in [Iterators -> CellIterators]
  BY PollsAssumption DEF PollingInv, IInv, TypeOK, CellIterators
<1>2. poll \in [Polls -> PollType]
  BY DEF PollingInv, PageTypeOK
<1>3. iterator[p].provided \in Results \union {None}
  BY <1>1 DEF CellIterators
<1>4. poll' = [poll EXCEPT ![p].state = "answered", ![p].value = iterator[p].provided,
                           ![p].result = IF ended THEN "error" ELSE result]
  BY DEF Answer
<1>5. poll' \in [Polls -> PollType]
  <2> DEFINE final == IF ended THEN "error" ELSE result
  <2>1. final \in PollResults
    BY DEF PollResults
  <2>2. poll' = [poll EXCEPT ![p].state = "answered",
                             ![p].value = iterator[p].provided, ![p].result = final]
    BY <1>4
  <2> HIDE DEF final
  <2>3. poll'[p] = [poll[p] EXCEPT !.state = "answered",
                                   !.value = iterator[p].provided, !.result = final]
    BY <1>2, <2>2
  <2>4. poll'[p] \in PollType
    BY <1>2, <1>3, <2>1, <2>3 DEF PollType, PollStates
  <2> QED
    BY <1>2, <2>2, <2>4
<1>6. PageTypeOK'
  BY <1>5 DEF PollingInv, PageTypeOK
<1>7. /\ \A s \in Iterators \ {p} : s \in Open' <=> s \in Open
      /\ p \notin Open'
  BY <1>1, OnlyOne
<1> HIDE DEF Open
<1>8. IteratesForOpenPolls'
  BY <1>2, <1>4, <1>7, PollsAssumption DEF PollingInv, IteratesForOpenPolls
<1> QED
  BY <1>6, <1>8 DEF PollingInv

LEMMA PollHandlesOK ==
  ASSUME PollingInv, NEW p \in Polls, PollHandles(p)
  PROVE  PollingInv'
<1>1. /\ p \in Iterators /\ poll[p].state = "open" /\ iterator[p].state = "handling"
      /\ UNCHANGED <<viewing, views, shown, sharedCancel, timeouts>>
  BY PollsAssumption DEF PollHandles
<1>2. iterator \in [Iterators -> CellIterators] /\ IInv
  BY DEF PollingInv, IInv, TypeOK, CellIterators
<1>3. CASE Different(p)
  <2>1. /\ iterator' = [iterator EXCEPT ![p] = Closed] /\ delays' = delays + 1
        /\ Answer(p, "value")
        /\ UNCHANGED <<inputVars, loopVars, iteratorCount, ended, opens, left, call>>
    BY <1>3 DEF PollHandles
  <2>2. Closed \in CellIterators /\ Closed.state = "closed"
    BY DEF Closed, CellIterators, IteratorStates
  <2>3. p \in Open
    BY <1>1 DEF Open
  <2>4. IInv'
    BY <1>1, <1>2, <2>1, <2>2, <2>3, LeavesOK
  <2>5. timeouts' \in Nat
    BY <1>1 DEF PollingInv, PageTypeOK
  <2> QED
    BY <1>1, <2>1, <2>2, <2>4, <2>5, AnswerOK DEF PollResults
<1>4. CASE ~Different(p)
  <2>1. NextValue(p) /\ UNCHANGED poll
    BY <1>4 DEF PollHandles
  <2>2. IInv'
    BY <1>1, <1>2, <2>1, NextValueOK
  <2>3. PageTypeOK'
    BY <1>1, <2>1 DEF PollingInv, PageTypeOK
  <2>4. PICK it : iterator' = [iterator EXCEPT ![p] = it]
    BY <2>1 DEF NextValue
  <2>5. \A s \in Iterators \ {p} : s \in Open' <=> s \in Open
    BY <1>1, <1>2, <2>4, OnlyOne
  <2> HIDE DEF Open
  <2>6. IteratesForOpenPolls'
    BY <1>1, <2>1, <2>5, PollsAssumption DEF PollingInv, IteratesForOpenPolls
  <2> QED
    BY <2>2, <2>3, <2>6 DEF PollingInv
<1> QED
  BY <1>3, <1>4

LEMMA PollStopsOK ==
  ASSUME PollingInv, NEW p \in Polls, NEW result \in PollResults,
         PollStops(p, result), timeouts' \in Nat
  PROVE  PollingInv'
<1>1. /\ p \in Iterators /\ Stop(p) /\ Answer(p, result)
      /\ UNCHANGED <<viewing, views, shown, sharedCancel>>
  BY PollsAssumption DEF PollStops
<1>2. IInv'
  BY <1>1, StopOK DEF PollingInv
<1>3. PICK it : /\ iterator' = [iterator EXCEPT ![p] = it]
                /\ it.state \notin {"reading", "waiting", "handling"}
  <2> DEFINE to == IF iterator[p].state = "reading"
                   THEN [iterator[p] EXCEPT !.state = "leaving"] ELSE Closed
  <2>1. iterator[p] \in CellIterators
    BY <1>1 DEF PollingInv, IInv, TypeOK, CellIterators
  <2>2. to.state \notin {"reading", "waiting", "handling"}
    BY <2>1 DEF CellIterators, Closed
  <2>3. iterator' = [iterator EXCEPT ![p] = to]
    BY <1>1 DEF Stop
  <2> QED
    BY <2>2, <2>3
<1> QED
  BY <1>1, <1>2, <1>3, AnswerOK

LEMMA PollEndsOK ==
  ASSUME PollingInv, NEW p \in Polls, PollEnds(p)
  PROVE  PollingInv'
<1>1. /\ iterator[p].state = "done" /\ Answer(p, "error")
      /\ UNCHANGED <<viewing, views, shown, sharedCancel>> /\ UNCHANGED vars
      /\ timeouts' \in Nat
  BY DEF PollEnds, PollingInv, PageTypeOK
<1>2. IInv'
  BY <1>1, UnchangedOK DEF PollingInv
<1>3. iterator' = [iterator EXCEPT ![p] = iterator[p]]
  BY <1>1 DEF PollingInv, IInv, TypeOK, vars, readerVars
<1> QED
  BY <1>1, <1>2, <1>3, AnswerOK DEF PollResults

LEMMA PageStepOK ==
  ASSUME PollingInv, NEW p \in Polls, PageStep(p)
  PROVE  PollingInv'
<1>1. CASE PollTimesOut(p)
  <2>1. timeouts' \in Nat /\ PollStops(p, "please-retry")
    BY <1>1 DEF PollTimesOut, PollingInv, PageTypeOK
  <2> QED
    BY <2>1, PollStopsOK DEF PollResults
<1>2. CASE PollCancelled(p)
  <2>1. timeouts' \in Nat /\ PollStops(p, "cancelled")
    BY <1>2 DEF PollCancelled, PollingInv, PageTypeOK
  <2> QED
    BY <2>1, PollStopsOK DEF PollResults
<1> QED
  BY <1>1, <1>2, FirstIteratorOK, PageGetsOK, PollArrivesOK, PollHandlesOK, PollEndsOK
     DEF PageStep

-----------------------------------------------------------------------------
(* The cell and its other readers.                                          *)

\* Iterations begin by themselves only.
LEMMA CellStepOpens ==
  ASSUME IInv, CellStep
  PROVE  Open' \subseteq Open
<1>1. CASE FormulaReturns
  <2> SUFFICES ASSUME NEW r \in Iterators,
                      iterator'[r].state \in {"reading", "waiting", "handling"}
               PROVE  iterator[r].state \in {"reading", "waiting", "handling"}
    BY DEF Open
  <2>1. /\ r \in Reading => iterator'[r] = AfterRead(iterator[r], Formula(loop.taken))
        /\ r \notin Reading =>
               iterator'[r] = AfterEvents(iterator[r], Formula(loop.taken),
                                          loop.stopped /\ iteratorCount > 0)
    BY <1>1 DEF FormulaReturns
  <2>2. CASE r \in Reading
    <3>1. iterator[r].state \in {"reading", "leaving"}
      BY <2>2, FormulaCellAssumption DEF Reading
    <3> QED
      BY <2>1, <2>2, <3>1 DEF AfterRead, Closed
  <2>3. CASE r \notin Reading
    BY <2>1, <2>3 DEF AfterEvents
  <2> QED
    BY <2>2, <2>3
<1>2. CASE iterator' = iterator
  BY <1>2 DEF Open
<1> QED
  BY <1>1, <1>2 DEF CellStep, Change, InputUpdates, Read, DecrementIterators,
                    FormulaThrows, readerVars

LEMMA OthersOpen ==
  ASSUME IInv, NEW r \in Iterators, ReaderStep(r)
  PROVE  Open' \subseteq Open \union {r}
<1>1. PICK it : iterator' = [iterator EXCEPT ![r] = it]
  BY DEF ReaderStep, ForEach, AsyncIterator, NextValue, Stop
<1>2. iterator \in [Iterators -> CellIterators]
  BY DEF IInv, TypeOK, CellIterators
<1>3. \A s \in Iterators \ {r} : s \in Open' <=> s \in Open
  BY <1>1, <1>2, OnlyOne
<1>4. Open' \subseteq Iterators
  BY DEF Open
<1> HIDE DEF Open
<1> QED
  BY <1>3, <1>4

LEMMA CellOnly ==
  ASSUME PollingInv, IInv', UNCHANGED pageVars, Open' \intersect Polls \subseteq Open
  PROVE  PollingInv'
<1>1. PageTypeOK'
  BY DEF PollingInv, PageTypeOK, pageVars
<1> HIDE DEF Open
<1>2. IteratesForOpenPolls'
  BY DEF PollingInv, IteratesForOpenPolls, pageVars
<1> QED
  BY <1>1, <1>2 DEF PollingInv

LEMMA PollingStepOK == PollingInv /\ [LongPollingNext]_pollVars => PollingInv'
<1> SUFFICES ASSUME PollingInv, [LongPollingNext]_pollVars PROVE PollingInv'
  OBVIOUS
<1>1. CASE CellStep /\ UNCHANGED pageVars
  BY <1>1, CellStepOK, CellStepOpens, CellOnly DEF PollingInv
<1>2. ASSUME NEW r \in Iterators \ Polls, ReaderStep(r), UNCHANGED pageVars
      PROVE  PollingInv'
  BY <1>2, ReaderStepOK, OthersOpen, CellOnly DEF PollingInv
<1>3. CASE UNCHANGED pollVars
  <2>1. UNCHANGED vars /\ UNCHANGED pageVars
    BY <1>3 DEF pollVars
  <2>2. Open' = Open
    BY <2>1 DEF Open, vars, readerVars
  <2> QED
    BY <2>1, <2>2, UnchangedOK, CellOnly DEF PollingInv
<1> QED
  BY <1>1, <1>2, <1>3, PageStepOK, ZeroIteratorsOK DEF LongPollingNext

\* Polls keep the invariant of the cell that they iterate, as readers do
\* (LongPollingController.ts).
THEOREM PollingInvariance == LongPollingSpec => []PollingInv
BY PollInitOK, PollingStepOK, PTL DEF LongPollingSpec

-----------------------------------------------------------------------------
(* The theorems.                                                            *)

\* The types of the page, its polls and the cell.
THEOREM PollsTypeCorrect == LongPollingSpec => []LongPollingTypeOK
<1>1. PollingInv => LongPollingTypeOK
  BY DEF PollingInv, IInv, PageTypeOK, PollType, LongPollingTypeOK
<1> QED
  BY <1>1, PollingInvariance, PTL

\* With polls among the iterators, iteratorCount counts the readers of the cell
\* (iterateInputs, decrementIterators).
THEOREM PollsAreCounted == LongPollingSpec => []CountsReaders
<1>1. PollingInv => CountsReaders
  BY InvImpliesProperties DEF PollingInv
<1> QED
  BY <1>1, PollingInvariance, PTL

\* With polls among the iterators, as long as the formula has not thrown: whoever
\* awaits the first value has a loop that nobody has told to stop, and a poll that
\* awaits a change has a loop, which may have been told to stop, or the cell has
\* ended (iterateInputs, 'zero-iterators').
THEOREM PollsAreServed == LongPollingSpec => []ServedWhileRead
<1>1. PollingInv => ServedWhileRead
  BY InvImpliesProperties DEF PollingInv
<1> QED
  BY <1>1, PollingInvariance, PTL

\* A poll that is over has left the cell, however it ended (longPoll).
THEOREM PollsLeaveTheCell == LongPollingSpec => []IteratesForOpenPolls
<1>1. PollingInv => IteratesForOpenPolls
  BY DEF PollingInv
<1> QED
  BY <1>1, PollingInvariance, PTL
=============================================================================
