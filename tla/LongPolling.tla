----------------------------- MODULE LongPolling -----------------------------
(****************************************************************************)
(* A page that follows a derived cell of the background page: the page's    *)
(* LongPollingCell asks with longPoll for a value that differs from the one *)
(* it has, and the background's LongPollingController iterates the cell     *)
(* until there is one (cells/LongPollingCell.ts,                            *)
(* background/LongPollingController.ts).                                    *)
(*                                                                          *)
(* The page shows the cell while it is viewed; how the page's own cell      *)
(* counts its viewers is that of any FormulaCell, so only its events        *)
(* 'first-iterator' and 'zero-iterators' are actions here.  Its formula     *)
(* polls too, for a first value before that of the loop: it is left out.    *)
(****************************************************************************)
EXTENDS FormulaCell

CONSTANTS
    Polls,      \* iterators of the background that serve long polls
    MaxViews,   \* bound on how often the page begins to view the cell
    MaxTimeouts \* bound on polls that take five minutes

ASSUME PollsAssumption == Polls \subseteq Iterators

VARIABLES
    viewing,        \* whether the page's cell has iterators
    views,          \* how often it began to
    shown,          \* latest, in LongPollingCell
    sharedCancel,   \* the poll that sharedCancel cancels
    poll,           \* of each loop of the page: the poll it awaits
    timeouts        \* how many took five minutes

pageVars == <<viewing, views, shown, sharedCancel, poll, timeouts>>
pollVars == <<vars, pageVars>>

\* "sent": on its way to the background; "open": iterating there; "answered": the
\* result is on its way back.  cancelled: longPollCancel is on its way.
PollStates == {"none", "sent", "open", "answered"}
PollResults == {"value", "please-retry", "cancelled", "error"}

NoPoll ==
    [state |-> "none", different |-> None, result |-> "error", value |-> None,
     cancelled |-> FALSE, awaited |-> FALSE]

PageInit ==
    /\ viewing = FALSE /\ views = 0
    /\ shown = None
    /\ sharedCancel = None
    /\ poll = [p \in Polls |-> NoPoll]
    /\ timeouts = 0

-----------------------------------------------------------------------------
(* The page.                                                                *)

Sent(different, awaited) ==
    [NoPoll EXCEPT !.state = "sent", !.different = different, !.awaited = awaited]

\* The loop of 'first-iterator'.  When sharedCancel is set its assertion fails, but
\* the poll was sent.
FirstIterator(p) ==
    /\ ~viewing /\ views < MaxViews
    /\ viewing' = TRUE /\ views' = views + 1
    /\ poll[p] = NoPoll
    /\ poll' = [poll EXCEPT ![p] = Sent(shown, sharedCancel = None)]
    /\ sharedCancel' = IF sharedCancel = None THEN p ELSE sharedCancel
    /\ UNCHANGED <<shown, timeouts, vars>>

\* Its assertion fails when there is nothing to cancel.
ZeroIterators ==
    /\ viewing
    /\ viewing' = FALSE
    /\ IF sharedCancel = None
       THEN UNCHANGED <<shown, sharedCancel, poll>>
       ELSE /\ poll' = [poll EXCEPT ![sharedCancel].cancelled = TRUE]
            /\ sharedCancel' = None
            /\ shown' = None
    /\ UNCHANGED <<views, timeouts, vars>>

\* Mutated: a poll that has timed out is not repeated.
ContinuesWithValue(result) == result = "value"

Continues(result) == result \in {"value", "please-retry"}

\* A loop has its result: it is over, or polls again.
PageGets(p) ==
    /\ poll[p].state = "answered"
    /\ LET result == poll[p].result
           goesOn == poll[p].awaited /\ Continues(result)
       IN  /\ shown' = IF goesOn /\ result = "value" THEN poll[p].value ELSE shown
           /\ poll' = [poll EXCEPT ![p] = IF goesOn THEN Sent(shown', TRUE) ELSE NoPoll]
           /\ sharedCancel' =
                  IF goesOn THEN p
                  ELSE IF poll[p].awaited /\ result # "error" THEN None
                  ELSE sharedCancel
    /\ UNCHANGED <<viewing, views, timeouts, vars>>

-----------------------------------------------------------------------------
(* The background.                                                          *)

\* longPoll
PollArrives(p) ==
    /\ poll[p].state = "sent"
    /\ AsyncIterator(p)
    /\ poll' = [poll EXCEPT ![p].state = "open"]
    /\ UNCHANGED <<opens, viewing, views, shown, sharedCancel, timeouts>>

Different(p) ==
    poll[p].different = None \/ poll[p].different # iterator[p].provided

\* A poll of a cell that has ended throws.
Answer(p, result) ==
    poll' = [poll EXCEPT ![p].state = "answered", ![p].value = iterator[p].provided,
                         ![p].result = IF ended THEN "error" ELSE result]

\* The loop of longPoll breaks with a value that differs, which returns the
\* iterator, and otherwise asks for the next.
PollHandles(p) ==
    /\ poll[p].state = "open"
    /\ iterator[p].state = "handling"
    /\ IF Different(p)
       THEN /\ iterator' = [iterator EXCEPT ![p] = Closed]
            /\ delays' = delays + 1
            /\ Answer(p, "value")
            /\ UNCHANGED <<inputVars, loopVars, iteratorCount, ended, opens, left, call>>
       ELSE NextValue(p) /\ UNCHANGED poll
    /\ UNCHANGED <<viewing, views, shown, sharedCancel, timeouts>>

\* Mutated: a poll gives up, but not its iteration.
PollAnswers(p, result) ==
    /\ poll[p].state = "open"
    /\ iterator[p].state \in {"reading", "waiting"}
    /\ Answer(p, result)
    /\ UNCHANGED <<vars, viewing, views, shown, sharedCancel>>

\* The iteration was stopped while it was in next().
PollStops(p, result) ==
    /\ poll[p].state = "open"
    /\ iterator[p].state \in {"reading", "waiting"}
    /\ Stop(p)
    /\ Answer(p, result)
    /\ UNCHANGED <<viewing, views, shown, sharedCancel>>

\* maxWaitTime, five minutes, is over.
PollTimesOut(p) ==
    /\ timeouts < MaxTimeouts
    /\ timeouts' = timeouts + 1
    /\ PollStops(p, "please-retry")

PollCancelled(p) ==
    /\ poll[p].cancelled
    /\ PollStops(p, "cancelled")
    /\ UNCHANGED timeouts

\* The iteration ended with the cell.
PollEnds(p) ==
    /\ poll[p].state = "open"
    /\ iterator[p].state = "done"
    /\ Answer(p, "error")
    /\ UNCHANGED <<vars, viewing, views, shown, sharedCancel, timeouts>>

-----------------------------------------------------------------------------
PageStep(p) ==
    \/ FirstIterator(p)
    \/ PageGets(p)
    \/ PollArrives(p)
    \/ PollHandles(p)
    \/ PollTimesOut(p)
    \/ PollCancelled(p)
    \/ PollEnds(p)

LongPollingInit == Init /\ PageInit

LongPollingNext ==
    \/ CellStep /\ UNCHANGED pageVars
    \/ \E r \in Iterators \ Polls : ReaderStep(r) /\ UNCHANGED pageVars
    \/ \E p \in Polls : PageStep(p)
    \/ ZeroIterators

\* That of the cell; and messages arrive, in both directions, and a page takes its
\* answers.
LongPollingFairness ==
    /\ \A i \in Inputs : WF_pollVars(InputUpdates(i) /\ UNCHANGED pageVars)
    /\ \A r \in Iterators \ Polls : WF_pollVars(NextValue(r) /\ UNCHANGED pageVars)
    /\ WF_pollVars(DecrementIterators /\ UNCHANGED pageVars)
    /\ WF_pollVars((FormulaReturns \/ FormulaThrows) /\ UNCHANGED pageVars)
    /\ \A p \in Polls :
           /\ WF_pollVars(PollArrives(p) \/ PollHandles(p) \/ PollCancelled(p))
           /\ WF_pollVars(PageGets(p))

LongPollingSpec ==
    LongPollingInit /\ [][LongPollingNext]_pollVars /\ LongPollingFairness

-----------------------------------------------------------------------------
(* Properties.                                                              *)

LongPollingTypeOK ==
    /\ TypeOK
    /\ {viewing} \subseteq BOOLEAN /\ {views, timeouts} \subseteq Nat
    /\ shown \in Results \union {None}
    /\ sharedCancel \in Polls \union {None}
    /\ poll \in [Polls -> [state: PollStates, different: Results \union {None},
                           result: PollResults, value: Results \union {None},
                           cancelled: BOOLEAN, awaited: BOOLEAN]]

\* However a poll ends, with a value, in time or not, cancelled or with the cell: the
\* background iterates the cell for polls that are open only, so that a cell nobody
\* polls can rest (LongPollingController.ts:59-78, Stoppable.ts).
IteratesForOpenPolls ==
    \A p \in Polls : p \in Open => poll[p].state = "open"

\* However polls time out, are cancelled too late or overlap with those of an
\* earlier view, whose end forgets what sharedCancel cancels: a page that views the
\* cell shows its value in the end (LongPollingCell.ts, longPoll).
PageShowsLatest ==
    []<>(\/ ended \/ loop.state = "failed"
         \/ viewing => shown = Formula(inputs))
=============================================================================
