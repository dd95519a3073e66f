---------------------------- MODULE MCLongPolling ----------------------------
(* Constants of LongPolling and FormulaCell for TLC. *)
EXTENDS LongPolling

CONSTANTS network, time

\* Does not change with every change of its inputs.
Both(values) == values[network] * values[time]

NoCalls == [c \in Calls |-> "none"]

\* Readers are those of the background page, or a page and its polls; with these,
\* one input changes, and of a change, a timeout and a second view two happen.
PollsOnly ==
    /\ opens = 0 /\ call' = NoCalls
    /\ inputs[time] = 1 /\ inputs'[time] = 1
    /\ views' + changes' + timeouts' <= 3

NarrowNext ==
    \/ views = 0 /\ CellStep /\ UNCHANGED pageVars
    \/ \E r \in Iterators \ Polls : views = 0 /\ ReaderStep(r) /\ UNCHANGED pageVars
    \/ views > 0 /\ CellStep /\ UNCHANGED pageVars /\ PollsOnly
    \/ \E p \in Polls : PageStep(p) /\ PollsOnly
    \/ ZeroIterators

NarrowSpec == LongPollingInit /\ [][NarrowNext]_pollVars /\ LongPollingFairness
=============================================================================
