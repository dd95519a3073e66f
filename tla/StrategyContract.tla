--------------------------- MODULE StrategyContract ---------------------------
(****************************************************************************)
(* What BundleService expects of an aggregation strategy                    *)
(* (app/AggregationStrategy.ts): it is given rows, and answers once which   *)
(* of them are in the aggregate and which have failed.                      *)
(****************************************************************************)
EXTENDS BundleTable, Functions, Sequences

VARIABLES
    given,    \* the eligible rows
    answer    \* included and failed rows, once the run is over

NoAnswer == [over |-> FALSE, included |-> <<>>, failed |-> {}]

Init == given \in SUBSET Rows /\ answer = NoAnswer

\* Each row of the aggregate is in it once.
Answer ==
    /\ ~answer.over /\ answer'.over
    /\ IsResult(given, Range(answer'.included), answer'.failed)
    /\ IsInjective(answer'.included)
    /\ UNCHANGED given

\* A run ends, whatever the simulations show.
Ends == <>answer.over

\* A run answers once, about the rows it was given.
Answers == Init /\ [][Answer]_<<given, answer>>

Spec == Answers /\ Ends
=============================================================================
