----------------------- MODULE MCAggregationStrategy -----------------------
(* Constants of AggregationStrategy for TLC.                                *)
EXTENDS AggregationStrategy

\* Each two of the first three rows have an operation in common, and three
\* rows have one.
CyclicOperations == << <<"a", "c">>, <<"a", "b">>, <<"b", "c">>, <<"a">> >>

TwoAndAHalf == [num |-> 5, den |-> 2]

Drifts == {-1, 0, 2}
=============================================================================
