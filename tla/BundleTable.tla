----------------------------- MODULE BundleTable -----------------------------
(****************************************************************************)
(* The table of bundles (aggregator/src/app/BundleTable.ts): what its       *)
(* queries do to the rows.  All queries of the process go through one       *)
(* database connection, so whatever is written while a query group is open  *)
(* is part of that group's transaction.                                     *)
(*                                                                          *)
(* Block numbers are relative to the current block: a row is eligible after *)
(* wait more blocks.  A bundle's hash is the id of its row, an aggregate's  *)
(* hash is the set of rows it aggregates.                                   *)
(****************************************************************************)
EXTENDS Naturals, FiniteSets

CONSTANT Rows   \* row ids: 1, 2, ... up to a bound

ASSUME RowsAssumption == Rows \subseteq Nat \ {0}

Statuses == {"pending", "confirmed", "failed"}

\* "none": there is no row with this id.
Row ==
    [ status: Statuses \union {"none"},
      wait: Nat,
      nextEligibilityDelay: Nat,
      aggregate: SUBSET Rows ]

NoRow ==
    [status |-> "none", wait |-> 0, nextEligibilityDelay |-> 0, aggregate |-> {}]

\* A bundle that was just added may be submitted at once.
NewRow ==
    [status |-> "pending", wait |-> 0, nextEligibilityDelay |-> 1, aggregate |-> {}]

Present(rows, r) == rows[r].status # "none"

\* Blocks are counted down for every row, the eligible ones included.
NextBlock(rows) ==
    [r \in Rows |-> [rows[r] EXCEPT !.wait = IF @ = 0 THEN 0 ELSE @ - 1]]

Add(rows, id) == [rows EXCEPT ![id] = NewRow]

\* An update of a row that was deleted finds no row to change.
Update(rows, changed) ==
    [r \in Rows |-> IF r \in DOMAIN changed /\ Present(rows, r) THEN changed[r]
                    ELSE rows[r]]

Eligible(rows) == {r \in Rows : rows[r].status = "pending" /\ rows[r].wait = 0}

\* ORDER BY id LIMIT limit
FindEligible(rows, limit) ==
    {r \in Eligible(rows) : Cardinality({q \in Eligible(rows) : q < r}) < limit}

Clear == [r \in Rows |-> NoRow]

\* A result of the aggregation strategy: a row of the aggregate has not failed,
\* or it could be delayed or given up while it is being submitted.
IsResult(eligible, included, failed) ==
    /\ included \union failed \subseteq eligible
    /\ included \intersect failed = {}

\* Mutated: rows are written in any order.
PartsInAnyOrder(aggregate) == {part \in SUBSET aggregate : part # aggregate}

\* The parts of an aggregate that are written when its rows are not all
\* written: rows are written in the order of their ids.
FirstParts(aggregate) ==
    {part \in SUBSET aggregate :
        part # aggregate /\ \A r \in part, q \in aggregate \ part : r < q}

\* The confirmed rows of an aggregate.
FindAggregateBundle(rows, aggregate) ==
    {r \in Rows : rows[r].status = "confirmed" /\ rows[r].aggregate = aggregate}
=============================================================================
