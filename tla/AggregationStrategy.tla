------------------------- MODULE AggregationStrategy -------------------------
(****************************************************************************)
(* The aggregation strategy (aggregator/src/app/AggregationStrategy.ts):    *)
(* which of the eligible rows go into the aggregate, and which have failed. *)
(*                                                                          *)
(* A run filters rows that conflict, then checks candidates round by round  *)
(* and adds the ones that fit, then checks the aggregate as a whole.  Each  *)
(* check simulates bundles on the chain as it is at that time, so a row     *)
(* that is checked twice may have two outcomes.                             *)
(*                                                                          *)
(* Fees are paid in ether and one unit of gas costs one unit of fee, as     *)
(* long as a run lasts.                                                     *)
(*                                                                          *)
(* Rows are in the order of their ids wherever the code keeps a list of     *)
(* them, so the list is modelled as the set of its rows.                    *)
(****************************************************************************)
EXTENDS Integers, Sequences, FiniteSets, SequencesExt

CONSTANTS
    Rows,               \* ids, which the query orders rows by
    KeyNonces,          \* pairs of a public key and a nonce
    Operations,         \* the operations of each row, as KeyNonces
    MarginalGas,        \* what the operations of a row may cost
    Fees,               \* what a row may pay
    bundleOverheadGas,
    maxGasPerBundle,
    bundleCheckingConcurrency,
    requireFees,        \* whether there is a fee config
    allowLosses,
    breakeven,          \* breakevenOperationCount, as a fraction
    Drift               \* how far the aggregate's gas is from its estimate

ASSUME StrategyAssumption ==
    /\ Rows \subseteq Nat \ {0} /\ IsFiniteSet(Rows)
    /\ Operations \in [Rows -> Seq(KeyNonces)]
    /\ MarginalGas \subseteq Nat /\ Fees \subseteq Int
    /\ bundleOverheadGas \in Nat /\ maxGasPerBundle \in Nat
    /\ bundleCheckingConcurrency \in Nat \ {0}
    /\ requireFees \in BOOLEAN /\ allowLosses \in BOOLEAN
    /\ breakeven \in [num: Nat \ {0}, den: Nat \ {0}]
    /\ Drift \subseteq Int

VARIABLES
    step,
    rows,          \* the rows of this run, as they were given
    keys,          \* pairs whose conflicts are not filtered yet
    eligible,      \* eligibleRows
    checks,        \* rowChecks of this round that are not considered yet,
                   \* for each row what its simulation showed
    added,         \* whether this round included a row
    aggregateGas,
    included,      \* includedRows
    expectedFee,
    failed         \* failedRows

vars == <<step, rows, keys, eligible, checks, added, aggregateGas, included,
          expectedFee, failed>>

\* What a simulation of a row's bundle shows.
Simulations == [ok: BOOLEAN, gas: MarginalGas, fee: Fees]

TypeOK ==
    /\ step \in {"filter", "augment", "round", "check", "done"}
    /\ rows \subseteq Rows
    /\ keys \subseteq KeyNonces
    /\ eligible \subseteq Rows
    /\ \E checked \in SUBSET Rows : checks \in [checked -> Simulations]
    /\ added \in BOOLEAN
    /\ aggregateGas \in {bundleOverheadGas} \union (0..maxGasPerBundle)
    /\ included \in Seq(Rows)
    /\ expectedFee \in Int
    /\ failed \subseteq Rows

KeysOf(r) == Range(Operations[r])

\* The first of some rows, or of some indices.
First(s) == CHOOSE n \in s : \A m \in s : n <= m

\* A Map has its keys in the order in which they were first set: by row, then
\* by operation.
NextKey ==
    LET row == First({r \in rows : KeysOf(r) \intersect keys # {}})
    IN  Operations[row][First({i \in DOMAIN Operations[row] :
                                   Operations[row][i] \in keys})]

\* A run is given the rows that are eligible.
Init ==
    /\ step = "filter"
    /\ rows \in SUBSET Rows
    /\ keys = UNION {KeysOf(r) : r \in rows}
    /\ eligible = rows
    /\ checks = <<>> /\ added = FALSE
    /\ aggregateGas = bundleOverheadGas
    /\ included = <<>> /\ expectedFee = 0
    /\ failed = {}

-----------------------------------------------------------------------------
(* Fees                                                                     *)

Ceiling(a, b) == (a + b - 1) \div b

\* Mutated: the share of the overhead is rounded down.
FloorContribution(n) ==
    (bundleOverheadGas * n * breakeven.den) \div breakeven.num

OverheadContribution(n) ==
    Ceiling(bundleOverheadGas * n * breakeven.den, breakeven.num)

\* A row pays for its own gas and for its share of the overhead.
RequiredFee(r, sim) ==
    IF requireFees
    THEN sim.gas + OverheadContribution(Len(Operations[r]))
    ELSE 0

Success(r, sim) == sim.ok /\ (requireFees => sim.fee >= RequiredFee(r, sim))

ExcessFee(r, sim) == sim.fee - RequiredFee(r, sim)

OperationCount(s) == Len(FlattenSeq([i \in DOMAIN s |-> Operations[s[i]]]))

ReachesBreakeven(s) == OperationCount(s) * breakeven.den >= breakeven.num

-----------------------------------------------------------------------------
(* A run                                                                    *)

\* The first of the rows with the highest excess fee.
PickBest(group, sims) ==
    First({r \in group : \A q \in group :
               ExcessFee(r, sims[r]) >= ExcessFee(q, sims[q])})

Having(some, key) == {r \in some : key \in KeysOf(r)}

NoConflictIn(group) == \A q, r \in group : q = r

\* Mutated: rows that another conflict removed are picked from as well.
FilterFromAllRows ==
    /\ step = "filter" /\ keys # {}
    /\ LET group == Having(rows, NextKey)
       IN  IF NoConflictIn(group)
           THEN UNCHANGED eligible
           ELSE \E sims \in [group -> Simulations] :
                    eligible' = eligible \ (group \ {PickBest(group, sims)})
    /\ keys' = keys \ {NextKey}
    /\ UNCHANGED <<step, rows, checks, added, aggregateGas, included,
                   expectedFee, failed>>

\* Mutated: one of the rows that conflict with the best one is removed.
FilterOneConflict ==
    /\ step = "filter" /\ keys # {}
    /\ LET group == Having(eligible, NextKey)
       IN  IF NoConflictIn(group)
           THEN UNCHANGED eligible
           ELSE \E sims \in [group -> Simulations] :
                    \E r \in group \ {PickBest(group, sims)} :
                        eligible' = eligible \ {r}
    /\ keys' = keys \ {NextKey}
    /\ UNCHANGED <<step, rows, checks, added, aggregateGas, included,
                   expectedFee, failed>>

\* Of the rows that have an operation in common, the best one stays.
FilterRows ==
    /\ step = "filter" /\ keys # {}
    /\ LET group == Having(eligible, NextKey)
       IN  IF NoConflictIn(group)
           THEN UNCHANGED eligible
           ELSE \E sims \in [group -> Simulations] :
                    eligible' = eligible \ (group \ {PickBest(group, sims)})
    /\ keys' = keys \ {NextKey}
    /\ UNCHANGED <<step, rows, checks, added, aggregateGas, included,
                   expectedFee, failed>>

FilterEnds ==
    /\ step = "filter" /\ keys = {}
    /\ step' = "augment"
    /\ UNCHANGED <<rows, keys, eligible, checks, added, aggregateGas,
                   included, expectedFee, failed>>

Candidates ==
    {r \in eligible :
        Cardinality({q \in eligible : q < r}) < bundleCheckingConcurrency}

\* A round: the next candidates are checked at the same time.
CheckCandidates ==
    /\ step = "augment"
    /\ step' = "round"
    /\ added' = FALSE
    /\ \E sims \in [Candidates -> Simulations] : checks' = sims
    /\ eligible' = eligible \ Candidates
    /\ UNCHANGED <<rows, keys, aggregateGas, included, expectedFee, failed>>

\* Mutated: the gas of the rows before this one is forgotten.
ConsiderRowAlone ==
    /\ step = "round" /\ DOMAIN checks # {}
    /\ LET row == First(DOMAIN checks)
           sim == checks[row]
           fits == bundleOverheadGas + sim.gas <= maxGasPerBundle
       IN  /\ checks' = Restrict(checks, DOMAIN checks \ {row})
           /\ \/ /\ ~Success(row, sim)
                 /\ failed' = failed \union {row}
                 /\ UNCHANGED <<added, aggregateGas, included, expectedFee>>
              \/ /\ Success(row, sim) /\ ~fits
                 /\ UNCHANGED <<added, aggregateGas, included, expectedFee, failed>>
              \/ /\ Success(row, sim) /\ fits
                 /\ added' = TRUE
                 /\ aggregateGas' = aggregateGas + sim.gas
                 /\ included' = Append(included, row)
                 /\ expectedFee' = expectedFee + sim.fee
                 /\ UNCHANGED failed
    /\ UNCHANGED <<step, rows, keys, eligible>>

\* A row that would take the aggregate over the limit is left for later.
ConsiderRow ==
    /\ step = "round" /\ DOMAIN checks # {}
    /\ LET row == First(DOMAIN checks)
           sim == checks[row]
           fits == aggregateGas + sim.gas <= maxGasPerBundle
       IN  /\ checks' = Restrict(checks, DOMAIN checks \ {row})
           /\ \/ /\ ~Success(row, sim)
                 /\ failed' = failed \union {row}
                 /\ UNCHANGED <<added, aggregateGas, included, expectedFee>>
              \/ /\ Success(row, sim) /\ ~fits
                 /\ UNCHANGED <<added, aggregateGas, included, expectedFee, failed>>
              \/ /\ Success(row, sim) /\ fits
                 /\ added' = TRUE
                 /\ aggregateGas' = aggregateGas + sim.gas
                 /\ included' = Append(included, row)
                 /\ expectedFee' = expectedFee + sim.fee
                 /\ UNCHANGED failed
    /\ UNCHANGED <<step, rows, keys, eligible>>

\* The last round is the first one that adds no row.
RoundEnds ==
    /\ step = "round" /\ DOMAIN checks = {}
    /\ step' = IF added THEN "augment"
               ELSE IF included = <<>> THEN "done"
               ELSE "check"
    /\ UNCHANGED <<rows, keys, eligible, checks, added, aggregateGas,
                   included, expectedFee, failed>>

\* Mutated: the rows of the failure sample stay included.
PreventLossesKeepsRows ==
    IF ~ReachesBreakeven(included)
    THEN included' = <<>> /\ UNCHANGED failed
    ELSE /\ \E sample \in SUBSET Range(included) :
                /\ Cardinality(sample) = Len(included) \div 2
                /\ failed' = failed \union sample
         /\ UNCHANGED included

\* An aggregate that would make a loss waits for more operations, or half of
\* its rows, rounded down, are marked as failed.
PreventLosses ==
    /\ included' = <<>>
    /\ IF ~ReachesBreakeven(included)
       THEN UNCHANGED failed
       ELSE \E sample \in SUBSET Range(included) :
                /\ Cardinality(sample) = Len(included) \div 2
                /\ failed' = failed \union sample

\* The gas of the aggregate is estimated again, as a whole.
CheckAggregate ==
    /\ step = "check"
    /\ step' = "done"
    /\ \E drift \in Drift :
           IF requireFees /\ ~allowLosses /\ expectedFee < aggregateGas + drift
           THEN PreventLosses
           ELSE UNCHANGED <<included, failed>>
    /\ UNCHANGED <<rows, keys, eligible, checks, added, aggregateGas, expectedFee>>

Next ==
    \/ FilterRows \/ FilterEnds
    \/ CheckCandidates \/ ConsiderRow \/ RoundEnds
    \/ CheckAggregate

Spec == Init /\ [][Next]_vars /\ WF_vars(Next)

-----------------------------------------------------------------------------
(* Properties                                                               *)

\* No two rows of an aggregate have an operation of the same key and nonce:
\* only one of them could run (filterRows).
NoConflicts ==
    \A i, j \in DOMAIN included :
        i # j => KeysOf(included[i]) \intersect KeysOf(included[j]) = {}

\* However the rows conflict, and whichever is best in each conflict, some
\* row passes the filter, so a run makes progress (filterRows, pickBest).
SomeRowStays ==
    step = "augment" /\ included = <<>> /\ failed = {} /\ ~added /\ rows # {} =>
        eligible # {}

Contract == INSTANCE StrategyContract WITH
    given <- rows,
    answer <- IF step = "done"
              THEN [over |-> TRUE, included |-> included, failed |-> failed]
              ELSE [over |-> FALSE, included |-> <<>>, failed |-> {}]

\* The strategy is what BundleService expects of one: a run ends, its aggregate
\* has a row once, and no row is both in it and failed, whatever the failure
\* sample and the simulations of later rounds are (runSubmission).
MeetsContract == Contract!Spec

\* Rows that each pay for their gas and their share of the overhead pay for
\* the whole aggregate, as soon as it has breakevenOperationCount operations
\* and its gas is what its rows were estimated at (README.md:224-230).
PaysAtBreakeven ==
    requireFees /\ included # <<>> /\ ReachesBreakeven(included) =>
        expectedFee >= aggregateGas
=============================================================================
