-------------------------- MODULE FormulaCellProofs --------------------------
(****************************************************************************)
(* For any inputs, formula, iterators and calls: the types of FormulaCell,  *)
(* that its iteratorCount counts its readers (CountsReaders), and that no   *)
(* reader is left without a loop (ServedWhileRead).                         *)
(*                                                                          *)
(* The second rests on the first: a loop is told to stop when the count is  *)
(* zero, so nobody reads then.  Why a reader that comes while the loop is   *)
(* ending never waits for it: a cell that has no value yet is one that      *)
(* somebody waits for, so its count is not zero and its loop not stopped.   *)
(****************************************************************************)
EXTENDS FormulaCell, FiniteSetTheorems, TLAPS

\* Iterations that were begun and neither left nor stopped.
Begun == Open \union Done

Counted ==
    /\ IsFiniteSet(Begun) /\ IsFiniteSet(Reading)
    /\ iteratorCount = Cardinality(Begun) + Cardinality(Reading) + delays + left

LoopOK ==
    /\ loop = Loop(loop.state, loop.stopped, loop.taken)
    /\ loop.stopped \in BOOLEAN
    /\ loop.stopped => loop.state \in {"running", "failed"}
    /\ updated => Filled(latest)

\* The cell has no value, none yet, or one, as its loop and its readers say.
CellOK ==
    /\ loop.state = "none" <=> iterationCell = None
    /\ loop.state # "failed" =>
           /\ iterationCell = Pending <=> Reading # {}
           /\ Reading # {} => ~loop.stopped
           /\ (\E r \in Iterators : iterator[r].state = "waiting") =>
                  ended \/ loop.state # "none"

IInv ==
    /\ TypeOK
    /\ LoopOK
    /\ Counted
    /\ CellOK

-----------------------------------------------------------------------------
(* Readers, one at a time.                                                  *)

CellIterators == [state: IteratorStates, provided: Results \union {None},
                  hearsEnd: BOOLEAN]

BegunStates == {"reading", "waiting", "handling", "done"}
ReadingStates == {"reading", "leaving"}

\* One more in a set, one less, or as many.
LEMMA SizeOK ==
  ASSUME NEW S, NEW x, IsFiniteSet(S)
  PROVE  /\ IsFiniteSet(S \union {x}) /\ IsFiniteSet(S \ {x})
         /\ Cardinality(S) \in Nat
         /\ Cardinality(S \union {x}) = IF x \in S THEN Cardinality(S) ELSE Cardinality(S) + 1
         /\ Cardinality(S \ {x}) = IF x \in S THEN Cardinality(S) - 1 ELSE Cardinality(S)
         /\ x \in S => Cardinality(S) > 0
<1>1. /\ IsFiniteSet(S \union {x}) /\ IsFiniteSet(S \ {x})
      /\ Cardinality(S \union {x}) = IF x \in S THEN Cardinality(S) ELSE Cardinality(S) + 1
      /\ Cardinality(S \ {x}) = IF x \in S THEN Cardinality(S) - 1 ELSE Cardinality(S)
  BY FS_AddElement, FS_RemoveElement
<1>2. Cardinality(S) \in Nat /\ Cardinality(S \ {x}) \in Nat
  BY <1>1, FS_CardinalityType
<1> QED
  BY <1>1, <1>2

\* What the step of one iterator does to the sets that are counted.
LEMMA IteratorChanges ==
  ASSUME TypeOK, IsFiniteSet(Begun), IsFiniteSet(Reading),
         NEW r \in Iterators, NEW it \in CellIterators,
         iterator' = [iterator EXCEPT ![r] = it], call' = call
  PROVE  /\ iterator' \in [Iterators -> CellIterators]
         /\ IsFiniteSet(Begun') /\ IsFiniteSet(Reading')
         /\ Cardinality(Begun) \in Nat /\ Cardinality(Reading) \in Nat
         /\ Cardinality(Begun') =
                IF r \in Begun
                THEN Cardinality(Begun) - (IF it.state \in BegunStates THEN 0 ELSE 1)
                ELSE Cardinality(Begun) + (IF it.state \in BegunStates THEN 1 ELSE 0)
         /\ Cardinality(Reading') =
                IF r \in Reading
                THEN Cardinality(Reading) - (IF it.state \in ReadingStates THEN 0 ELSE 1)
                ELSE Cardinality(Reading) + (IF it.state \in ReadingStates THEN 1 ELSE 0)
         /\ r \in Begun <=> iterator[r].state \in BegunStates
         /\ r \in Reading <=> iterator[r].state \in ReadingStates
         /\ Reading' = IF it.state \in ReadingStates THEN Reading \union {r} ELSE Reading \ {r}
         /\ \A s \in Iterators : iterator'[s] = IF s = r THEN it ELSE iterator[s]
<1>1. /\ iterator' \in [Iterators -> CellIterators]
      /\ \A s \in Iterators : iterator'[s] = IF s = r THEN it ELSE iterator[s]
  BY DEF TypeOK, CellIterators
<1>2. r \notin Calls
  BY FormulaCellAssumption
<1>3. /\ Begun = {s \in Iterators : iterator[s].state \in BegunStates}
      /\ Begun' = {s \in Iterators : iterator'[s].state \in BegunStates}
  BY DEF Begun, Open, Done, BegunStates
<1>4. Begun' = IF it.state \in BegunStates THEN Begun \union {r} ELSE Begun \ {r}
  BY <1>1, <1>3
<1>5. /\ r \in Begun <=> iterator[r].state \in BegunStates
      /\ r \in Reading <=> iterator[r].state \in ReadingStates
  BY <1>2, <1>3 DEF Reading, ReadingStates
<1>6. Reading' = IF it.state \in ReadingStates THEN Reading \union {r} ELSE Reading \ {r}
  BY <1>1, <1>2 DEF Reading, ReadingStates
<1> HIDE DEF Begun, Reading
<1>7. /\ Cardinality(Begun) \in Nat /\ Cardinality(Reading) \in Nat
      /\ IsFiniteSet(Begun') /\ IsFiniteSet(Reading')
  BY <1>4, <1>6, SizeOK
<1>8. Cardinality(Begun') =
          IF r \in Begun
          THEN Cardinality(Begun) - (IF it.state \in BegunStates THEN 0 ELSE 1)
          ELSE Cardinality(Begun) + (IF it.state \in BegunStates THEN 1 ELSE 0)
  <2>1. /\ Cardinality(Begun \union {r}) =
               IF r \in Begun THEN Cardinality(Begun) ELSE Cardinality(Begun) + 1
        /\ Cardinality(Begun \ {r}) =
               IF r \in Begun THEN Cardinality(Begun) - 1 ELSE Cardinality(Begun)
    BY SizeOK
  <2> QED
    BY <1>4, <1>7, <2>1
<1>9. Cardinality(Reading') =
          IF r \in Reading
          THEN Cardinality(Reading) - (IF it.state \in ReadingStates THEN 0 ELSE 1)
          ELSE Cardinality(Reading) + (IF it.state \in ReadingStates THEN 1 ELSE 0)
  <2>1. /\ Cardinality(Reading \union {r}) =
               IF r \in Reading THEN Cardinality(Reading) ELSE Cardinality(Reading) + 1
        /\ Cardinality(Reading \ {r}) =
               IF r \in Reading THEN Cardinality(Reading) - 1 ELSE Cardinality(Reading)
    BY SizeOK
  <2> QED
    BY <1>6, <1>7, <2>1
<1> QED
  BY <1>1, <1>5, <1>6, <1>7, <1>8, <1>9

\* A read that is over leaves the reader with a value, or waiting for another.
LEMMA AfterReadOK ==
  ASSUME NEW it \in CellIterators, NEW value \in Results
  PROVE  /\ AfterRead(it, value) \in CellIterators
         /\ AfterRead(it, value).state \in
                IF it.state = "leaving" THEN {"closed"} ELSE {"handling", "waiting", "done"}
BY DEF CellIterators, IteratorStates, AfterRead, Closed

LEMMA AfterEventsOK ==
  ASSUME NEW it \in CellIterators, NEW value \in Results, NEW ends
  PROVE  /\ AfterEvents(it, value, ends) \in CellIterators
         /\ IF it.state = "waiting"
            THEN AfterEvents(it, value, ends).state \in {"handling", "waiting", "done"}
            ELSE AfterEvents(it, value, ends) = it
BY DEF CellIterators, IteratorStates, AfterEvents

-----------------------------------------------------------------------------
(* The loop.                                                                *)

\* IInv without its readers.
LoopTypeOK ==
    /\ latest \in UNION {[S -> Values] : S \in SUBSET Inputs}
    /\ updated \in BOOLEAN
    /\ loop.state \in {"none", "waiting", "running", "failed"}
    /\ loop.state = "running" => loop.taken \in [Inputs -> Values]
    /\ iterationCell \in Results \union {None, Pending}
    /\ LoopOK
    /\ loop.state = "none" <=> iterationCell = None

LEMMA NoInputsOK == << >> \in UNION {[S -> Values] : S \in SUBSET Inputs}
<1>1. << >> \in [{} -> Values]
  OBVIOUS
<1> QED
  BY <1>1

LEMMA ResultsOK ==
  ASSUME NEW f \in [Inputs -> Values]
  PROVE  Formula(f) \in Results /\ Formula(f) \notin {None, Pending}
BY FormulaCellAssumption DEF Results

LEMMA IterateInputsOK ==
  ASSUME IInv, NEW n \in Nat, IterateInputs(n)
  PROVE  /\ LoopTypeOK'
         /\ iteratorCount' = iteratorCount + n /\ lastProvided' = lastProvided
         /\ loop'.state # "none"
         /\ loop'.state = "failed" <=> loop.state = "failed"
         /\ IF iterationCell = None
            THEN iterationCell' = Pending /\ ~loop'.stopped
            ELSE iterationCell' = iterationCell /\ loop' = loop
<1>1. CASE iterationCell = None
  <2>1. /\ loop' = Loop("waiting", FALSE, << >>) /\ iterationCell' = Pending
        /\ latest' = << >> /\ updated' = FALSE
    BY <1>1 DEF IterateInputs
  <2>2. LoopTypeOK'
    BY <2>1, NoInputsOK, FormulaCellAssumption DEF LoopTypeOK, LoopOK, Loop
  <2> QED
    BY <1>1, <2>1, <2>2 DEF IterateInputs, Loop, IInv, CellOK
<1>2. CASE iterationCell # None
  <2>1. UNCHANGED <<loop, iterationCell, latest, updated>>
    BY <1>2 DEF IterateInputs
  <2>2. LoopTypeOK'
    BY <2>1 DEF LoopTypeOK, IInv, TypeOK, LoopOK, CellOK, Filled
  <2> QED
    BY <1>2, <2>1, <2>2 DEF IterateInputs, IInv, CellOK
<1> QED
  BY <1>1, <1>2

LEMMA NoLoopOK ==
  ASSUME loop' = NoLoop, iterationCell' = None, NoMoreInputs
  PROVE  LoopTypeOK'
BY NoInputsOK DEF LoopTypeOK, LoopOK, Loop, NoLoop, NoMoreInputs

-----------------------------------------------------------------------------
(* Every action keeps the invariant.                                        *)

OthersTypeOK ==
    /\ inputs \in [Inputs -> Values]
    /\ lastProvided \in Results \union {None}
    /\ iteratorCount \in Nat /\ delays \in Nat
    /\ changes \in Nat /\ opens \in Nat /\ left \in Nat
    /\ ended \in BOOLEAN
    /\ iterator \in [Iterators -> CellIterators]
    /\ call \in [Calls -> {"none", "reading", "over"}]

ServedOK ==
    loop.state # "failed" =>
        /\ iterationCell = Pending <=> Reading # {}
        /\ Reading # {} => ~loop.stopped
        /\ (\E r \in Iterators : iterator[r].state = "waiting") =>
               ended \/ loop.state # "none"

LEMMA Parts == IInv <=> LoopTypeOK /\ OthersTypeOK /\ Counted /\ ServedOK
BY DEF IInv, TypeOK, LoopTypeOK, OthersTypeOK, CellOK, ServedOK, CellIterators

LEMMA PartsNext ==
  ASSUME LoopTypeOK', OthersTypeOK', Counted', ServedOK'
  PROVE  IInv'
BY DEF IInv, TypeOK, LoopTypeOK, OthersTypeOK, CellOK, ServedOK, CellIterators

LEMMA InitOK == Init => IInv
<1> SUFFICES ASSUME Init PROVE IInv
  OBVIOUS
<1>1. LoopTypeOK
  BY NoInputsOK DEF Init, LoopTypeOK, LoopOK, NoLoop, Loop
<1>2. OthersTypeOK
  BY DEF Init, OthersTypeOK, Closed, CellIterators, IteratorStates
<1>3. Begun = {} /\ Reading = {}
  BY DEF Init, Begun, Open, Done, Reading, Closed
<1>4. Counted
  BY <1>3, FS_EmptySet DEF Init, Counted
<1>5. ServedOK
  BY <1>3, FormulaCellAssumption DEF Init, ServedOK, Closed
<1> QED
  BY <1>1, <1>2, <1>4, <1>5, Parts

\* An iterator calls iterateInputs and reads the cell.
LEMMA ReadsAgainOK ==
  ASSUME IInv, NEW r \in Iterators, NEW n \in Nat, NEW it \in CellIterators,
         \/ iterator[r].state = "closed" /\ n = 2
         \/ iterator[r].state = "handling" /\ n = 1,
         it.state \in IF Available THEN {"handling", "waiting", "done"} ELSE {"reading"},
         IterateInputs(n), iterator' = [iterator EXCEPT ![r] = it], ReadEnds,
         opens' \in Nat, UNCHANGED <<inputVars, left, call, ended>>
  PROVE  IInv'
<1>1. LoopTypeOK /\ OthersTypeOK /\ Counted /\ ServedOK /\ TypeOK
  BY Parts DEF IInv
<1>2. /\ IsFiniteSet(Begun) /\ IsFiniteSet(Reading)
      /\ iteratorCount = Cardinality(Begun) + Cardinality(Reading) + delays + left
      /\ iteratorCount \in Nat /\ delays \in Nat /\ left \in Nat
  BY <1>1 DEF Counted, OthersTypeOK
<1>3. /\ LoopTypeOK'
      /\ iteratorCount' = iteratorCount + n /\ lastProvided' = lastProvided
      /\ loop'.state # "none"
      /\ loop'.state = "failed" <=> loop.state = "failed"
      /\ IF iterationCell = None
         THEN iterationCell' = Pending /\ ~loop'.stopped
         ELSE iterationCell' = iterationCell /\ loop' = loop
  BY IterateInputsOK
<1>4. call' = call /\ left' = left /\ ended' = ended
  OBVIOUS
<1>5. /\ r \in Begun <=> iterator[r].state \in BegunStates
      /\ r \in Reading <=> iterator[r].state \in ReadingStates
  BY <1>1, <1>2, <1>4, IteratorChanges
<1>6. /\ iterator' \in [Iterators -> CellIterators]
      /\ IsFiniteSet(Begun') /\ IsFiniteSet(Reading')
      /\ Cardinality(Begun) \in Nat /\ Cardinality(Reading) \in Nat
      /\ Cardinality(Begun') =
             IF r \in Begun
             THEN Cardinality(Begun) - (IF it.state \in BegunStates THEN 0 ELSE 1)
             ELSE Cardinality(Begun) + (IF it.state \in BegunStates THEN 1 ELSE 0)
      /\ Cardinality(Reading') =
             IF r \in Reading
             THEN Cardinality(Reading) - (IF it.state \in ReadingStates THEN 0 ELSE 1)
             ELSE Cardinality(Reading) + (IF it.state \in ReadingStates THEN 1 ELSE 0)
  BY <1>1, <1>2, <1>4, IteratorChanges
<1>7. /\ Reading' = IF it.state \in ReadingStates THEN Reading \union {r}
                                                  ELSE Reading \ {r}
      /\ \A s \in Iterators : iterator'[s] = IF s = r THEN it ELSE iterator[s]
  BY <1>1, <1>2, <1>4, IteratorChanges
<1>8. delays' = IF it.state = "reading" THEN delays ELSE delays + 1
  BY DEF ReadEnds
<1>9. OthersTypeOK'
  <2>1. iteratorCount' \in Nat /\ delays' \in Nat
    BY <1>2, <1>3, <1>8
  <2> QED
    BY <1>1, <1>3, <1>4, <1>6, <2>1 DEF OthersTypeOK, inputVars
<1>10. Counted'
  <2>1. r \notin Reading /\ (r \in Begun <=> n = 1)
    BY <1>5 DEF BegunStates, ReadingStates
  <2>2. it.state \in {"reading", "handling", "waiting", "done"}
    OBVIOUS
  <2>3. /\ Cardinality(Begun') = IF n = 1 THEN Cardinality(Begun) ELSE Cardinality(Begun) + 1
        /\ Cardinality(Reading') = IF it.state = "reading" THEN Cardinality(Reading) + 1
                                   ELSE Cardinality(Reading)
    BY <1>6, <2>1, <2>2 DEF BegunStates, ReadingStates
  <2> HIDE DEF Begun, Reading
  <2>4. iteratorCount' = Cardinality(Begun') + Cardinality(Reading') + delays' + left'
    BY <1>2, <1>3, <1>4, <1>6, <1>8, <2>3
  <2> QED
    BY <1>6, <2>4 DEF Counted
<1>11. ServedOK'
  <2> SUFFICES ASSUME loop.state # "failed"
               PROVE  /\ iterationCell' = Pending <=> Reading' # {}
                      /\ Reading' # {} => ~loop'.stopped
    BY <1>3 DEF ServedOK
  <2>1. /\ iterationCell = Pending <=> Reading # {}
        /\ Reading # {} => ~loop.stopped
    BY <1>1 DEF ServedOK
  <2>2. CASE Available
    <3>1. Reading' = Reading /\ Reading = {}
      BY <1>7, <2>1, <2>2 DEF Available, ReadingStates
    <3> QED
      BY <1>3, <2>1, <2>2, <3>1 DEF Available
  <2>3. CASE ~Available
    <3>1. Reading' # {}
      BY <1>7, <2>3 DEF ReadingStates
    <3>2. iterationCell' = Pending /\ ~loop'.stopped
      BY <1>3, <2>1, <2>3 DEF Available
    <3> QED
      BY <3>1, <3>2
  <2> QED
    BY <2>2, <2>3
<1> QED
  BY <1>3, <1>9, <1>10, <1>11, PartsNext

LEMMA CellHasValue ==
  ASSUME IInv, Available
  PROVE  iterationCell \in Results
BY DEF IInv, TypeOK, Available

LEMMA AsyncIteratorOK ==
  ASSUME IInv, NEW r \in Iterators, AsyncIterator(r), opens' \in Nat
  PROVE  IInv'
<1> DEFINE first == [state |-> "reading", provided |-> None, hearsEnd |-> TRUE]
           it == IF Available THEN AfterRead(first, iterationCell) ELSE first
<1>1. first \in CellIterators /\ first.state = "reading"
  BY DEF CellIterators, IteratorStates
<1>2. /\ it \in CellIterators
      /\ it.state \in IF Available THEN {"handling", "waiting", "done"} ELSE {"reading"}
  <2> HIDE DEF first
  <2> QED
    BY <1>1, AfterReadOK, CellHasValue
<1>3. /\ iterator[r].state = "closed" /\ IterateInputs(2) /\ ReadEnds
      /\ iterator' = [iterator EXCEPT ![r] = it]
      /\ UNCHANGED <<inputVars, left, call, ended>>
  BY DEF AsyncIterator
<1> HIDE DEF it
<1> QED
  BY <1>2, <1>3, ReadsAgainOK

LEMMA NextValueOK ==
  ASSUME IInv, NEW r \in Iterators, NextValue(r)
  PROVE  IInv'
<1> DEFINE it == IF Available THEN AfterRead(iterator[r], iterationCell)
                 ELSE [iterator[r] EXCEPT !.state = "reading"]
<1>1. iterator[r] \in CellIterators /\ iterator[r].state = "handling"
  BY DEF IInv, TypeOK, CellIterators, NextValue
<1>2. /\ it \in CellIterators
      /\ it.state \in IF Available THEN {"handling", "waiting", "done"} ELSE {"reading"}
  <2>1. CASE Available
    BY <1>1, <2>1, AfterReadOK, CellHasValue
  <2>2. CASE ~Available
    BY <1>1, <2>2 DEF CellIterators, IteratorStates
  <2> QED
    BY <2>1, <2>2
<1>3. /\ IterateInputs(1) /\ ReadEnds /\ iterator' = [iterator EXCEPT ![r] = it]
      /\ UNCHANGED <<inputVars, left, call, ended>> /\ opens' = opens
  BY DEF NextValue
<1>4. opens' \in Nat
  BY <1>3 DEF IInv, TypeOK
<1> HIDE DEF it
<1> QED
  BY <1>1, <1>2, <1>3, <1>4, ReadsAgainOK

LEMMA ReadOK ==
  ASSUME IInv, NEW c \in Calls, Read(c)
  PROVE  IInv'
<1>1. LoopTypeOK /\ OthersTypeOK /\ Counted /\ ServedOK
  BY Parts
<1>2. /\ call[c] = "none" /\ IterateInputs(1) /\ ReadEnds
      /\ call' = [call EXCEPT ![c] = IF Available THEN "over" ELSE "reading"]
      /\ UNCHANGED <<inputVars, iterator, opens, left, ended>>
  BY DEF Read
<1>3. /\ LoopTypeOK'
      /\ iteratorCount' = iteratorCount + 1 /\ lastProvided' = lastProvided
      /\ loop'.state # "none"
      /\ loop'.state = "failed" <=> loop.state = "failed"
      /\ IF iterationCell = None
         THEN iterationCell' = Pending /\ ~loop'.stopped
         ELSE iterationCell' = iterationCell /\ loop' = loop
  BY <1>2, IterateInputsOK
<1>4. c \notin Iterators
  BY FormulaCellAssumption
<1>5. Begun' = Begun
  BY <1>2 DEF Begun, Open, Done
<1>6. c \notin Reading /\ Reading' = IF Available THEN Reading ELSE Reading \union {c}
  BY <1>1, <1>2, <1>4 DEF Reading, OthersTypeOK
<1> HIDE DEF Begun, Reading
<1>7. OthersTypeOK'
  <2>1. iteratorCount' \in Nat /\ delays' \in Nat
    BY <1>1, <1>2, <1>3 DEF ReadEnds, OthersTypeOK
  <2> QED
    BY <1>1, <1>2, <1>3, <2>1 DEF OthersTypeOK, inputVars
<1>8. Counted'
  <2>1. /\ IsFiniteSet(Reading') /\ Cardinality(Reading) \in Nat
        /\ Cardinality(Begun) \in Nat
        /\ Cardinality(Reading') = IF Available THEN Cardinality(Reading)
                                   ELSE Cardinality(Reading) + 1
    BY <1>1, <1>6, SizeOK DEF Counted
  <2>2. iteratorCount' = Cardinality(Begun') + Cardinality(Reading') + delays' + left'
    BY <1>1, <1>2, <1>3, <1>5, <2>1 DEF ReadEnds, Counted, OthersTypeOK
  <2> QED
    BY <1>1, <1>5, <2>1, <2>2 DEF Counted
<1>9. ServedOK'
  <2> SUFFICES ASSUME loop.state # "failed"
               PROVE  /\ iterationCell' = Pending <=> Reading' # {}
                      /\ Reading' # {} => ~loop'.stopped
    BY <1>3 DEF ServedOK
  <2>1. /\ iterationCell = Pending <=> Reading # {}
        /\ Reading # {} => ~loop.stopped
    BY <1>1 DEF ServedOK
  <2>2. CASE Available
    BY <1>3, <1>6, <2>1, <2>2 DEF Available
  <2>3. CASE ~Available
    <3>1. iterationCell' = Pending /\ ~loop'.stopped
      BY <1>3, <2>1, <2>3 DEF Available
    <3> QED
      BY <1>6, <2>3, <3>1
  <2> QED
    BY <2>2, <2>3
<1> QED
  BY <1>3, <1>7, <1>8, <1>9, PartsNext

\* An iterator is stopped: from now its end is counted, or it is left.
LEMMA LeavesOK ==
  ASSUME IInv, NEW r \in Open, NEW it \in CellIterators,
         it.state = IF iterator[r].state = "reading" THEN "leaving" ELSE "closed",
         iterator' = [iterator EXCEPT ![r] = it],
         \/ delays' = delays + 1 /\ left' = left
         \/ delays' = delays /\ left' = left + 1,
         UNCHANGED <<inputVars, loopVars, iteratorCount, ended, opens, call>>
  PROVE  IInv'
<1>1. LoopTypeOK /\ OthersTypeOK /\ Counted /\ ServedOK /\ TypeOK
  BY Parts DEF IInv
<1>2. /\ IsFiniteSet(Begun) /\ IsFiniteSet(Reading)
      /\ iteratorCount = Cardinality(Begun) + Cardinality(Reading) + delays + left
      /\ iteratorCount \in Nat /\ delays \in Nat /\ left \in Nat
  BY <1>1 DEF Counted, OthersTypeOK
<1>3. /\ r \in Iterators /\ iterator[r].state \in {"reading", "waiting", "handling"}
      /\ call' = call /\ iteratorCount' = iteratorCount
  BY DEF Open
<1>4. /\ r \in Begun <=> iterator[r].state \in BegunStates
      /\ r \in Reading <=> iterator[r].state \in ReadingStates
      /\ Reading' = IF it.state \in ReadingStates THEN Reading \union {r}
                                                  ELSE Reading \ {r}
      /\ \A s \in Iterators : iterator'[s] = IF s = r THEN it ELSE iterator[s]
  BY <1>1, <1>2, <1>3, IteratorChanges
<1>5. /\ iterator' \in [Iterators -> CellIterators]
      /\ IsFiniteSet(Begun') /\ IsFiniteSet(Reading')
      /\ Cardinality(Begun) \in Nat /\ Cardinality(Reading) \in Nat
      /\ Cardinality(Begun') =
             IF r \in Begun
             THEN Cardinality(Begun) - (IF it.state \in BegunStates THEN 0 ELSE 1)
             ELSE Cardinality(Begun) + (IF it.state \in BegunStates THEN 1 ELSE 0)
      /\ Cardinality(Reading') =
             IF r \in Reading
             THEN Cardinality(Reading) - (IF it.state \in ReadingStates THEN 0 ELSE 1)
             ELSE Cardinality(Reading) + (IF it.state \in ReadingStates THEN 1 ELSE 0)
  BY <1>1, <1>2, <1>3, IteratorChanges
<1>6. r \in Begun /\ it.state \notin BegunStates
  BY <1>3, <1>4 DEF BegunStates
<1>7. r \in Reading <=> it.state \in ReadingStates
  BY <1>3, <1>4 DEF ReadingStates
<1> HIDE DEF Begun, Reading
<1>8. Reading' = Reading
  BY <1>4, <1>7
<1>9. LoopTypeOK'
  BY <1>1 DEF LoopTypeOK, LoopOK, loopVars, Filled
<1>10. OthersTypeOK'
  <2>1. delays' \in Nat /\ left' \in Nat
    BY <1>2
  <2> QED
    BY <1>1, <1>3, <1>5, <2>1 DEF OthersTypeOK, inputVars, loopVars
<1>11. Counted'
  <2>1. iteratorCount' = Cardinality(Begun') + Cardinality(Reading') + delays' + left'
    BY <1>2, <1>3, <1>5, <1>6, <1>7
  <2> QED
    BY <1>5, <2>1 DEF Counted
<1>12. ServedOK'
  <2>1. \A s \in Iterators :
            iterator'[s].state = "waiting" => iterator[s].state = "waiting"
    BY <1>3, <1>4
  <2> QED
    BY <1>1, <1>8, <2>1 DEF ServedOK, loopVars
<1> QED
  BY <1>9, <1>10, <1>11, <1>12, PartsNext

LEMMA StopOK ==
  ASSUME IInv, NEW r \in Iterators, Stop(r)
  PROVE  IInv'
<1> DEFINE it == IF iterator[r].state = "reading"
                 THEN [iterator[r] EXCEPT !.state = "leaving"] ELSE Closed
<1>1. r \in Open /\ iterator[r] \in CellIterators
  BY DEF Stop, IInv, TypeOK, CellIterators
<1>2. /\ it \in CellIterators
      /\ it.state = IF iterator[r].state = "reading" THEN "leaving" ELSE "closed"
  BY <1>1 DEF CellIterators, IteratorStates, Closed
<1>3. iterator' = [iterator EXCEPT ![r] = it]
  BY DEF Stop
<1> HIDE DEF it
<1> QED
  BY <1>1, <1>2, <1>3, LeavesOK DEF Stop

\* When the count is zero there is nobody.
LEMMA NobodyLeft ==
  ASSUME NEW S, NEW T, NEW m \in Nat, NEW n \in Nat, IsFiniteSet(S), IsFiniteSet(T),
         0 = Cardinality(S) + Cardinality(T) + m + n
  PROVE  S = {} /\ T = {}
<1>1. Cardinality(S) \in Nat /\ Cardinality(T) \in Nat
  BY FS_CardinalityType
<1>2. \A i, j \in Nat : 0 = i + j + m + n => i = 0 /\ j = 0
  OBVIOUS
<1>3. Cardinality(S) = 0 /\ Cardinality(T) = 0
  BY <1>1, <1>2
<1> QED
  BY <1>3, FS_EmptySet

LEMMA DecrementIteratorsOK ==
  ASSUME IInv, DecrementIterators
  PROVE  IInv'
<1>1. LoopTypeOK /\ OthersTypeOK /\ Counted /\ ServedOK
  BY Parts
<1>2. /\ delays > 0 /\ delays' = delays - 1 /\ iteratorCount' = iteratorCount - 1
      /\ IF iteratorCount' = 0 THEN StopLoop
         ELSE UNCHANGED <<loop, iterationCell, latest, updated>>
      /\ UNCHANGED <<inputVars, lastProvided, readerVars, ended>>
  BY DEF DecrementIterators
<1>3. Begun' = Begun /\ Reading' = Reading /\ left' = left
  BY <1>2 DEF Begun, Open, Done, Reading, readerVars
<1>4. \A r \in Iterators : iterator[r].state = "waiting" => r \in Begun
  BY DEF Begun, Open
<1> HIDE DEF Begun, Reading
<1>5. Cardinality(Begun) \in Nat /\ Cardinality(Reading) \in Nat
  BY <1>1, FS_CardinalityType DEF Counted
<1>6. /\ iteratorCount' = Cardinality(Begun) + Cardinality(Reading) + delays' + left
      /\ delays' \in Nat /\ iteratorCount' \in Nat
  BY <1>1, <1>2, <1>5 DEF Counted, OthersTypeOK
<1>7. Counted'
  BY <1>1, <1>3, <1>6 DEF Counted
<1>8. OthersTypeOK'
  BY <1>1, <1>2, <1>6 DEF OthersTypeOK, inputVars, readerVars
<1>9. iterator' = iterator /\ ended' = ended
  BY <1>2 DEF readerVars
<1>10. LoopTypeOK' /\ ServedOK'
  <2>1. CASE UNCHANGED <<loop, iterationCell, latest, updated>>
    BY <1>1, <1>3, <1>9, <2>1 DEF LoopTypeOK, LoopOK, Filled, ServedOK
  <2>2. CASE iteratorCount' = 0 /\ StopLoop
    <3>1. Begun = {} /\ Reading = {}
      <4>1. left \in Nat
        BY <1>1 DEF OthersTypeOK
      <4> QED
        BY <1>1, <1>6, <2>2, <4>1, NobodyLeft DEF Counted
    <3>2. CASE loop' = NoLoop /\ iterationCell' = None /\ NoMoreInputs
      <4>1. ServedOK'
        BY <1>3, <1>4, <1>9, <3>1, <3>2, FormulaCellAssumption DEF ServedOK
      <4> QED
        BY <3>2, <4>1, NoLoopOK
    <3>3. CASE /\ loop.state = "running"
               /\ loop' = [loop EXCEPT !.stopped = TRUE]
               /\ UNCHANGED <<iterationCell, latest, updated>>
      <4>1. loop' = Loop(loop.state, TRUE, loop.taken)
        BY <1>1, <3>3 DEF LoopTypeOK, LoopOK, Loop
      <4>2. LoopTypeOK'
        BY <1>1, <3>3, <4>1 DEF LoopTypeOK, LoopOK, Loop, Filled
      <4>3. ServedOK'
        BY <1>1, <1>3, <1>9, <3>1, <3>3, <4>1 DEF ServedOK, Loop
      <4> QED
        BY <4>2, <4>3
    <3> QED
      BY <2>1, <2>2, <3>2, <3>3 DEF StopLoop
  <2> QED
    BY <1>2, <2>1, <2>2
<1> QED
  BY <1>7, <1>8, <1>10, PartsNext

LEMMA ChangeOK ==
  ASSUME IInv, NEW i \in Inputs, NEW value \in Values, Change(i, value)
  PROVE  IInv'
<1>1. /\ inputs' = [inputs EXCEPT ![i] = value] /\ changes' = changes + 1
      /\ UNCHANGED <<loopVars, readerVars, iteratorCount, delays, ended>>
  BY DEF Change
<1>2. LoopTypeOK /\ OthersTypeOK /\ Counted /\ ServedOK
  BY Parts
<1>3. Begun' = Begun /\ Reading' = Reading
  BY <1>1 DEF Begun, Open, Done, Reading, readerVars
<1> HIDE DEF Begun, Reading
<1>4. LoopTypeOK'
  BY <1>1, <1>2 DEF LoopTypeOK, LoopOK, Filled, loopVars
<1>5. OthersTypeOK'
  BY <1>1, <1>2 DEF OthersTypeOK, loopVars, readerVars
<1>6. Counted' /\ ServedOK'
  BY <1>1, <1>2, <1>3 DEF Counted, ServedOK, loopVars, readerVars
<1> QED
  BY <1>4, <1>5, <1>6, PartsNext

LEMMA InputUpdatesOK ==
  ASSUME IInv, NEW i \in Inputs, InputUpdates(i)
  PROVE  IInv'
<1>1. LoopTypeOK /\ OthersTypeOK /\ Counted /\ ServedOK
  BY Parts
<1>2. /\ loop.state \in {"waiting", "running"}
      /\ latest' = [j \in DOMAIN latest \union {i} |->
                       IF j = i THEN inputs[i] ELSE latest[j]]
      /\ \/ /\ Filled(latest') /\ loop.state = "waiting"
            /\ loop' = Loop("running", FALSE, latest') /\ updated' = updated
         \/ updated' = Filled(latest') /\ loop' = loop
      /\ UNCHANGED <<inputVars, iterationCell, lastProvided, readerVars,
                     iteratorCount, delays, ended>>
  BY DEF InputUpdates
<1>3. Begun' = Begun /\ Reading' = Reading
  BY <1>2 DEF Begun, Open, Done, Reading, readerVars
<1> HIDE DEF Begun, Reading
<1>4. PICK S \in SUBSET Inputs : latest \in [S -> Values]
  BY <1>1 DEF LoopTypeOK
<1>5. latest' \in [S \union {i} -> Values]
  BY <1>1, <1>2, <1>4 DEF OthersTypeOK
<1>6. S \union {i} \in SUBSET Inputs
  OBVIOUS
<1>7. latest' \in UNION {[T -> Values] : T \in SUBSET Inputs}
  BY <1>5, <1>6
<1>8. Filled(latest) => Filled(latest')
  BY <1>4, <1>5 DEF Filled
<1>9. Filled(latest') => latest' \in [Inputs -> Values]
  BY <1>5 DEF Filled
<1>10. Filled(latest') \in BOOLEAN
  BY DEF Filled
<1>11. LoopTypeOK'
  <2>1. CASE /\ Filled(latest') /\ loop.state = "waiting"
             /\ loop' = Loop("running", FALSE, latest') /\ updated' = updated
    BY <1>1, <1>2, <1>7, <1>9, <2>1 DEF LoopTypeOK, LoopOK, Loop
  <2>2. CASE updated' = Filled(latest') /\ loop' = loop
    BY <1>1, <1>2, <1>7, <1>10, <2>2 DEF LoopTypeOK, LoopOK
  <2> QED
    BY <1>2, <2>1, <2>2
<1>12. OthersTypeOK'
  BY <1>1, <1>2 DEF OthersTypeOK, inputVars, readerVars
<1>13. Counted'
  BY <1>1, <1>2, <1>3 DEF Counted, readerVars
<1>14. ServedOK'
  <2>1. /\ loop'.state \in {"waiting", "running"} /\ loop.state # "failed"
        /\ loop'.stopped => loop.stopped
    BY <1>2 DEF Loop
  <2> QED
    BY <1>1, <1>2, <1>3, <2>1 DEF ServedOK
<1> QED
  BY <1>11, <1>12, <1>13, <1>14, PartsNext

\* Whoever reads has the value, so nobody does; no reader begins or ends.
LEMMA FormulaReturnsOK ==
  ASSUME IInv, FormulaReturns
  PROVE  IInv'
<1> DEFINE value == Formula(loop.taken)
           ends == loop.stopped /\ iteratorCount > 0
<1>1. LoopTypeOK /\ OthersTypeOK /\ Counted /\ ServedOK
  BY Parts
<1>2. /\ loop.state = "running" /\ LoopGoesOn(value) /\ lastProvided' = value
      /\ ended' = (ended \/ ends)
      /\ iterator' = [r \in Iterators |->
             IF r \in Reading THEN AfterRead(iterator[r], value)
             ELSE AfterEvents(iterator[r], value, ends)]
      /\ call' = [c \in Calls |-> IF c \in Reading THEN "over" ELSE call[c]]
      /\ delays' = delays + Cardinality(Reading)
      /\ UNCHANGED <<inputVars, opens, left, iteratorCount>>
  BY DEF FormulaReturns
<1>3. value \in Results /\ value \notin {None, Pending} /\ ends \in BOOLEAN
  BY <1>1, <1>2, ResultsOK DEF LoopTypeOK
<1> HIDE DEF value, ends
<1>4. /\ \A r \in Iterators : r \in Reading <=> iterator[r].state \in ReadingStates
      /\ \A c \in Calls : c \in Reading <=> call[c] = "reading"
  BY FormulaCellAssumption DEF Reading, ReadingStates
<1>5. ASSUME NEW r \in Iterators
      PROVE  /\ iterator'[r] \in CellIterators
             /\ iterator'[r].state \notin ReadingStates
             /\ r \in Begun' <=> r \in Begun
             /\ iterator'[r].state = "waiting" =>
                    r \in Reading \/ iterator[r].state = "waiting"
  <2>1. iterator[r] \in CellIterators
    BY <1>1 DEF OthersTypeOK
  <2>2. /\ r \in Begun <=> iterator[r].state \in BegunStates
        /\ r \in Begun' <=> iterator'[r].state \in BegunStates
    BY DEF Begun, Open, Done, BegunStates
  <2>3. CASE r \in Reading
    <3>1. iterator'[r] = AfterRead(iterator[r], value)
      BY <1>2, <2>3
    <3> QED
      BY <1>3, <1>4, <2>1, <2>2, <2>3, <3>1, AfterReadOK DEF BegunStates, ReadingStates
  <2>4. CASE r \notin Reading
    <3>1. iterator'[r] = AfterEvents(iterator[r], value, ends)
      BY <1>2, <2>4
    <3> QED
      BY <1>3, <1>4, <2>1, <2>2, <2>4, <3>1, AfterEventsOK DEF BegunStates, ReadingStates
  <2> QED
    BY <2>3, <2>4
<1>6. Begun' = Begun
  BY <1>5 DEF Begun, Open, Done
<1>7. Reading' = {}
  BY <1>2, <1>4, <1>5 DEF Reading, ReadingStates
<1>8. \A r \in Iterators : iterator[r].state = "waiting" => r \in Begun
  BY DEF Begun, Open
<1> HIDE DEF Begun, Reading
<1>9. Cardinality(Begun) \in Nat /\ Cardinality(Reading) \in Nat
  BY <1>1, FS_CardinalityType DEF Counted
<1>10. /\ LoopTypeOK' /\ iterationCell' # Pending /\ loop'.state # "failed"
       /\ loop'.state = "none" => loop.stopped
  <2>1. CASE loop.stopped
    <3>1. loop' = NoLoop /\ iterationCell' = None /\ NoMoreInputs
      BY <1>2, <2>1 DEF LoopGoesOn
    <3> QED
      BY <2>1, <3>1, NoLoopOK, FormulaCellAssumption DEF NoLoop, Loop
  <2>2. CASE ~loop.stopped
    <3>1. /\ loop' = IF updated THEN Loop("running", FALSE, latest)
                     ELSE Loop("waiting", FALSE, << >>)
          /\ iterationCell' = value /\ updated' = FALSE /\ latest' = latest
      BY <1>2, <2>2 DEF LoopGoesOn
    <3>2. updated => latest \in [Inputs -> Values]
      BY <1>1 DEF LoopTypeOK, LoopOK, Filled
    <3> QED
      BY <1>1, <1>3, <3>1, <3>2 DEF LoopTypeOK, LoopOK, Loop
  <2> QED
    BY <2>1, <2>2
<1>11. OthersTypeOK'
  <2>1. /\ delays' \in Nat /\ ended' \in BOOLEAN
        /\ call' \in [Calls -> {"none", "reading", "over"}]
    BY <1>1, <1>2, <1>3, <1>9 DEF OthersTypeOK
  <2>2. iterator' \in [Iterators -> CellIterators]
    BY <1>2, <1>5
  <2> QED
    BY <1>1, <1>2, <1>3, <2>1, <2>2 DEF OthersTypeOK, inputVars
<1>12. Counted'
  <2>1. IsFiniteSet(Reading') /\ Cardinality(Reading') = 0
    BY <1>7, FS_EmptySet
  <2>2. iteratorCount' = Cardinality(Begun') + Cardinality(Reading') + delays' + left'
    BY <1>1, <1>2, <1>6, <1>9, <2>1 DEF Counted, OthersTypeOK
  <2> QED
    BY <1>1, <1>6, <2>1, <2>2 DEF Counted
<1>13. ServedOK'
  <2> SUFFICES ASSUME NEW r \in Iterators, iterator'[r].state = "waiting", loop.stopped
               PROVE  ended'
    BY <1>7, <1>10 DEF ServedOK
  <2>1. Reading = {}
    BY <1>1, <1>2 DEF ServedOK
  <2>2. r \in Begun
    BY <1>5, <1>8, <2>1
  <2>3. Cardinality(Begun) > 0
    BY <1>1, <2>2, SizeOK DEF Counted
  <2>4. iteratorCount > 0
    BY <1>1, <1>9, <2>3 DEF Counted, OthersTypeOK
  <2> QED
    BY <1>2, <2>4 DEF ends
<1> QED
  BY <1>10, <1>11, <1>12, <1>13, PartsNext

LEMMA FormulaThrowsOK ==
  ASSUME IInv, FormulaThrows
  PROVE  IInv'
<1>1. /\ loop.state = "running" /\ loop' = Loop("failed", loop.stopped, << >>)
      /\ NoMoreInputs
      /\ UNCHANGED <<inputVars, iterationCell, lastProvided, readerVars,
                     iteratorCount, delays, ended>>
  BY DEF FormulaThrows
<1>2. LoopTypeOK /\ OthersTypeOK /\ Counted
  BY Parts
<1>3. Begun' = Begun /\ Reading' = Reading
  BY <1>1 DEF Begun, Open, Done, Reading, readerVars
<1> HIDE DEF Begun, Reading
<1>4. LoopTypeOK'
  BY <1>1, <1>2, NoInputsOK DEF LoopTypeOK, LoopOK, Loop, NoMoreInputs
<1>5. OthersTypeOK' /\ Counted'
  BY <1>1, <1>2, <1>3 DEF OthersTypeOK, Counted, inputVars, readerVars
<1>6. ServedOK'
  BY <1>1 DEF ServedOK, Loop
<1> QED
  BY <1>4, <1>5, <1>6, PartsNext

LEMMA UnchangedOK ==
  ASSUME IInv, UNCHANGED vars
  PROVE  IInv'
<1>1. LoopTypeOK /\ OthersTypeOK /\ Counted /\ ServedOK
  BY Parts
<1>2. Begun' = Begun /\ Reading' = Reading
  BY DEF Begun, Open, Done, Reading, vars, readerVars
<1> HIDE DEF Begun, Reading
<1>3. LoopTypeOK'
  BY <1>1 DEF LoopTypeOK, LoopOK, Filled, vars, loopVars
<1>4. OthersTypeOK'
  BY <1>1 DEF OthersTypeOK, vars, inputVars, loopVars, readerVars
<1>5. Counted' /\ ServedOK'
  BY <1>1, <1>2 DEF Counted, ServedOK, vars, loopVars, readerVars
<1> QED
  BY <1>3, <1>4, <1>5, PartsNext

LEMMA CellStepOK ==
  ASSUME IInv, CellStep
  PROVE  IInv'
BY ChangeOK, InputUpdatesOK, ReadOK, DecrementIteratorsOK, FormulaReturnsOK,
   FormulaThrowsOK DEF CellStep

LEMMA ReaderStepOK ==
  ASSUME IInv, NEW r \in Iterators, ReaderStep(r)
  PROVE  IInv'
<1>1. CASE ForEach(r)
  <2>1. opens' \in Nat
    BY <1>1 DEF ForEach, IInv, TypeOK
  <2> QED
    BY <1>1, <2>1, AsyncIteratorOK DEF ForEach
<1> QED
  BY <1>1, NextValueOK, StopOK DEF ReaderStep

-----------------------------------------------------------------------------
(* The theorems.                                                            *)

LEMMA InvImpliesProperties == IInv => TypeOK /\ CountsReaders /\ ServedWhileRead
<1> SUFFICES ASSUME IInv PROVE CountsReaders /\ ServedWhileRead
  BY DEF IInv
<1>1. CountsReaders
  <2>1. IsFiniteSet(Open) /\ IsFiniteSet(Done)
    BY FS_Subset DEF IInv, Counted, Begun
  <2>2. Open \intersect Done = {}
    BY DEF Open, Done
  <2>3. Cardinality(Begun) = Cardinality(Open) + Cardinality(Done)
    <3>1. /\ Cardinality(Open \union Done)
                 = Cardinality(Open) + Cardinality(Done) - Cardinality({})
          /\ Cardinality({}) = 0
          /\ Cardinality(Open) \in Nat /\ Cardinality(Done) \in Nat
      BY <2>1, <2>2, FS_Union, FS_EmptySet, FS_CardinalityType
    <3> QED
      BY <3>1 DEF Begun
  <2>4. /\ Cardinality(Open) \in Nat /\ Cardinality(Done) \in Nat
        /\ Cardinality(Reading) \in Nat
    BY <2>1, FS_CardinalityType DEF IInv, Counted
  <2>5. delays \in Nat /\ left \in Nat
    BY DEF IInv, TypeOK
  <2> HIDE DEF Open, Done, Reading
  <2> QED
    BY <2>3, <2>4, <2>5 DEF IInv, Counted, CountsReaders
<1>2. ServedWhileRead
  <2> SUFFICES ASSUME loop.state # "failed", Reading # {}
               PROVE  loop.state # "none"
    BY DEF ServedWhileRead, IInv, CellOK
  <2> QED
    BY FormulaCellAssumption DEF IInv, CellOK
<1> QED
  BY <1>1, <1>2

\* In every reachable state the loop, its readers and their count fit together
\* (FormulaCell.ts, Stoppable.ts).
THEOREM CellInvariance == Spec => []IInv
<1>1. IInv /\ [Next]_vars => IInv'
  BY CellStepOK, ReaderStepOK, UnchangedOK DEF Next
<1> QED
  BY InitOK, <1>1, PTL DEF Spec

\* iteratorCount counts each iteration and each read once, from its begin to half
\* a second after its end (iterateInputs, read, decrementIterators).
THEOREM ReadersAreCounted == Spec => []CountsReaders
BY CellInvariance, InvImpliesProperties, PTL

\* As long as the formula has not thrown: whoever awaits the first value has a loop
\* that nobody has told to stop, and an iterator that awaits a change has a loop,
\* which may have been told to stop, or the cell has ended (iterateInputs,
\* 'zero-iterators').
THEOREM ReadersAreServed == Spec => []ServedWhileRead
BY CellInvariance, InvImpliesProperties, PTL
=============================================================================
