------------------------- MODULE BundleServiceProofs -------------------------
(****************************************************************************)
(* For every number of rows and calls, every kind of fault and every limit: *)
(* the types of BundleService, that no row is in two running aggregates     *)
(* (SubmittedOnce), that submitBundle returns the receipt of its own        *)
(* transaction (OwnReceipt), that confirmed rows are on chain and their     *)
(* aggregates whole (ConfirmedIsOnChain, AggregateIsWhole), and that the    *)
(* service implements BundleLifeCycle.                                      *)
(*                                                                          *)
(* Tasks confirm rows while a query group is open, and the group may be     *)
(* rolled back, alone or by a crash.  So the inductive invariant says of    *)
(* the rows that ROLLBACK returns to what it says of the current ones, and  *)
(* how the one became the other.                                            *)
(****************************************************************************)
EXTENDS BundleService, FiniteSetTheorems, SequenceTheorems, TLAPS

-----------------------------------------------------------------------------
(* The inductive invariant of EthereumService, for any number of calls:     *)
(* every step of submitBundle and every block preserves it.                 *)
(*                                                                          *)
(* Which nonce a call took does not matter.  After a crash two transactions *)
(* can have been given one nonce, so what counts is that the node refuses   *)
(* the second: a call that waits for a receipt has its transaction in the   *)
(* pool or in the block at its nonce.                                       *)

Busy(t) == ~At(t, "idle")

\* A place that is free has no bundle; a call has one.
CallsOK ==
    \A t \in Calls :
        IF Busy(t) THEN call[t].bundle \in Bundles ELSE call[t] = Idle

\* No nonce is in the pool twice, or in the pool and in a block.
PoolOK ==
    /\ \A tx \in mempool : tx.nonce >= Len(mined)
    /\ \A tx1, tx2 \in mempool : tx1.nonce = tx2.nonce => tx1 = tx2

OwnTransaction(t) ==
    \/ [nonce |-> call[t].nonce, bundle |-> call[t].bundle] \in mempool
    \/ InBlock(t) /\ Receipt(t).bundle = call[t].bundle

WaitsForOwn == \A t \in Calls : At(t, "wait") => OwnTransaction(t)

EthereumInv ==
    /\ EthereumTypeOK
    /\ CallsOK
    /\ PoolOK
    /\ WaitsForOwn
    /\ OwnReceipt

LEMMA EthereumInitOK == EthereumInit => EthereumInv
  BY EthereumAssumption
     DEF EthereumInit, EthereumInv, EthereumTypeOK, CallsOK, PoolOK,
         WaitsForOwn, OwnReceipt, Busy, At, Idle, Steps

-----------------------------------------------------------------------------
(* Steps that leave the pool and the blocks alone                           *)

LEMMA IdleOK ==
    /\ Idle \in [step: Steps, bundle: Bundles \union {NoBundle}, nonce: Nat]
    /\ Idle.step = "idle"
  BY DEF Idle, Steps

\* A call that does not start to wait or answer "complete" may do what it
\* likes, as long as it keeps a bundle while it runs.
LEMMA QuietCallOK ==
  ASSUME EthereumInv, NEW t \in Calls,
         NEW c \in [step: Steps, bundle: Bundles \union {NoBundle}, nonce: Nat],
         c.step \notin {"wait", "complete"},
         IF c.step # "idle" THEN c.bundle \in Bundles ELSE c = Idle,
         call' = [call EXCEPT ![t] = c],
         nextNonce' \in Nat, faults' \in Nat,
         UNCHANGED <<mempool, mined>>
  PROVE  EthereumInv'
<1>1. \A u \in Calls : call'[u] = IF u = t THEN c ELSE call[u]
  BY DEF EthereumInv, EthereumTypeOK
<1>2. EthereumTypeOK'
  BY DEF EthereumInv, EthereumTypeOK
<1>3. CallsOK'
  BY <1>1 DEF EthereumInv, CallsOK, Busy, At
<1>4. PoolOK'
  BY DEF EthereumInv, PoolOK
<1>5. WaitsForOwn'
  BY <1>1 DEF EthereumInv, WaitsForOwn, OwnTransaction, At, InBlock, Receipt
<1>6. OwnReceipt'
  BY <1>1 DEF EthereumInv, OwnReceipt, At, InBlock, Receipt
<1> QED
  BY <1>2, <1>3, <1>4, <1>5, <1>6 DEF EthereumInv

\* The changes that the aggregator makes to its calls.
LEMMA SubmittedOK ==
  ASSUME EthereumInv, NEW t \in Calls, NEW bundle \in Bundles,
         call' = Submitted(t, bundle),
         UNCHANGED <<nextNonce, mempool, mined, faults>>
  PROVE  EthereumInv'
<1> DEFINE c == [step |-> "compress", bundle |-> bundle, nonce |-> 0]
<1>1. c \in [step: Steps, bundle: Bundles \union {NoBundle}, nonce: Nat]
  BY DEF Steps
<1>2. call' = [call EXCEPT ![t] = c]
  BY DEF Submitted
<1>3. nextNonce' \in Nat /\ faults' \in Nat
  BY DEF EthereumInv, EthereumTypeOK
<1>4. c.step = "compress" /\ c.bundle = bundle
  OBVIOUS
<1> HIDE DEF c
<1> QED
  BY <1>1, <1>2, <1>3, <1>4, QuietCallOK

LEMMA EndedOK ==
  ASSUME EthereumInv, NEW t \in Calls,
         call' = [call EXCEPT ![t] = Idle], faults' \in Nat,
         UNCHANGED <<nextNonce, mempool, mined>>
  PROVE  EthereumInv'
<1>1. nextNonce' \in Nat
  BY DEF EthereumInv, EthereumTypeOK
<1> QED
  BY <1>1, IdleOK, QuietCallOK

LEMMA AllEndedOK ==
  ASSUME EthereumInv, call' = [t \in Calls |-> Idle], nextNonce' = Len(mined),
         UNCHANGED <<mempool, mined, faults>>
  PROVE  EthereumInv'
<1>1. Len(mined) \in Nat
  BY DEF EthereumInv, EthereumTypeOK
<1> QED
  BY <1>1, IdleOK
     DEF EthereumInv, EthereumTypeOK, CallsOK, PoolOK, WaitsForOwn,
         OwnReceipt, OwnTransaction, Busy, At, InBlock, Receipt

LEMMA UnchangedOK == EthereumInv /\ UNCHANGED ethereumVars => EthereumInv'
  BY DEF EthereumInv, EthereumTypeOK, CallsOK, PoolOK, WaitsForOwn,
         OwnReceipt, OwnTransaction, Busy, At, InBlock, Receipt, ethereumVars

\* A fault can be had or not; their number stays a number.
LEMMA FaultOK ==
  ASSUME EthereumInv, NEW kind
  PROVE  /\ Fault(kind) => faults' \in Nat
         /\ UNCHANGED faults => faults' \in Nat
  BY DEF EthereumInv, EthereumTypeOK, Fault

-----------------------------------------------------------------------------
(* submitBundle                                                             *)

\* What a step of a call never does: it does not end the call or change its
\* bundle, and touches no other call and no block.
Keeps(t) ==
    /\ Busy(t) /\ Busy(t)'
    /\ \A u \in Calls : call'[u].bundle = call[u].bundle
    /\ \A u \in Calls : u # t => call'[u] = call[u]
    /\ mined' = mined

\* Going to a step at which no receipt is awaited or had.
LEMMA GotoOK ==
  ASSUME EthereumInv, NEW t \in Calls, Busy(t),
         NEW step \in Steps \ {"idle", "wait", "complete"}, Goto(t, step),
         nextNonce' \in Nat, faults' \in Nat,
         UNCHANGED <<mempool, mined>>
  PROVE  EthereumInv' /\ Keeps(t)
<1> DEFINE c == [call[t] EXCEPT !.step = step]
<1>1. call[t] \in [step: Steps, bundle: Bundles \union {NoBundle}, nonce: Nat]
  BY DEF EthereumInv, EthereumTypeOK
<1>2. /\ c \in [step: Steps, bundle: Bundles \union {NoBundle}, nonce: Nat]
      /\ c.step = step /\ c.bundle = call[t].bundle
  BY <1>1
<1>3. call[t].bundle \in Bundles
  BY DEF EthereumInv, CallsOK
<1>4. call' = [call EXCEPT ![t] = c]
  BY <1>1 DEF Goto, EthereumInv, EthereumTypeOK
<1>5. \A u \in Calls : call'[u] = IF u = t THEN c ELSE call[u]
  BY <1>4 DEF EthereumInv, EthereumTypeOK
<1> HIDE DEF c
<1>6. EthereumInv'
  BY <1>2, <1>3, <1>4, QuietCallOK
<1>7. Keeps(t)
  BY <1>2, <1>5 DEF Keeps, Busy, At
<1> QED
  BY <1>6, <1>7

LEMMA NextNonceOK ==
  ASSUME EthereumInv, NEW t \in Calls, NextNonce(t)
  PROVE  EthereumInv' /\ Keeps(t)
<1> DEFINE c == [call[t] EXCEPT !.step = "gasConfig", !.nonce = nextNonce]
<1>1. /\ call[t] \in [step: Steps, bundle: Bundles \union {NoBundle}, nonce: Nat]
      /\ call[t].step = "compress" /\ nextNonce \in Nat /\ faults \in Nat
  BY DEF NextNonce, At, EthereumInv, EthereumTypeOK
<1>2. /\ c \in [step: Steps, bundle: Bundles \union {NoBundle}, nonce: Nat]
      /\ c.step = "gasConfig" /\ c.bundle = call[t].bundle
  BY <1>1 DEF Steps
<1>3. call[t].bundle \in Bundles
  BY <1>1 DEF EthereumInv, CallsOK, Busy, At
<1>4. call' = [call EXCEPT ![t] = c]
  BY <1>1 DEF NextNonce, EthereumInv, EthereumTypeOK
<1>5. \A u \in Calls : call'[u] = IF u = t THEN c ELSE call[u]
  BY <1>4 DEF EthereumInv, EthereumTypeOK
<1>6. /\ nextNonce' \in Nat /\ faults' \in Nat
      /\ UNCHANGED <<mempool, mined>>
  BY <1>1 DEF NextNonce
<1> HIDE DEF c
<1>7. EthereumInv'
  BY <1>2, <1>3, <1>4, <1>6, QuietCallOK
<1>8. Keeps(t)
  BY <1>1, <1>2, <1>5, <1>6 DEF Keeps, Busy, At
<1> QED
  BY <1>7, <1>8

\* The transaction of a call enters the pool, where no other has its nonce.
LEMMA SentOK ==
  ASSUME EthereumInv, NEW t \in Calls, Busy(t), ~Used(call[t].nonce),
         mempool' = Sent(t), mined' = mined
  PROVE  /\ PoolOK'
         /\ mempool' \subseteq Transactions
         /\ WaitsForOwn /\ call' = call => WaitsForOwn'
<1> DEFINE tx == [nonce |-> call[t].nonce, bundle |-> call[t].bundle]
<1>1. tx \in Transactions /\ tx.nonce = call[t].nonce /\ tx.nonce \in Nat
  BY DEF EthereumInv, EthereumTypeOK, CallsOK, Transactions
<1>2. mempool' = mempool \union {tx} /\ Len(mined) \in Nat
  BY DEF Sent, EthereumInv, EthereumTypeOK
<1>3. tx.nonce >= Len(mined) /\ \A other \in mempool : other.nonce # tx.nonce
  BY <1>1, <1>2 DEF Used
<1> HIDE DEF tx
<1>4. PoolOK'
  BY <1>2, <1>3 DEF EthereumInv, PoolOK
<1>5. mempool' \subseteq Transactions
  BY <1>1, <1>2 DEF EthereumInv, EthereumTypeOK
<1>6. WaitsForOwn /\ call' = call => WaitsForOwn'
  BY <1>2 DEF WaitsForOwn, OwnTransaction, At, InBlock, Receipt
<1> QED
  BY <1>4, <1>5, <1>6

\* After Sent, going to "wait" or "failed".
LEMMA SentGotoOK ==
  ASSUME EthereumInv, NEW t \in Calls, Busy(t), ~Used(call[t].nonce),
         NEW step \in {"wait", "failed"}, Goto(t, step),
         mempool' = Sent(t), faults' \in Nat,
         UNCHANGED <<nextNonce, mined>>
  PROVE  EthereumInv' /\ Keeps(t)
<1>1. \A u \in Calls :
          call'[u] = IF u = t THEN [call[t] EXCEPT !.step = step] ELSE call[u]
  BY DEF Goto, EthereumInv, EthereumTypeOK
<1>2. /\ call[t] \in [step: Steps, bundle: Bundles \union {NoBundle}, nonce: Nat]
      /\ call[t].bundle \in Bundles
  BY DEF EthereumInv, EthereumTypeOK, CallsOK
<1>3. /\ call'[t].step = step /\ call'[t].bundle = call[t].bundle
      /\ call'[t].nonce = call[t].nonce
  BY <1>1, <1>2
<1>4. EthereumTypeOK'
  <2>1. call' \in [Calls -> [step: Steps, bundle: Bundles \union {NoBundle},
                             nonce: Nat]]
    BY DEF Goto, EthereumInv, EthereumTypeOK, Steps
  <2> QED
    BY <2>1, SentOK DEF EthereumInv, EthereumTypeOK
<1>5. CallsOK'
  BY <1>1, <1>2, <1>3 DEF EthereumInv, CallsOK, Busy, At
<1>6. PoolOK'
  BY SentOK
<1>7. WaitsForOwn'
  <2> SUFFICES ASSUME NEW u \in Calls, At(u, "wait")'
               PROVE  OwnTransaction(u)'
    BY DEF WaitsForOwn
  <2>1. CASE u = t
    BY <2>1, <1>3 DEF OwnTransaction, Sent
  <2>2. CASE u # t
    BY <2>2, <1>1 DEF EthereumInv, WaitsForOwn, OwnTransaction, At, InBlock,
                      Receipt, Sent
  <2> QED
    BY <2>1, <2>2
<1>8. OwnReceipt'
  BY <1>1, <1>3 DEF EthereumInv, OwnReceipt, At, InBlock, Receipt
<1>9. Keeps(t)
  BY <1>1, <1>3 DEF Keeps, Busy, At
<1> QED
  BY <1>4, <1>5, <1>6, <1>7, <1>8, <1>9 DEF EthereumInv

LEMMA ResponseErrorOK ==
  ASSUME EthereumInv, NEW t \in Calls, ResponseError(t)
  PROVE  EthereumInv' /\ Keeps(t)
<1>1. Busy(t) /\ Goto(t, "failed") /\ UNCHANGED <<nextNonce, mined>>
      /\ nextNonce' \in Nat
  BY DEF ResponseError, Busy, At, EthereumInv, EthereumTypeOK
<1>2. faults' \in Nat
  BY FaultOK DEF ResponseError
<1>3. CASE mempool' = mempool
  BY <1>1, <1>2, <1>3, GotoOK DEF Steps
<1>4. CASE Expected(call[t].nonce) /\ mempool' = Sent(t)
  BY <1>1, <1>2, <1>4, SentGotoOK DEF Expected
<1> QED
  BY <1>3, <1>4 DEF ResponseError

\* A receipt is had at the nonce of a transaction that is not in the pool.
LEMMA CompleteOK ==
  ASSUME EthereumInv, NEW t \in Calls, Complete(t)
  PROVE  EthereumInv' /\ Keeps(t)
<1>1. \A u \in Calls :
        call'[u] = IF u = t THEN [call[t] EXCEPT !.step = "complete"]
                   ELSE call[u]
  BY DEF Complete, Goto, EthereumInv, EthereumTypeOK
<1>2. /\ call[t] \in [step: Steps, bundle: Bundles \union {NoBundle}, nonce: Nat]
      /\ call[t].bundle \in Bundles /\ call[t].step = "wait"
  BY DEF Complete, At, EthereumInv, EthereumTypeOK, CallsOK, Busy
<1>3. /\ call'[t].step = "complete" /\ call'[t].bundle = call[t].bundle
      /\ call'[t].nonce = call[t].nonce
  BY <1>1, <1>2
<1>4. EthereumTypeOK'
  BY DEF Complete, Goto, EthereumInv, EthereumTypeOK, Steps
<1>5. CallsOK'
  BY <1>1, <1>2, <1>3 DEF EthereumInv, CallsOK, Busy, At
<1>6. PoolOK'
  BY DEF EthereumInv, PoolOK, Complete
<1>7. WaitsForOwn'
  BY <1>1, <1>3 DEF Complete, EthereumInv, WaitsForOwn, OwnTransaction, At,
                    InBlock, Receipt
<1>8. OwnReceipt'
  <2>1. /\ Receipt(t) \in Receipts /\ InBlock(t)
        /\ Receipt(t).ok /\ Receipt(t).bundle = call[t].bundle
    <3>1. InBlock(t) /\ Receipt(t).ok /\ Receipt(t) \in Receipts
      BY <1>2 DEF Complete, InBlock, Receipt, EthereumInv, EthereumTypeOK
    <3>2. [nonce |-> call[t].nonce, bundle |-> call[t].bundle] \notin mempool
      BY <3>1, <1>2 DEF InBlock, EthereumInv, EthereumTypeOK, PoolOK
    <3> QED
      BY <3>1, <3>2 DEF EthereumInv, WaitsForOwn, OwnTransaction, Complete
  <2>2. Receipt(t) = [bundle |-> call[t].bundle, ok |-> TRUE]
    BY <2>1 DEF Receipts
  <2> QED
    BY <1>1, <1>3, <2>1, <2>2
       DEF Complete, EthereumInv, OwnReceipt, At, InBlock, Receipt
<1>9. Keeps(t)
  BY <1>1, <1>2, <1>3 DEF Complete, Keeps, Busy, At
<1> QED
  BY <1>4, <1>5, <1>6, <1>7, <1>8, <1>9 DEF EthereumInv

\* Every step of submitBundle.
LEMMA CallStepOK ==
  ASSUME EthereumInv, NEW t \in Calls, Answers(t) \/ Fails(t)
  PROVE  EthereumInv' /\ Keeps(t)
<1>0. nextNonce \in Nat /\ faults \in Nat
  BY DEF EthereumInv, EthereumTypeOK
<1>1. CASE NextNonce(t)
  BY <1>1, NextNonceOK
<1>2. CASE GasConfig(t)
  BY <1>0, <1>2, GotoOK DEF GasConfig, Busy, At, Steps
<1>3. CASE SendTransaction(t)
  BY <1>0, <1>3, SentGotoOK DEF SendTransaction, Expected, Busy, At
<1>4. CASE NonceError(t)
  BY <1>0, <1>4, GotoOK DEF NonceError, Busy, At, Steps
<1>5. CASE ResponseError(t)
  BY <1>5, ResponseErrorOK
<1>6. CASE Complete(t)
  BY <1>6, CompleteOK
<1>7. CASE WaitError(t)
  <2>1. faults' \in Nat
    BY <1>0, <1>7, FaultOK DEF WaitError
  <2> QED
    BY <1>0, <1>7, <2>1, GotoOK DEF WaitError, Busy, At, Steps
<1>8. CASE Retry(t)
  BY <1>0, <1>8, GotoOK DEF Retry, Busy, At, Steps
<1>9. CASE Fails(t)
  <2>1. faults' \in Nat
    BY <1>9, FaultOK DEF Fails, CompressFails, GasConfigFails
  <2> QED
    BY <1>0, <1>9, <2>1, GotoOK
       DEF Fails, CompressFails, GasConfigFails, Busy, At, Steps
<1> QED
  BY <1>1, <1>2, <1>3, <1>4, <1>5, <1>6, <1>7, <1>8, <1>9 DEF Answers

\* A block takes the transaction with the next nonce out of the pool.
LEMMA MineOK ==
  ASSUME EthereumInv, Mine
  PROVE  /\ EthereumInv'
         /\ \E receipt \in Receipts : mined' = Append(mined, receipt)
         /\ call' = call
<1> PICK tx \in mempool :
        /\ tx.nonce = Len(mined)
        /\ mempool' = mempool \ {tx}
        /\ \/ /\ mined' = Append(mined, [bundle |-> tx.bundle, ok |-> TRUE])
              /\ UNCHANGED faults
           \/ /\ mined' = Append(mined, [bundle |-> tx.bundle, ok |-> FALSE])
              /\ Fault("revert")
        /\ UNCHANGED <<nextNonce, call>>
  BY DEF Mine
<1>1. PICK receipt \in Receipts :
        receipt.bundle = tx.bundle /\ mined' = Append(mined, receipt)
  BY DEF EthereumInv, EthereumTypeOK, Transactions, Receipts
<1>2. mined \in Seq(Receipts) /\ Len(mined) \in Nat
  BY DEF EthereumInv, EthereumTypeOK
<1>3. /\ mined' \in Seq(Receipts) /\ Len(mined') = Len(mined) + 1
      /\ \A n \in 1..Len(mined) : mined'[n] = mined[n]
      /\ mined'[Len(mined) + 1] = receipt
  BY <1>1, <1>2
<1>4. EthereumTypeOK'
  BY <1>3, FaultOK DEF EthereumInv, EthereumTypeOK
<1>5. CallsOK'
  BY DEF EthereumInv, CallsOK, Busy, At
<1>6. PoolOK'
  BY <1>2, <1>3 DEF EthereumInv, EthereumTypeOK, PoolOK, Transactions
<1>7. \A u \in Calls :
          InBlock(u) => InBlock(u)' /\ Receipt(u)' = Receipt(u)
  <2> SUFFICES ASSUME NEW u \in Calls, call[u].nonce < Len(mined)
               PROVE  /\ call[u].nonce < Len(mined')
                      /\ mined'[call[u].nonce + 1] = mined[call[u].nonce + 1]
    BY DEF InBlock, Receipt
  <2>1. call[u].nonce \in Nat
    BY DEF EthereumInv, EthereumTypeOK
  <2>2. call[u].nonce + 1 \in 1..Len(mined)
    BY <2>1, <1>2
  <2> QED
    BY <2>1, <2>2, <1>2, <1>3
<1>8. WaitsForOwn'
  <2> SUFFICES ASSUME NEW u \in Calls, At(u, "wait")
               PROVE  OwnTransaction(u)'
    BY DEF WaitsForOwn, At
  <2>1. CASE InBlock(u) /\ Receipt(u).bundle = call[u].bundle
    BY <2>1, <1>7 DEF OwnTransaction
  <2>2. CASE [nonce |-> call[u].nonce, bundle |-> call[u].bundle] = tx
    BY <2>2, <1>1, <1>2, <1>3 DEF OwnTransaction, InBlock, Receipt
  <2>3. CASE /\ [nonce |-> call[u].nonce, bundle |-> call[u].bundle] \in mempool
             /\ [nonce |-> call[u].nonce, bundle |-> call[u].bundle] # tx
    BY <2>3 DEF OwnTransaction
  <2> QED
    BY <2>1, <2>2, <2>3 DEF EthereumInv, WaitsForOwn, OwnTransaction
<1>9. OwnReceipt'
  BY <1>7 DEF EthereumInv, OwnReceipt, At
<1> QED
  BY <1>1, <1>4, <1>5, <1>6, <1>8, <1>9 DEF EthereumInv

-----------------------------------------------------------------------------
(* The rows, and the service                                                *)

\* A row that was taken by a submission stays pending unless it is deleted.
PendingOrGone(table, taken) ==
    \A r \in taken : table[r].status \in {"pending", "none"}

\* The aggregate of a confirmed row is on chain, and confirmed as a whole or up
\* to a row after which it was cut short.
Whole(table, id, chain, cut, r) ==
    /\ r \in chain
    /\ r \in table[r].aggregate
    /\ \A q \in table[r].aggregate :
           /\ q <= id
           /\ \/ ~Present(table, q)
              \/ /\ table[q].status = "confirmed"
                 /\ table[q].aggregate = table[r].aggregate
              \/ table[r].aggregate \in cut /\ r < q

\* What holds of the rows, and of the rows a ROLLBACK returns to.
TableOK(table, id, chain, calls, cut) ==
    /\ \A r \in Rows : Present(table, r) => r <= id
    /\ \A r \in Rows :
           table[r].status = "confirmed" => Whole(table, id, chain, cut, r)
    /\ \A t \in Calls : PendingOrGone(table, calls[t].bundle)

\* What happened to a row since BEGIN; no row was added.
Advanced(old, new) ==
    new = old \/ (old = "pending" /\ new \in {"failed", "confirmed"})

\* All rows were deleted, or each was advanced.
Since(old, new) ==
    \/ \A r \in Rows : ~Present(new, r)
    \/ \A r \in Rows : Advanced(old[r].status, new[r].status)

Open == group # NoGroup

TransactionOK ==
    Open => /\ backup.lastId = lastId
            /\ TableOK(backup.rows, lastId, onChain, call, cutShort)
            /\ Since(backup.rows, rows)

\* The rows the submission may still put into an aggregate.
Taken(g) == IF g.step = "semaphore" THEN g.included ELSE g.eligible

GroupOK(g, table, id, unconfirmed) ==
    /\ g.kind # "submission" => g = Group(g.kind)
    /\ g.step = "semaphore" => g.included # {}
    /\ Taken(g) \intersect unconfirmed = {}
    /\ PendingOrGone(table, Taken(g))
    /\ \A r \in Taken(g) : r <= id

Waiting(q) == {i \in DOMAIN q : q[i] = "submission"}

\* Submissions that wait for the mutex or hold it.
SubmissionsIn(q, g) ==
    Cardinality(Waiting(q)) + (IF g.kind = "submission" THEN 1 ELSE 0)

BundlesUnconfirmed ==
    \A t \in Calls :
        /\ call[t].bundle \subseteq unconfirmedRowIds
        /\ \A r \in call[t].bundle : r <= lastId

ReceiptsOnChain ==
    \A n \in DOMAIN mined : mined[n].ok => mined[n].bundle \subseteq onChain

IInv ==
    /\ EthereumInv
    /\ ServiceTypeOK
    /\ GroupOK(group, rows, lastId, unconfirmedRowIds)
    /\ submissionsInProgress = SubmissionsIn(queue, group)
    /\ PermitsCounted
    /\ BundlesUnconfirmed
    /\ SubmittedOnce
    /\ ReceiptsOnChain
    /\ TableOK(rows, lastId, onChain, call, cutShort)
    /\ TransactionOK

-----------------------------------------------------------------------------
(* Query groups                                                             *)

Tables == [Rows -> Row]
Backups == [rows: Tables, lastId: Nat]

LEMMA GroupType ==
  ASSUME NEW kind \in GroupKinds \union {"none"}
  PROVE  /\ Group(kind) \in Groups
         /\ Group(kind).kind = kind /\ Group(kind).step = "blockNumber"
         /\ Group(kind).eligible = {} /\ Group(kind).included = {}
         /\ \A table, id, unconfirmed :
                GroupOK(Group(kind), table, id, unconfirmed)
  BY DEF Group, Groups, GroupSteps, GroupOK, Taken, PendingOrGone

\* A group with the mutex is not taken for none.
LEMMA OpenIfHeld ==
  ASSUME NEW kind \in GroupKinds
  PROVE  Group(kind) # NoGroup /\ (group.kind = kind => Open)
<1>1. NoGroup.kind = "none" /\ Group(kind).kind = kind
  BY GroupType DEF NoGroup
<1> QED
  BY <1>1 DEF Open, GroupKinds

LEMMA WaitingFinite ==
  ASSUME NEW q \in Seq(GroupKinds)
  PROVE  IsFiniteSet(Waiting(q)) /\ Cardinality(Waiting(q)) \in Nat
<1>1. Waiting(q) \in SUBSET (1..Len(q))
  BY DEF Waiting
<1>2. IsFiniteSet(1..Len(q))
  BY FS_Interval
<1>3. IsFiniteSet(Waiting(q))
  BY <1>1, <1>2, FS_Subset
<1> QED
  BY <1>3, FS_CardinalityType

LEMMA WaitingAppend ==
  ASSUME NEW q \in Seq(GroupKinds), NEW kind \in GroupKinds
  PROVE  Cardinality(Waiting(Append(q, kind)))
            = Cardinality(Waiting(q)) + (IF kind = "submission" THEN 1 ELSE 0)
<1> DEFINE p == Append(q, kind)
           n == Len(q) + 1
<1>1. /\ DOMAIN q = 1..Len(q) /\ DOMAIN p = 1..n /\ Len(q) \in Nat
      /\ \A i \in DOMAIN q : p[i] = q[i]
      /\ p[n] = kind
  OBVIOUS
<1> HIDE DEF p
<1>2. n \notin Waiting(q)
  BY <1>1 DEF Waiting
<1>3. CASE kind = "submission"
  <2>1. Waiting(p) = Waiting(q) \union {n}
    BY <1>1, <1>3 DEF Waiting
  <2> QED
    BY <2>1, <1>2, <1>3, WaitingFinite, FS_AddElement DEF p
<1>4. CASE kind # "submission"
  <2>1. Waiting(p) = Waiting(q)
    BY <1>1, <1>4 DEF Waiting
  <2> QED
    BY <2>1, <1>4, WaitingFinite DEF p
<1> QED
  BY <1>3, <1>4

LEMMA WaitingTail ==
  ASSUME NEW q \in Seq(GroupKinds), q # <<>>
  PROVE  Cardinality(Waiting(q))
            = Cardinality(Waiting(Tail(q)))
                + (IF Head(q) = "submission" THEN 1 ELSE 0)
<1> DEFINE p == Tail(q)
           later == Waiting(q) \ {1}
           f == [i \in Waiting(p) |-> i + 1]
<1>1. /\ DOMAIN q = 1..Len(q) /\ Len(q) \in Nat \ {0}
      /\ DOMAIN p = 1..(Len(q) - 1) /\ Head(q) = q[1]
      /\ \A i \in DOMAIN p : p[i] = q[i + 1]
      /\ p \in Seq(GroupKinds)
  OBVIOUS
<1> HIDE DEF p
<1>2. f \in Bijection(Waiting(p), later)
  <2>1. \A i \in Waiting(p) : i + 1 \in later
    BY <1>1 DEF Waiting
  <2>2. \A j \in later : j - 1 \in Waiting(p) /\ f[j - 1] = j
    BY <1>1 DEF Waiting
  <2>3. \A i, j \in Waiting(p) : f[i] = f[j] => i = j
    BY <1>1 DEF Waiting
  <2>4. f \in [Waiting(p) -> later]
    BY <2>1
  <2> HIDE DEF f
  <2> QED
    BY <2>2, <2>3, <2>4 DEF Bijection, Injection, Surjection, IsInjective
<1>3. Cardinality(later) = Cardinality(Waiting(p))
  BY <1>1, <1>2, WaitingFinite, FS_Bijection DEF ExistsBijection
<1>4. 1 \in Waiting(q) <=> Head(q) = "submission"
  BY <1>1 DEF Waiting
<1>5. Cardinality(later) = IF 1 \in Waiting(q) THEN Cardinality(Waiting(q)) - 1
                           ELSE Cardinality(Waiting(q))
  BY WaitingFinite, FS_RemoveElement
<1> QED
  BY <1>1, <1>3, <1>4, <1>5, WaitingFinite DEF p

LEMMA BusyFinite == IsFiniteSet(BusyCalls) /\ Cardinality(BusyCalls) \in Nat
<1>1. IsFiniteSet(BusyCalls)
  BY ServiceAssumption, FS_Subset DEF BusyCalls
<1> QED
  BY <1>1, FS_CardinalityType

LEMMA SubmissionsType ==
  ASSUME NEW q \in Seq(GroupKinds), NEW g
  PROVE  SubmissionsIn(q, g) \in Nat
  BY WaitingFinite DEF SubmissionsIn

\* A submission or an addition takes the mutex or queues for it.
LEMMA LockOK ==
  ASSUME IInv, NEW kind \in GroupKinds, Lock(kind),
         UNCHANGED <<rows, lastId, unconfirmedRowIds, onChain, call, cutShort>>
  PROVE  /\ group' \in Groups /\ queue' \in Seq(GroupKinds)
         /\ backup' \in Backups
         /\ GroupOK(group', rows', lastId', unconfirmedRowIds')
         /\ TransactionOK'
         /\ SubmissionsIn(queue', group')
                = SubmissionsIn(queue, group)
                    + (IF kind = "submission" THEN 1 ELSE 0)
<1>0. /\ rows \in Tables /\ lastId \in Nat /\ backup \in Backups
      /\ group \in Groups /\ queue \in Seq(GroupKinds)
      /\ Cardinality(Waiting(queue)) \in Nat
  BY WaitingFinite DEF IInv, ServiceTypeOK, Tables, Backups
<1>1. CASE group = NoGroup
  <2>1. /\ group' = Group(kind) /\ queue' = queue
        /\ backup' = [rows |-> rows, lastId |-> lastId]
    BY <1>1 DEF Lock, Begin
  <2>2. TransactionOK'
    BY <2>1 DEF IInv, TransactionOK, Since, Advanced
  <2>3. SubmissionsIn(queue', group')
            = SubmissionsIn(queue, group) + (IF kind = "submission" THEN 1 ELSE 0)
    BY <1>0, <1>1, <2>1, GroupType DEF SubmissionsIn, NoGroup
  <2> QED
    BY <1>0, <2>1, <2>2, <2>3, GroupType DEF Backups
<1>2. CASE group # NoGroup
  <2>1. /\ queue' = Append(queue, kind) /\ group' = group /\ backup' = backup
    BY <1>2 DEF Lock
  <2>2. SubmissionsIn(queue', group')
            = SubmissionsIn(queue, group) + (IF kind = "submission" THEN 1 ELSE 0)
    BY <1>0, <2>1, WaitingAppend DEF SubmissionsIn
  <2>3. TransactionOK'
    BY <2>1 DEF IInv, TransactionOK, Open
  <2> QED
    BY <1>0, <2>1, <2>2, <2>3 DEF IInv
<1> QED
  BY <1>1, <1>2

\* COMMIT or ROLLBACK, and the next group begins with what they leave.
LEMMA ReleaseOK ==
  ASSUME IInv, Open, Release, rows' \in Tables, lastId' \in Nat,
         TableOK(rows', lastId', onChain', call', cutShort')
  PROVE  /\ group' \in Groups /\ queue' \in Seq(GroupKinds)
         /\ backup' \in Backups
         /\ GroupOK(group', rows', lastId', unconfirmedRowIds')
         /\ TransactionOK'
         /\ SubmissionsIn(queue', group')
                = SubmissionsIn(queue, group)
                    - (IF group.kind = "submission" THEN 1 ELSE 0)
<1>0. /\ backup \in Backups /\ group \in Groups /\ queue \in Seq(GroupKinds)
      /\ Cardinality(Waiting(queue)) \in Nat
  BY WaitingFinite DEF IInv, ServiceTypeOK, Tables, Backups
<1>1. CASE queue = <<>>
  <2>1. group' = NoGroup /\ queue' = queue /\ backup' = backup
    BY <1>1 DEF Release
  <2>2. TransactionOK'
    BY <2>1 DEF TransactionOK, Open
  <2>3. SubmissionsIn(queue', group')
            = SubmissionsIn(queue, group)
                - (IF group.kind = "submission" THEN 1 ELSE 0)
    BY <1>0, <2>1, GroupType DEF SubmissionsIn, NoGroup
  <2> QED
    BY <1>0, <2>1, <2>2, <2>3, GroupType DEF NoGroup
<1>2. CASE queue # <<>>
  <2>1. /\ group' = Group(Head(queue)) /\ queue' = Tail(queue)
        /\ backup' = [rows |-> rows', lastId |-> lastId']
    BY <1>2 DEF Release, Begin
  <2>2. Head(queue) \in GroupKinds /\ queue' \in Seq(GroupKinds)
    BY <1>0, <1>2, <2>1
  <2>3. Cardinality(Waiting(queue')) \in Nat
    BY <2>2, WaitingFinite
  <2>4. TransactionOK'
    BY <2>1 DEF TransactionOK, Since, Advanced
  <2>5. SubmissionsIn(queue', group')
            = SubmissionsIn(queue, group)
                - (IF group.kind = "submission" THEN 1 ELSE 0)
    BY <1>0, <1>2, <2>1, <2>2, <2>3, WaitingTail, GroupType DEF SubmissionsIn
  <2> QED
    BY <2>1, <2>2, <2>4, <2>5, GroupType DEF Backups
<1> QED
  BY <1>1, <1>2

-----------------------------------------------------------------------------
(* Tables                                                                   *)

LEMMA BundlesAreRows ==
  ASSUME IInv, NEW t \in Calls
  PROVE  call[t].bundle \subseteq Rows
  BY ServiceAssumption DEF IInv, EthereumInv, EthereumTypeOK

\* A table in which no status and no aggregate changed.
LEMMA SameStatusOK ==
  ASSUME NEW old \in Tables, NEW new \in Tables,
         NEW id, NEW chain, NEW cut, NEW calls,
         \A t \in Calls : calls[t].bundle \subseteq Rows,
         \A r \in Rows : /\ new[r].status = old[r].status
                         /\ new[r].aggregate = old[r].aggregate,
         TableOK(old, id, chain, calls, cut)
  PROVE  TableOK(new, id, chain, calls, cut)
<1>1. \A r \in Rows : old[r].aggregate \subseteq Rows
  BY DEF Tables, Row
<1>2. \A r \in Rows :
          new[r].status = "confirmed" => Whole(new, id, chain, cut, r)
  BY <1>1 DEF TableOK, Whole, Present
<1>3. \A t \in Calls : PendingOrGone(new, calls[t].bundle)
  BY DEF TableOK, PendingOrGone
<1> QED
  BY <1>2, <1>3 DEF TableOK, Present

\* More is on chain, more ids were given, and calls may have ended.
LEMMA TableLater ==
  ASSUME NEW table \in Tables,
         NEW id \in Nat, NEW chain, NEW cut, NEW calls,
         NEW id2 \in Nat, NEW chain2, NEW cut2, NEW calls2,
         TableOK(table, id, chain, calls, cut),
         id <= id2, chain \subseteq chain2, cut \subseteq cut2,
         \A t \in Calls : calls2[t].bundle \subseteq calls[t].bundle
  PROVE  TableOK(table, id2, chain2, calls2, cut2)
<1>1. \A r \in Rows : r \in Nat /\ table[r].aggregate \subseteq Rows
  BY RowsAssumption DEF Tables, Row
<1>2. \A r \in Rows : Present(table, r) => r <= id2
  BY <1>1 DEF TableOK
<1>3. \A r \in Rows :
          table[r].status = "confirmed" => Whole(table, id2, chain2, cut2, r)
  BY <1>1 DEF TableOK, Whole
<1>4. \A t \in Calls : PendingOrGone(table, calls2[t].bundle)
  BY DEF TableOK, PendingOrGone
<1> QED
  BY <1>2, <1>3, <1>4 DEF TableOK

-----------------------------------------------------------------------------
(* Steps that leave the calls alone                                         *)

LEMMA CallsKept ==
  ASSUME IInv,
         UNCHANGED <<nextNonce, call, mempool, mined, onChain, permits>>,
         stopping => stopping',
         faults' \in Nat, lastId' \in Nat, lastId' >= lastId,
         \A t \in Calls : call[t].bundle \subseteq unconfirmedRowIds'
  PROVE  /\ EthereumInv'
         /\ PermitsCounted'
         /\ BundlesUnconfirmed'
         /\ SubmittedOnce'
         /\ ReceiptsOnChain'
<1>1. EthereumInv'
  BY DEF IInv, EthereumInv, EthereumTypeOK, CallsOK, PoolOK, WaitsForOwn,
         OwnReceipt, OwnTransaction, Busy, At, InBlock, Receipt
<1>2. PermitsCounted'
  <2>1. BusyCalls' = BusyCalls
    BY DEF BusyCalls, At
  <2> QED
    BY <2>1, BusyFinite, ServiceAssumption
       DEF IInv, ServiceTypeOK, PermitsCounted
<1>3. BundlesUnconfirmed'
  <2>1. lastId \in Nat /\ \A t \in Calls : \A r \in call[t].bundle : r \in Nat
    BY BundlesAreRows, RowsAssumption DEF IInv, ServiceTypeOK
  <2> QED
    BY <2>1 DEF IInv, BundlesUnconfirmed
<1>4. SubmittedOnce' /\ ReceiptsOnChain'
  BY DEF IInv, SubmittedOnce, ReceiptsOnChain
<1> QED
  BY <1>1, <1>2, <1>3, <1>4

\* No table, no group and no count changes.
LEMMA FrameOK ==
  ASSUME IInv,
         UNCHANGED <<databaseVars, mutexVars, submissionsInProgress,
                     submissionVars, onChain, cutShort, nextNonce, call,
                     mempool, mined>>,
         checks' \in Nat, timer' \in BOOLEAN,
         stopping' \in BOOLEAN, stopping => stopping',
         restarts' \in Nat, faults' \in Nat
  PROVE  IInv'
<1> USE DEF databaseVars, mutexVars, submissionVars
<1>1. lastId' \in Nat /\ lastId' >= lastId
  BY DEF IInv, ServiceTypeOK
<1>2. \A t \in Calls : call[t].bundle \subseteq unconfirmedRowIds'
  BY DEF IInv, BundlesUnconfirmed
<1>3. /\ EthereumInv' /\ PermitsCounted' /\ BundlesUnconfirmed'
      /\ SubmittedOnce' /\ ReceiptsOnChain'
  BY <1>1, <1>2, CallsKept
<1>4. ServiceTypeOK'
  BY <1>3 DEF IInv, ServiceTypeOK, EthereumInv
<1>5. TransactionOK'
  BY DEF IInv, TransactionOK, Open
<1> QED
  BY <1>3, <1>4, <1>5 DEF IInv

\* What the actions below use of the types and of the faults.
LEMMA Types ==
  ASSUME IInv
  PROVE  /\ rows \in Tables /\ lastId \in Nat /\ backup \in Backups
         /\ group \in Groups /\ queue \in Seq(GroupKinds)
         /\ checks \in Nat /\ timer \in BOOLEAN /\ restarts \in Nat
         /\ stopping \in BOOLEAN /\ faults \in Nat
         /\ unconfirmedRowIds \subseteq Rows /\ onChain \subseteq Rows
         /\ cutShort \subseteq Bundles
         /\ submissionsInProgress \in Nat
         /\ permits \in 0..maxUnconfirmedAggregations
         /\ \A kind : Fault(kind) => faults' \in Nat
  BY FaultOK DEF IInv, ServiceTypeOK, EthereumTypeOK, Tables, Backups

LEMMA StartCheckOK ==
  ASSUME IInv, NEW runs, StartCheck(runs)
  PROVE  checks' \in Nat
  BY Types DEF StartCheck

LEMMA TriggerOK ==
  ASSUME IInv, Trigger, checks' \in Nat,
         UNCHANGED <<submissionVars, stopping, onChain, restarts, cutShort,
                     ethereumVars>>
  PROVE  IInv'
<1> USE DEF submissionVars, ethereumVars
<1>1. /\ group' \in Groups /\ queue' \in Seq(GroupKinds) /\ backup' \in Backups
      /\ GroupOK(group', rows', lastId', unconfirmedRowIds')
      /\ TransactionOK'
      /\ SubmissionsIn(queue', group') = SubmissionsIn(queue, group) + 1
  <2>1. "submission" \in GroupKinds /\ Lock("submission")
    BY DEF Trigger, GroupKinds
  <2> QED
    BY <2>1, LockOK DEF Trigger
<1>2. /\ EthereumInv' /\ PermitsCounted' /\ BundlesUnconfirmed'
      /\ SubmittedOnce' /\ ReceiptsOnChain'
  BY Types, CallsKept DEF Trigger, IInv, BundlesUnconfirmed
<1>3. ServiceTypeOK'
  <2>1. /\ rows' = rows /\ lastId' = lastId /\ timer' \in BOOLEAN
        /\ submissionsInProgress' = submissionsInProgress + 1
    BY DEF Trigger
  <2>2. /\ unconfirmedRowIds' = unconfirmedRowIds /\ permits' = permits
        /\ stopping' = stopping /\ onChain' = onChain /\ restarts' = restarts
        /\ cutShort' = cutShort
    OBVIOUS
  <2>3. EthereumTypeOK'
    BY <1>2 DEF EthereumInv
  <2> QED
    BY <1>1, <1>2, <2>1, <2>2, <2>3, Types DEF ServiceTypeOK, Tables, Backups
<1>4. submissionsInProgress' = SubmissionsIn(queue', group')
  BY <1>1 DEF IInv, Trigger
<1>5. TableOK(rows', lastId', onChain', call', cutShort')
  BY DEF IInv, Trigger
<1> QED
  BY <1>1, <1>2, <1>3, <1>4, <1>5 DEF IInv

LEMMA TryAggregatingOK == IInv /\ TryAggregating => IInv'
<1> SUFFICES ASSUME IInv, TryAggregating PROVE IInv'
  OBVIOUS
<1>1. checks' \in Nat
  BY Types DEF TryAggregating
<1>2. CASE Trigger
  BY <1>1, <1>2, TriggerOK DEF TryAggregating
<1>3. CASE /\ timer' = (SubmittableCount > 0)
           /\ UNCHANGED <<databaseVars, mutexVars, submissionsInProgress>>
  BY <1>1, <1>3, Types, FrameOK DEF TryAggregating, ethereumVars
<1> QED
  BY <1>2, <1>3 DEF TryAggregating

LEMMA CheckFailsOK == IInv /\ CheckFails => IInv'
  BY Types, FrameOK DEF CheckFails

LEMMA TimerFiresOK == IInv /\ TimerFires => IInv'
  BY Types, TriggerOK DEF TimerFires

LEMMA StopOK == IInv /\ Stop => IInv'
  BY Types, FrameOK DEF Stop, timerVars, ethereumVars

LEMMA AddBundleOK == IInv /\ AddBundle => IInv'
<1> SUFFICES ASSUME IInv, AddBundle PROVE IInv'
  OBVIOUS
<1> USE DEF timerVars, submissionVars, ethereumVars
<1>1. /\ group' \in Groups /\ queue' \in Seq(GroupKinds) /\ backup' \in Backups
      /\ GroupOK(group', rows', lastId', unconfirmedRowIds')
      /\ TransactionOK'
      /\ SubmissionsIn(queue', group') = SubmissionsIn(queue, group)
  <2>1. "add" \in GroupKinds /\ Lock("add")
    BY DEF AddBundle, GroupKinds
  <2>2. SubmissionsIn(queue, group) \in Nat
    BY Types, SubmissionsType
  <2> QED
    BY <2>1, <2>2, LockOK DEF AddBundle
<1>2. /\ EthereumInv' /\ PermitsCounted' /\ BundlesUnconfirmed'
      /\ SubmittedOnce' /\ ReceiptsOnChain'
  BY Types, CallsKept DEF AddBundle, IInv, BundlesUnconfirmed
<1>3. ServiceTypeOK'
  BY <1>1, <1>2, Types
     DEF AddBundle, ServiceTypeOK, EthereumInv, Tables, Backups
<1>4. TableOK(rows', lastId', onChain', call', cutShort')
  BY DEF IInv, AddBundle
<1> QED
  BY <1>1, <1>2, <1>3, <1>4 DEF IInv, AddBundle

-----------------------------------------------------------------------------
(* Steps that change the rows                                               *)

LEMMA NextBlockOK ==
  ASSUME NEW table \in Tables
  PROVE  /\ NextBlock(table) \in Tables
         /\ \A r \in Rows : /\ NextBlock(table)[r].status = table[r].status
                            /\ NextBlock(table)[r].aggregate = table[r].aggregate
  BY DEF NextBlock, Tables, Row

LEMMA HandleBlockOK == IInv /\ HandleBlock => IInv'
<1> SUFFICES ASSUME IInv, HandleBlock PROVE IInv'
  OBVIOUS
<1> USE DEF submissionVars, ethereumVars
<1>1. rows' = NextBlock(rows) /\ rows' \in Tables
  BY Types, NextBlockOK DEF HandleBlock
<1>2. /\ backup' \in Backups /\ backup'.lastId = backup.lastId
      /\ backup'.rows = NextBlock(backup.rows) /\ backup.rows \in Tables
  BY Types, NextBlockOK DEF HandleBlock, Backups
<1>3. /\ group' \in Groups /\ group'.kind = group.kind
      /\ group'.step = group.step /\ group'.eligible = group.eligible
      /\ group'.included = group.included
      /\ group.kind # "submission" => group' = group
  BY Types DEF HandleBlock, Holds, Groups
<1>4. /\ EthereumInv' /\ PermitsCounted' /\ BundlesUnconfirmed'
      /\ SubmittedOnce' /\ ReceiptsOnChain'
  BY Types, CallsKept DEF HandleBlock, IInv, BundlesUnconfirmed
<1>5. ServiceTypeOK'
  BY <1>1, <1>2, <1>3, <1>4, Types, StartCheckOK
     DEF HandleBlock, ServiceTypeOK, EthereumInv, Tables, Backups
<1>6. GroupOK(group', rows', lastId', unconfirmedRowIds')
  <2>1. Taken(group') = Taken(group) /\ Taken(group) \subseteq Rows
    BY <1>3, Types DEF Taken, Groups
  <2> QED
    BY <1>1, <1>3, <2>1, Types, NextBlockOK
       DEF IInv, GroupOK, PendingOrGone, HandleBlock
<1>7. submissionsInProgress' = SubmissionsIn(queue', group')
  BY <1>3 DEF IInv, HandleBlock, SubmissionsIn
<1>8. /\ onChain' = onChain /\ call' = call /\ lastId' = lastId
      /\ cutShort' = cutShort
      /\ \A t \in Calls : call[t].bundle \subseteq Rows
  BY BundlesAreRows DEF HandleBlock
<1>9. TableOK(rows', lastId', onChain', call', cutShort')
  BY <1>1, <1>8, Types, NextBlockOK, SameStatusOK DEF IInv
<1>10. TransactionOK'
  <2> SUFFICES ASSUME group' # NoGroup
               PROVE  /\ backup'.lastId = lastId'
                      /\ TableOK(backup'.rows, lastId', onChain', call', cutShort')
                      /\ Since(backup'.rows, rows')
    BY DEF TransactionOK, Open
  <2>1. /\ backup.lastId = lastId
        /\ TableOK(backup.rows, lastId, onChain, call, cutShort)
        /\ Since(backup.rows, rows)
    <3>1. NoGroup.kind = "none"
      BY GroupType DEF NoGroup
    <3> QED
      BY <1>3, <3>1 DEF IInv, TransactionOK, Open
  <2>2. TableOK(backup'.rows, lastId', onChain', call', cutShort')
    BY <1>2, <1>8, <2>1, NextBlockOK, SameStatusOK
  <2>3. Since(backup'.rows, rows')
    BY <1>1, <1>2, <2>1, Types, NextBlockOK DEF Since, Advanced, Present
  <2> QED
    BY <1>2, <1>8, <2>1, <2>2, <2>3
<1> QED
  BY <1>4, <1>5, <1>6, <1>7, <1>9, <1>10 DEF IInv

\* The new row is in no aggregate: aggregates have ids that were given before.
LEMMA AddKeepsTable ==
  ASSUME NEW table \in Tables, NEW id \in Nat, NEW chain, NEW cut, NEW calls,
         \A t \in Calls : calls[t].bundle \subseteq Rows,
         TableOK(table, id, chain, calls, cut)
  PROVE  /\ Add(table, id + 1) \in Tables
         /\ TableOK(Add(table, id + 1), id + 1, chain, calls, cut)
<1> DEFINE new == Add(table, id + 1)
<1>1. new \in Tables
  BY DEF Add, NewRow, Row, Statuses, Tables
<1>2. \A r \in Rows : new[r] = IF r = id + 1 THEN NewRow ELSE table[r]
  BY DEF Add, Tables
<1>3. NewRow.status = "pending"
  BY DEF NewRow
<1>4. \A r \in Rows : r \in Nat /\ table[r].aggregate \subseteq Rows
  BY RowsAssumption DEF Tables, Row
<1> HIDE DEF new
<1>5. \A r \in Rows : Present(new, r) => r <= id + 1
  BY <1>2, <1>4 DEF TableOK, Present
<1>6. ASSUME NEW r \in Rows, new[r].status = "confirmed"
      PROVE  Whole(new, id + 1, chain, cut, r)
  <2>1. new[r] = table[r] /\ Whole(table, id, chain, cut, r)
    BY <1>2, <1>3, <1>6 DEF TableOK
  <2>2. \A q \in table[r].aggregate :
            q \in Rows /\ q \in Nat /\ q <= id /\ new[q] = table[q]
    BY <1>2, <1>4, <2>1 DEF Whole
  <2> QED
    BY <2>1, <2>2 DEF Whole, Present
<1>7. \A t \in Calls : PendingOrGone(new, calls[t].bundle)
  BY <1>2, <1>3 DEF TableOK, PendingOrGone
<1> QED
  BY <1>1, <1>5, <1>6, <1>7 DEF TableOK, new

LEMMA AddRowOK == IInv /\ AddRow => IInv'
<1> SUFFICES ASSUME IInv, AddRow PROVE IInv'
  OBVIOUS
<1> USE DEF submissionVars, ethereumVars
<1>1. /\ rows' \in Tables /\ lastId' = lastId + 1
      /\ TableOK(rows', lastId', onChain', call', cutShort')
  BY Types, AddKeepsTable, BundlesAreRows DEF IInv, AddRow
<1>2. /\ EthereumInv' /\ PermitsCounted' /\ BundlesUnconfirmed'
      /\ SubmittedOnce' /\ ReceiptsOnChain'
  BY Types, CallsKept DEF AddRow, IInv, BundlesUnconfirmed
<1>3. /\ group' \in Groups /\ queue' \in Seq(GroupKinds) /\ backup' \in Backups
      /\ GroupOK(group', rows', lastId', unconfirmedRowIds')
      /\ TransactionOK'
      /\ SubmissionsIn(queue', group') = SubmissionsIn(queue, group)
  <2>1. Open /\ group.kind = "add" /\ Release
    BY OpenIfHeld DEF AddRow, GroupKinds
  <2>2. SubmissionsIn(queue, group) \in Nat /\ lastId' \in Nat
    BY Types, SubmissionsType, <1>1
  <2> QED
    BY <1>1, <2>1, <2>2, ReleaseOK
<1>4. ServiceTypeOK'
  BY <1>1, <1>2, <1>3, Types, StartCheckOK
     DEF AddRow, ServiceTypeOK, EthereumInv, Tables, Backups
<1> QED
  BY <1>1, <1>2, <1>3, <1>4 DEF IInv, AddRow

LEMMA AddFailsOK == IInv /\ AddFails => IInv'
<1> SUFFICES ASSUME IInv, AddFails PROVE IInv'
  OBVIOUS
<1> USE DEF timerVars, submissionVars
<1>1. Open /\ group.kind = "add" /\ Release
  BY OpenIfHeld DEF AddFails, GroupKinds
<1>2. /\ rows' \in Tables /\ lastId' = lastId
      /\ TableOK(rows', lastId', onChain', call', cutShort')
  BY <1>1, Types DEF IInv, AddFails, TransactionOK, Backups
<1>3. /\ EthereumInv' /\ PermitsCounted' /\ BundlesUnconfirmed'
      /\ SubmittedOnce' /\ ReceiptsOnChain'
  BY <1>2, Types, CallsKept DEF AddFails, IInv, BundlesUnconfirmed
<1>4. /\ group' \in Groups /\ queue' \in Seq(GroupKinds) /\ backup' \in Backups
      /\ GroupOK(group', rows', lastId', unconfirmedRowIds')
      /\ TransactionOK'
      /\ SubmissionsIn(queue', group') = SubmissionsIn(queue, group)
  <2>1. SubmissionsIn(queue, group) \in Nat /\ lastId' \in Nat
    BY Types, SubmissionsType, <1>2
  <2> QED
    BY <1>1, <1>2, <2>1, ReleaseOK
<1>5. ServiceTypeOK'
  BY <1>2, <1>3, <1>4, Types
     DEF AddFails, ServiceTypeOK, EthereumInv, Tables, Backups
<1> QED
  BY <1>2, <1>3, <1>4, <1>5 DEF IInv, AddFails

LEMMA UpdateOK ==
  ASSUME NEW table \in Tables, NEW changed, DOMAIN changed \subseteq Rows,
         \A r \in DOMAIN changed : changed[r] \in Row
  PROVE  /\ Update(table, changed) \in Tables
         /\ \A r \in Rows : Update(table, changed)[r]
                = IF r \in DOMAIN changed /\ Present(table, r)
                  THEN changed[r] ELSE table[r]
  BY DEF Update, Tables

\* Rows that are not in a running aggregate are delayed or given up.
LEMMA FailKeepsTable ==
  ASSUME NEW table \in Tables, NEW new \in Tables,
         NEW id, NEW chain, NEW cut, NEW calls,
         TableOK(table, id, chain, calls, cut),
         \A r \in Rows : \/ new[r] = table[r]
                         \/ /\ table[r].status = "pending"
                            /\ new[r].status \in {"pending", "failed"},
         \A t \in Calls : \A r \in calls[t].bundle : new[r] = table[r]
  PROVE  /\ TableOK(new, id, chain, calls, cut)
         /\ \A old : Since(old, table) => Since(old, new)
<1>1. \A r \in Rows : Present(new, r) => r <= id
  BY DEF TableOK, Present
<1>2. ASSUME NEW r \in Rows, new[r].status = "confirmed"
      PROVE  Whole(new, id, chain, cut, r)
  <2>1. new[r] = table[r] /\ Whole(table, id, chain, cut, r)
    BY <1>2 DEF TableOK
  <2>2. \A q \in table[r].aggregate :
            /\ q <= id
            /\ Present(new, q) =>
                   \/ new[q] = table[q] /\ Present(table, q)
                   \/ table[q].status = "pending" /\ Present(table, q)
    BY <2>1 DEF Tables, Row, Whole, Present
  <2> QED
    BY <2>1, <2>2 DEF Whole
<1>3. \A t \in Calls : PendingOrGone(new, calls[t].bundle)
  BY DEF TableOK, PendingOrGone
<1>4. ASSUME NEW old, Since(old, table) PROVE Since(old, new)
  BY <1>4 DEF Since, Advanced, Present
<1> QED
  BY <1>1, <1>2, <1>3, <1>4 DEF TableOK

\* What may be written of an aggregate.
InOrder(written, aggregate, cut) ==
    \/ written = aggregate
    \/ aggregate \in cut /\ written \in FirstParts(aggregate)

\* The rows of an aggregate that is on chain are confirmed, all or the first of
\* them, except those that were deleted; it shares no row with another running
\* aggregate.
LEMMA ConfirmKeepsTable ==
  ASSUME NEW table \in Tables, NEW new \in Tables, NEW id, NEW chain,
         NEW calls, NEW calls2, NEW cut, NEW cut2, cut \subseteq cut2,
         NEW aggregate \in SUBSET Rows, NEW written \in SUBSET aggregate,
         InOrder(written, aggregate, cut2),
         TableOK(table, id, chain, calls, cut),
         \A r \in Rows :
             IF r \in written /\ Present(table, r)
             THEN new[r].status = "confirmed" /\ new[r].aggregate = aggregate
             ELSE new[r] = table[r],
         aggregate \subseteq chain,
         \A r \in aggregate : r <= id,
         PendingOrGone(table, aggregate),
         \A t \in Calls : /\ calls2[t].bundle \subseteq calls[t].bundle
                          /\ calls2[t].bundle \subseteq Rows
                          /\ calls2[t].bundle \intersect aggregate = {}
  PROVE  /\ TableOK(new, id, chain, calls2, cut2)
         /\ \A old : Since(old, table) => Since(old, new)
<1>1. \A r \in Rows : Present(new, r) => r <= id
  BY DEF TableOK, Present
<1>2. ASSUME NEW r \in Rows, new[r].status = "confirmed"
      PROVE  Whole(new, id, chain, cut2, r)
  <2>1. CASE r \in written /\ Present(table, r)
    <3>1. new[r].aggregate = aggregate
      BY <2>1
    <3>2. \A q \in written : Present(new, q) => Present(table, q)
      BY DEF Present
    <3>3. \A q \in aggregate \ written : aggregate \in cut2 /\ r < q
      BY <2>1 DEF InOrder, FirstParts
    <3> QED
      BY <2>1, <3>1, <3>2, <3>3 DEF Whole
  <2>2. CASE ~(r \in written /\ Present(table, r))
    <3>1. new[r] = table[r] /\ Whole(table, id, chain, cut, r)
      BY <1>2, <2>2 DEF TableOK
    <3>2. table[r].aggregate \subseteq Rows
      BY DEF Tables, Row
    <3>3. \A q \in table[r].aggregate :
              \/ new[q] = table[q]
              \/ Present(table, q) /\ table[q].status # "confirmed"
      BY <3>2 DEF PendingOrGone
    <3> QED
      BY <3>1, <3>3 DEF Whole, Present
  <2> QED
    BY <2>1, <2>2
<1>3. \A t \in Calls : PendingOrGone(new, calls2[t].bundle)
  <2> SUFFICES ASSUME NEW t \in Calls, NEW r \in calls2[t].bundle
               PROVE  new[r].status \in {"pending", "none"}
    BY DEF PendingOrGone
  <2>1. r \in calls[t].bundle /\ r \in Rows /\ r \notin aggregate
    OBVIOUS
  <2> QED
    BY <2>1 DEF TableOK, PendingOrGone
<1>4. ASSUME NEW old, Since(old, table) PROVE Since(old, new)
  <2>1. CASE \A r \in Rows : ~Present(table, r)
    BY <2>1 DEF Since, Present
  <2>2. CASE \A r \in Rows : Advanced(old[r].status, table[r].status)
    <3>1. \A r \in Rows : Advanced(old[r].status, new[r].status)
      BY <2>2 DEF Advanced, PendingOrGone, Present
    <3> QED
      BY <3>1 DEF Since
  <2> QED
    BY <1>4, <2>1, <2>2 DEF Since
<1> QED
  BY <1>1, <1>2, <1>3, <1>4 DEF TableOK

-----------------------------------------------------------------------------
(* runSubmission                                                            *)

LEMMA FindEligibleRowsOK == IInv /\ FindEligibleRows => IInv'
<1> SUFFICES ASSUME IInv, FindEligibleRows PROVE IInv'
  OBVIOUS
<1> USE DEF databaseVars, timerVars, submissionVars, ethereumVars
<1> DEFINE eligible ==
        FindEligible(rows, bundleQueryLimit) \ unconfirmedRowIds
<1>1. /\ group' \in Groups /\ group'.kind = "submission"
      /\ group'.step = "strategy" /\ group'.eligible = eligible
  BY Types
     DEF FindEligibleRows, Holds, Groups, GroupSteps, GroupKinds, FindEligible,
         Eligible
<1>2. \A r \in eligible : r \in Rows /\ rows[r].status = "pending"
  BY DEF FindEligible, Eligible
<1>3. GroupOK(group', rows', lastId', unconfirmedRowIds')
  BY <1>1, <1>2
     DEF FindEligibleRows, GroupOK, Taken, PendingOrGone, IInv, TableOK, Present
<1> HIDE DEF eligible
<1>4. /\ EthereumInv' /\ PermitsCounted' /\ BundlesUnconfirmed'
      /\ SubmittedOnce' /\ ReceiptsOnChain'
  BY Types, CallsKept DEF FindEligibleRows, IInv, BundlesUnconfirmed
<1>5. ServiceTypeOK'
  BY <1>1, <1>4, Types
     DEF FindEligibleRows, ServiceTypeOK, EthereumInv, Tables, Backups
<1>6. submissionsInProgress' = SubmissionsIn(queue', group')
  BY <1>1 DEF IInv, FindEligibleRows, Holds, SubmissionsIn
<1>7. TableOK(rows', lastId', onChain', call', cutShort')
  BY DEF IInv, FindEligibleRows
<1>8. TransactionOK'
  <2>1. Open
    BY OpenIfHeld DEF FindEligibleRows, Holds, GroupKinds
  <2> QED
    BY <2>1 DEF IInv, TransactionOK, FindEligibleRows
<1> QED
  BY <1>3, <1>4, <1>5, <1>6, <1>7, <1>8 DEF IInv

LEMMA HandleFailedRowOK ==
  ASSUME group \in Groups, NEW row \in Row
  PROVE  /\ HandleFailedRow(row) \in Row
         /\ HandleFailedRow(row).status \in {"pending", "failed"}
<1>1. /\ row.nextEligibilityDelay \in Nat /\ group.blocks \in Nat
      /\ maxEligibilityDelay \in Nat
  BY ServiceAssumption DEF Row, Groups
<1>2. CASE row.nextEligibilityDelay <= maxEligibilityDelay
  <2> DEFINE wait == IF row.nextEligibilityDelay <= group.blocks THEN 0
                     ELSE row.nextEligibilityDelay - group.blocks
             next == 2 * row.nextEligibilityDelay
  <2>1. wait \in Nat /\ next \in Nat
    BY <1>1
  <2>2. HandleFailedRow(row)
            = [row EXCEPT !.status = "pending", !.wait = wait,
                          !.nextEligibilityDelay = next, !.aggregate = {}]
    BY <1>2 DEF HandleFailedRow
  <2> HIDE DEF wait, next
  <2> QED
    BY <2>1, <2>2 DEF Row, Statuses
<1>3. CASE ~(row.nextEligibilityDelay <= maxEligibilityDelay)
  BY <1>3 DEF HandleFailedRow, Row, Statuses
<1> QED
  BY <1>2, <1>3

LEMMA RunStrategyOK ==
  ASSUME IInv, NEW included, NEW failed, RunStrategy(included, failed)
  PROVE  IInv'
<1> USE DEF ethereumVars
<1>1. /\ Open /\ group.kind = "submission" /\ group.step = "strategy"
      /\ included \subseteq group.eligible /\ failed \subseteq group.eligible
      /\ included \intersect failed = {} /\ group.eligible \subseteq Rows
  BY Types, OpenIfHeld
     DEF RunStrategy, Holds, StrategyResult, IsResult, Groups, GroupKinds
<1>2. /\ Taken(group) = group.eligible
      /\ group.eligible \intersect unconfirmedRowIds = {}
      /\ \A r \in group.eligible : rows[r].status \in {"pending", "none"}
  BY <1>1 DEF IInv, GroupOK, Taken, PendingOrGone
<1>3. /\ rows' \in Tables
      /\ \A r \in Rows : rows'[r]
             = IF r \in failed /\ Present(rows, r)
               THEN HandleFailedRow(rows[r]) ELSE rows[r]
  <2> DEFINE changed == [r \in failed |-> HandleFailedRow(rows[r])]
  <2>1. /\ DOMAIN changed = failed /\ failed \subseteq Rows
        /\ \A r \in failed : rows[r] \in Row
        /\ \A r \in failed : changed[r] = HandleFailedRow(rows[r])
    BY <1>1, Types DEF Tables
  <2>2. \A r \in DOMAIN changed : changed[r] \in Row
    BY <2>1, Types, HandleFailedRowOK
  <2>3. rows' = Update(rows, changed)
    BY DEF RunStrategy
  <2> HIDE DEF changed
  <2> QED
    BY <2>1, <2>2, <2>3, Types, UpdateOK
<1>4. \A r \in Rows : \/ rows'[r] = rows[r]
                      \/ /\ r \in failed /\ rows[r].status = "pending"
                         /\ rows'[r].status \in {"pending", "failed"}
  BY <1>1, <1>2, <1>3, Types, HandleFailedRowOK DEF Present, Tables
<1>5. \A t \in Calls : \A r \in call[t].bundle :
          r \notin failed /\ rows'[r] = rows[r]
  BY <1>1, <1>2, <1>3, BundlesAreRows DEF IInv, BundlesUnconfirmed
<1>6. /\ TableOK(rows', lastId', onChain', call', cutShort')
      /\ \A old : Since(old, rows) => Since(old, rows')
  <2>1. TableOK(rows, lastId, onChain, call, cutShort)
    BY DEF IInv
  <2>2. /\ TableOK(rows', lastId, onChain, call, cutShort)
        /\ \A old : Since(old, rows) => Since(old, rows')
    BY <1>3, <1>4, <1>5, <2>1, Types, FailKeepsTable
  <2> QED
    BY <2>2 DEF RunStrategy
<1>7. /\ EthereumInv' /\ PermitsCounted' /\ BundlesUnconfirmed'
      /\ SubmittedOnce' /\ ReceiptsOnChain'
  <2>1. \A t \in Calls : call[t].bundle \subseteq unconfirmedRowIds'
    BY <1>5 DEF RunStrategy, IInv, BundlesUnconfirmed
  <2> QED
    BY <2>1, Types, CallsKept DEF RunStrategy
<1>8. /\ group' \in Groups /\ queue' \in Seq(GroupKinds) /\ backup' \in Backups
      /\ GroupOK(group', rows', lastId', unconfirmedRowIds')
      /\ TransactionOK'
      /\ submissionsInProgress' = SubmissionsIn(queue', group')
  <2>1. CASE included = {}
    BY <1>1, <1>3, <1>6, <2>1, Types, ReleaseOK DEF RunStrategy, IInv
  <2>2. CASE included # {}
    <3>1. /\ group' \in Groups /\ group'.kind = "submission"
          /\ group'.step = "semaphore" /\ group'.included = included
          /\ queue' = queue /\ backup' = backup
          /\ submissionsInProgress' = submissionsInProgress
          /\ unconfirmedRowIds' \subseteq unconfirmedRowIds
          /\ lastId' = lastId /\ onChain' = onChain /\ call' = call
      BY <1>1, <2>2, Types DEF RunStrategy, Groups, GroupSteps
    <3>2. /\ \A r \in group.eligible : r <= lastId
          /\ PendingOrGone(rows', included)
      BY <1>1, <1>2, <1>4 DEF IInv, GroupOK, PendingOrGone
    <3>3. GroupOK(group', rows', lastId', unconfirmedRowIds')
      BY <1>1, <1>2, <2>2, <3>1, <3>2 DEF GroupOK, Taken
    <3>4. TransactionOK'
      BY <1>1, <1>6, <3>1 DEF IInv, TransactionOK, RunStrategy
    <3>5. submissionsInProgress' = SubmissionsIn(queue', group')
      BY <1>1, <3>1 DEF IInv, SubmissionsIn
    <3> QED
      BY <3>1, <3>3, <3>4, <3>5, Types
  <2> QED
    BY <2>1, <2>2
<1>9. ServiceTypeOK'
  <2>1. submissionsInProgress' \in Nat
    BY <1>8, SubmissionsType
  <2> QED
    BY <1>3, <1>7, <1>8, <2>1, Types
       DEF RunStrategy, ServiceTypeOK, EthereumInv, Tables, Backups
<1> QED
  BY <1>6, <1>7, <1>8, <1>9 DEF IInv

LEMMA SubmitAggregateBundleOK ==
  ASSUME IInv, NEW t \in Calls, SubmitAggregateBundle(t)
  PROVE  IInv'
<1>1. /\ Open /\ group.kind = "submission" /\ group.step = "semaphore"
      /\ group.included \subseteq Rows /\ group.included # {}
      /\ group.included \in Bundles /\ {} \notin Bundles
  BY Types, OpenIfHeld, ServiceAssumption
     DEF SubmitAggregateBundle, Holds, Groups, GroupKinds, IInv, GroupOK
<1>2. /\ group.included \intersect unconfirmedRowIds = {}
      /\ PendingOrGone(rows, group.included)
      /\ \A r \in group.included : r <= lastId
  BY <1>1 DEF IInv, GroupOK, Taken
<1>3. call[t] = Idle /\ call[t].bundle = {} /\ t \notin BusyCalls
  BY ServiceAssumption
     DEF SubmitAggregateBundle, IInv, EthereumInv, CallsOK, Busy, At, Idle,
         BusyCalls
<1>4. \A u \in Calls :
          \/ call'[u] = call[u]
          \/ u = t /\ call'[u].bundle = group.included /\ ~stopping
  BY DEF SubmitAggregateBundle, Submitted, IInv, EthereumInv, EthereumTypeOK
<1>5. /\ rows' = rows /\ lastId' = lastId /\ onChain' = onChain
      /\ mined' = mined /\ cutShort' = cutShort
      /\ unconfirmedRowIds' = unconfirmedRowIds \union group.included
      /\ permits' = permits - 1 /\ permits' \in 0..maxUnconfirmedAggregations
  BY Types, ServiceAssumption DEF SubmitAggregateBundle
<1>6. EthereumInv'
  <2>1. CASE stopping
    BY <2>1, UnchangedOK DEF SubmitAggregateBundle, IInv, ethereumVars
  <2>2. CASE ~stopping
    BY <1>1, <2>2, SubmittedOK DEF SubmitAggregateBundle, IInv
  <2> QED
    BY <2>1, <2>2
<1>7. PermitsCounted'
  <2>1. /\ stopping' = stopping /\ permits \in Nat
        /\ maxUnconfirmedAggregations \in Nat
    BY Types, ServiceAssumption DEF SubmitAggregateBundle
  <2>2. CASE stopping
    <3>1. BusyCalls' = BusyCalls
      BY <2>2 DEF SubmitAggregateBundle, BusyCalls, At
    <3> QED
      BY <1>5, <2>1, <2>2, <3>1, BusyFinite DEF IInv, PermitsCounted
  <2>3. CASE ~stopping
    <3>1. BusyCalls' = BusyCalls \union {t}
      BY <1>3, <2>3 DEF SubmitAggregateBundle, Submitted, BusyCalls, At, IInv,
                        EthereumInv, EthereumTypeOK
    <3>2. Cardinality(BusyCalls') = Cardinality(BusyCalls) + 1
      BY <1>3, <3>1, BusyFinite, FS_AddElement
    <3> QED
      BY <1>5, <2>1, <2>3, <3>2, BusyFinite DEF IInv, PermitsCounted
  <2> QED
    BY <2>2, <2>3
<1>8. BundlesUnconfirmed'
  BY <1>2, <1>4, <1>5 DEF IInv, BundlesUnconfirmed
<1>9. SubmittedOnce'
  BY <1>2, <1>4 DEF IInv, SubmittedOnce, BundlesUnconfirmed
<1>10. ReceiptsOnChain'
  BY <1>5 DEF IInv, ReceiptsOnChain
<1>11. TableOK(rows', lastId', onChain', call', cutShort')
  <2>1. \A u \in Calls : PendingOrGone(rows, call'[u].bundle)
    BY <1>2, <1>4 DEF IInv, TableOK
  <2> QED
    BY <1>5, <2>1 DEF IInv, TableOK
<1>12. /\ group' \in Groups /\ queue' \in Seq(GroupKinds) /\ backup' \in Backups
       /\ GroupOK(group', rows', lastId', unconfirmedRowIds')
       /\ TransactionOK'
       /\ submissionsInProgress' = SubmissionsIn(queue', group')
  BY <1>1, <1>5, <1>11, Types, ReleaseOK DEF SubmitAggregateBundle, IInv
<1>13. ServiceTypeOK'
  <2>1. submissionsInProgress' \in Nat /\ checks' \in Nat
    BY <1>12, SubmissionsType, StartCheckOK DEF SubmitAggregateBundle
  <2>2. unconfirmedRowIds' \subseteq Rows
    BY <1>1, <1>5, Types
  <2>3. EthereumTypeOK'
    BY <1>6 DEF EthereumInv
  <2> QED
    BY <1>5, <1>7, <1>12, <2>1, <2>2, <2>3, Types
       DEF SubmitAggregateBundle, ServiceTypeOK, Tables, Backups
<1> QED
  BY <1>6, <1>7, <1>8, <1>9, <1>10, <1>11, <1>12, <1>13 DEF IInv

-----------------------------------------------------------------------------
(* The task that submits an aggregate                                       *)

\* Calls that only lose bundles, with more on chain, leave tables, group and
\* transaction as good as they were.
LEMMA LaterOK ==
  ASSUME IInv, UNCHANGED <<databaseVars, mutexVars>>,
         onChain \subseteq onChain', UNCHANGED cutShort,
         unconfirmedRowIds' \subseteq unconfirmedRowIds,
         \A t \in Calls : call'[t].bundle \subseteq call[t].bundle
  PROVE  /\ TableOK(rows', lastId', onChain', call', cutShort')
         /\ TransactionOK'
         /\ GroupOK(group', rows', lastId', unconfirmedRowIds')
<1> USE DEF databaseVars, mutexVars
<1>1. lastId \in Nat /\ rows \in Tables /\ backup.rows \in Tables
      /\ lastId <= lastId
  BY Types DEF Backups
<1>2. TableOK(rows', lastId', onChain', call', cutShort')
  BY <1>1, TableLater DEF IInv
<1>3. Open => TableOK(backup.rows, lastId, onChain', call', cutShort')
  BY <1>1, TableLater DEF IInv, TransactionOK
<1>4. TransactionOK'
  BY <1>3 DEF IInv, TransactionOK, Open
<1>5. GroupOK(group', rows', lastId', unconfirmedRowIds')
  BY DEF IInv, GroupOK
<1> QED
  BY <1>2, <1>4, <1>5

LEMMA EndTaskOK ==
  ASSUME IInv, NEW t \in Calls, Busy(t), EndTask(t), faults' \in Nat,
         UNCHANGED <<nextNonce, mempool, mined, onChain, lastId, stopping>>
  PROVE  /\ EthereumInv'
         /\ PermitsCounted'
         /\ BundlesUnconfirmed'
         /\ SubmittedOnce'
         /\ ReceiptsOnChain'
         /\ permits' \in 0..maxUnconfirmedAggregations
         /\ unconfirmedRowIds' \subseteq unconfirmedRowIds
         /\ \A u \in Calls :
                call'[u].bundle = IF u = t THEN {} ELSE call[u].bundle
<1>1. \A u \in Calls : call'[u] = IF u = t THEN Idle ELSE call[u]
  BY DEF EndTask, IInv, EthereumInv, EthereumTypeOK
<1>2. \A u \in Calls : call'[u].bundle = IF u = t THEN {} ELSE call[u].bundle
  <2>1. Idle.bundle = {}
    BY ServiceAssumption DEF Idle
  <2> QED
    BY <1>1, <2>1
<1>3. EthereumInv'
  BY EndedOK DEF EndTask, IInv
<1>4. /\ PermitsCounted'
      /\ permits' \in 0..maxUnconfirmedAggregations
  <2>1. BusyCalls' = BusyCalls \ {t} /\ t \in BusyCalls
    BY <1>1, IdleOK DEF BusyCalls, Busy, At
  <2>2. /\ Cardinality(BusyCalls') = Cardinality(BusyCalls) - 1
        /\ Cardinality(BusyCalls') \in Nat
    BY <2>1, BusyFinite, FS_RemoveElement, FS_CardinalityType
  <2>3. permits \in Nat /\ maxUnconfirmedAggregations \in Nat
    BY Types, ServiceAssumption
  <2> QED
    BY <2>2, <2>3, BusyFinite DEF IInv, PermitsCounted, EndTask
<1>5. unconfirmedRowIds' = unconfirmedRowIds \ call[t].bundle
  BY DEF EndTask
<1>6. BundlesUnconfirmed'
  BY <1>2, <1>5 DEF IInv, BundlesUnconfirmed, SubmittedOnce
<1>7. SubmittedOnce'
  BY <1>2 DEF IInv, SubmittedOnce
<1>8. ReceiptsOnChain'
  BY DEF IInv, ReceiptsOnChain
<1> QED
  BY <1>2, <1>3, <1>4, <1>5, <1>6, <1>7, <1>8

LEMMA TaskFailsOK ==
  ASSUME IInv, NEW t \in Calls, TaskFails(t)
  PROVE  IInv'
<1> USE DEF databaseVars, mutexVars, timerVars
<1>1. Busy(t) /\ faults' \in Nat
  BY Types DEF TaskFails, Busy, At
<1>2. /\ EthereumInv' /\ PermitsCounted' /\ BundlesUnconfirmed'
      /\ SubmittedOnce' /\ ReceiptsOnChain'
      /\ permits' \in 0..maxUnconfirmedAggregations
      /\ unconfirmedRowIds' \subseteq unconfirmedRowIds
      /\ \A u \in Calls : call'[u].bundle = IF u = t THEN {} ELSE call[u].bundle
  BY <1>1, EndTaskOK DEF TaskFails
<1>3. /\ TableOK(rows', lastId', onChain', call', cutShort')
      /\ TransactionOK'
      /\ GroupOK(group', rows', lastId', unconfirmedRowIds')
  BY <1>2, LaterOK DEF TaskFails
<1>4. ServiceTypeOK'
  BY <1>2, Types DEF TaskFails, ServiceTypeOK, EthereumInv, Tables, Backups
<1> QED
  BY <1>2, <1>3, <1>4 DEF IInv, TaskFails

LEMMA ConfirmedOK ==
  ASSUME rows \in Tables, NEW aggregate \in SUBSET Rows,
         NEW written \in SUBSET aggregate
  PROVE  LET changed == Confirmed(written, aggregate) IN
         /\ DOMAIN changed = written
         /\ \A r \in written : /\ changed[r] \in Row
                               /\ changed[r].status = "confirmed"
                               /\ changed[r].aggregate = aggregate
<1>1. ASSUME NEW row \in Row
      PROVE  LET c == [row EXCEPT !.status = "confirmed",
                                  !.aggregate = aggregate]
             IN  /\ c \in Row /\ c.status = "confirmed"
                 /\ c.aggregate = aggregate
  BY DEF Row, Statuses
<1>2. \A r \in written : rows[r] \in Row
  BY DEF Tables
<1> QED
  BY <1>1, <1>2 DEF Confirmed

\* A task writes all rows of its aggregate or the first of them.
Writes(t, written) ==
    /\ At(t, "complete")
    /\ written \subseteq call[t].bundle
    /\ rows' = Update(rows, Confirmed(written, call[t].bundle))
    /\ InOrder(written, call[t].bundle, cutShort')
    /\ cutShort \subseteq cutShort' /\ cutShort' \subseteq Bundles

LEMMA ConfirmWrites ==
  ASSUME IInv, NEW t \in Calls, Confirm(t)
  PROVE  Writes(t, call[t].bundle)
  BY Types DEF Confirm, Writes, InOrder

LEMMA ConfirmPartWrites ==
  ASSUME IInv, NEW t \in Calls, ConfirmPart(t)
  PROVE  \E written : Writes(t, written)
<1>1. PICK part \in FirstParts(call[t].bundle) :
          rows' = Update(rows, Confirmed(part, call[t].bundle))
  BY DEF ConfirmPart
<1>2. part \subseteq call[t].bundle
  BY DEF FirstParts
<1>3. call[t].bundle \in Bundles
  BY DEF ConfirmPart, IInv, EthereumInv, CallsOK, Busy, At
<1>4. Writes(t, part)
  BY <1>1, <1>2, <1>3, Types DEF ConfirmPart, Writes, InOrder
<1> QED
  BY <1>4

\* The rows of the task's aggregate were pending or deleted.
LEMMA WritesOK ==
  ASSUME IInv, NEW t \in Calls, NEW written, Writes(t, written),
         UNCHANGED <<lastId, onChain>>,
         \A u \in Calls :
             call'[u].bundle \subseteq IF u = t THEN {} ELSE call[u].bundle
  PROVE  /\ rows' \in Tables
         /\ TableOK(rows', lastId', onChain', call', cutShort')
         /\ \A old : Since(old, rows) => Since(old, rows')
         /\ \A r \in Rows :
                \/ rows'[r] = rows[r]
                \/ /\ r \in call[t].bundle
                   /\ rows[r].status = "pending"
                   /\ rows'[r].status = "confirmed"
<1> DEFINE aggregate == call[t].bundle
<1>1. /\ aggregate \subseteq Rows /\ \A r \in aggregate : r <= lastId
      /\ PendingOrGone(rows, aggregate) /\ written \subseteq aggregate
  BY BundlesAreRows DEF IInv, BundlesUnconfirmed, TableOK, Writes
<1>2. aggregate \subseteq onChain
  <2>1. /\ InBlock(t)
        /\ Receipt(t) = [bundle |-> aggregate, ok |-> TRUE]
    BY DEF Writes, IInv, EthereumInv, OwnReceipt
  <2>2. call[t].nonce \in Nat /\ mined \in Seq(Receipts) /\ Len(mined) \in Nat
    BY DEF IInv, EthereumInv, EthereumTypeOK
  <2>3. call[t].nonce + 1 \in DOMAIN mined
    BY <2>1, <2>2 DEF InBlock
  <2>4. Receipt(t).ok /\ Receipt(t).bundle = aggregate
    BY <2>1
  <2> QED
    BY <2>3, <2>4 DEF IInv, ReceiptsOnChain, Receipt
<1>3. /\ rows' \in Tables
      /\ \A r \in Rows :
             IF r \in written /\ Present(rows, r)
             THEN /\ rows'[r].status = "confirmed"
                  /\ rows'[r].aggregate = aggregate
             ELSE rows'[r] = rows[r]
  <2> DEFINE changed == Confirmed(written, aggregate)
  <2>1. /\ DOMAIN changed = written
        /\ \A r \in written : /\ changed[r] \in Row
                              /\ changed[r].status = "confirmed"
                              /\ changed[r].aggregate = aggregate
    BY <1>1, Types, ConfirmedOK
  <2>2. rows' = Update(rows, changed)
    BY DEF Writes
  <2> HIDE DEF changed, aggregate
  <2> QED
    BY <1>1, <2>1, <2>2, Types, UpdateOK
<1>4. \A u \in Calls : /\ call'[u].bundle \subseteq call[u].bundle
                       /\ call'[u].bundle \subseteq Rows
                       /\ call'[u].bundle \intersect aggregate = {}
  BY BundlesAreRows DEF IInv, SubmittedOnce
<1>5. InOrder(written, aggregate, cutShort') /\ cutShort \subseteq cutShort'
  BY DEF Writes
<1>6. TableOK(rows, lastId, onChain, call, cutShort) /\ rows \in Tables
  BY Types DEF IInv
<1>7. \A r \in Rows :
          \/ rows'[r] = rows[r]
          \/ /\ r \in aggregate
             /\ rows[r].status = "pending"
             /\ rows'[r].status = "confirmed"
  BY <1>1, <1>3 DEF PendingOrGone, Present
<1> HIDE DEF aggregate
<1>8. /\ TableOK(rows', lastId, onChain, call', cutShort')
      /\ \A old : Since(old, rows) => Since(old, rows')
  <2>1. /\ aggregate \in SUBSET Rows /\ written \in SUBSET aggregate
        /\ lastId \in Nat
    BY <1>1, Types
  <2> QED
    BY <1>1, <1>2, <1>3, <1>4, <1>5, <1>6, <2>1, ConfirmKeepsTable
<1> QED
  BY <1>3, <1>7, <1>8 DEF aggregate

\* The rows are confirmed in the current table only; a group that is open may
\* still be rolled back.
LEMMA WritesAndEndsOK ==
  ASSUME IInv, NEW t \in Calls, NEW written, Writes(t, written), EndTask(t),
         faults' \in Nat,
         UNCHANGED <<lastId, backup, mutexVars, timerVars, stopping, onChain,
                     restarts, nextNonce, mempool, mined>>
  PROVE  IInv'
<1> USE DEF mutexVars, timerVars
<1>1. Busy(t) /\ cutShort \subseteq cutShort' /\ cutShort' \subseteq Bundles
  BY DEF Writes, Busy, At
<1>2. /\ EthereumInv' /\ PermitsCounted' /\ BundlesUnconfirmed'
      /\ SubmittedOnce' /\ ReceiptsOnChain'
      /\ permits' \in 0..maxUnconfirmedAggregations
      /\ unconfirmedRowIds' \subseteq unconfirmedRowIds
      /\ \A u \in Calls :
             call'[u].bundle = IF u = t THEN {} ELSE call[u].bundle
  BY <1>1, EndTaskOK
<1>3. /\ rows' \in Tables
      /\ TableOK(rows', lastId', onChain', call', cutShort')
      /\ \A old : Since(old, rows) => Since(old, rows')
      /\ \A r \in Rows : rows'[r] = rows[r] \/ r \in call[t].bundle
  BY <1>2, WritesOK
<1>4. TransactionOK'
  <2>1. /\ lastId \in Nat /\ lastId <= lastId /\ backup.rows \in Tables
        /\ \A u \in Calls : call'[u].bundle \subseteq call[u].bundle
    BY <1>2, Types DEF Backups
  <2>2. Open => TableOK(backup.rows, lastId, onChain, call', cutShort')
    BY <1>1, <2>1, TableLater DEF IInv, TransactionOK
  <2> QED
    BY <1>3, <2>2 DEF IInv, TransactionOK, Open
<1>5. GroupOK(group', rows', lastId', unconfirmedRowIds')
  <2>1. /\ Taken(group) \intersect call[t].bundle = {}
        /\ Taken(group) \subseteq Rows
    BY Types DEF IInv, GroupOK, BundlesUnconfirmed, Taken, Groups
  <2>2. PendingOrGone(rows', Taken(group))
    BY <1>3, <2>1 DEF IInv, GroupOK, PendingOrGone
  <2> QED
    BY <1>2, <2>2 DEF IInv, GroupOK
<1>6. ServiceTypeOK'
  BY <1>1, <1>2, <1>3, Types DEF ServiceTypeOK, EthereumInv, Tables, Backups
<1> QED
  BY <1>2, <1>3, <1>4, <1>5, <1>6 DEF IInv

LEMMA ConfirmOK ==
  ASSUME IInv, NEW t \in Calls, Confirm(t) \/ ConfirmFails(t)
  PROVE  IInv'
<1>1. CASE Confirm(t)
  BY <1>1, ConfirmWrites, WritesAndEndsOK, Types DEF Confirm
<1>2. CASE ConfirmFails(t)
  BY <1>2, ConfirmPartWrites, WritesAndEndsOK, Types DEF ConfirmFails
<1> QED
  BY <1>1, <1>2

LEMMA SubmitBundleStepOK ==
  ASSUME IInv, NEW t \in Calls, SubmitBundleStep(t)
  PROVE  IInv'
<1> USE DEF databaseVars, mutexVars, timerVars, submissionVars
<1>1. EthereumInv' /\ Keeps(t)
  BY CallStepOK DEF SubmitBundleStep, IInv
<1>2. /\ TableOK(rows', lastId', onChain', call', cutShort')
      /\ TransactionOK'
      /\ GroupOK(group', rows', lastId', unconfirmedRowIds')
  BY <1>1, LaterOK DEF SubmitBundleStep, Keeps
<1>3. PermitsCounted'
  <2>1. BusyCalls' = BusyCalls
    BY <1>1 DEF Keeps, BusyCalls, Busy, At
  <2> QED
    BY <2>1 DEF IInv, PermitsCounted, SubmitBundleStep
<1>4. BundlesUnconfirmed' /\ SubmittedOnce' /\ ReceiptsOnChain'
  BY <1>1 DEF Keeps, SubmitBundleStep, IInv, BundlesUnconfirmed, SubmittedOnce,
              ReceiptsOnChain
<1>5. ServiceTypeOK'
  BY <1>1, <1>3, Types
     DEF SubmitBundleStep, ServiceTypeOK, EthereumInv, Tables, Backups
<1> QED
  BY <1>1, <1>2, <1>3, <1>4, <1>5 DEF IInv, SubmitBundleStep

LEMMA BlockOK == IInv /\ Block => IInv'
<1> SUFFICES ASSUME IInv, Block PROVE IInv'
  OBVIOUS
<1> USE DEF databaseVars, mutexVars, timerVars, submissionVars
<1>1. PICK receipt \in Receipts : mined' = Append(mined, receipt)
  BY MineOK DEF Block, IInv
<1>2. EthereumInv' /\ call' = call
  BY MineOK DEF Block, IInv
<1>3. /\ mined \in Seq(Receipts) /\ Len(mined) \in Nat
      /\ DOMAIN mined = 1..Len(mined) /\ DOMAIN mined' = 1..(Len(mined) + 1)
      /\ Len(mined') = Len(mined) + 1
      /\ mined'[Len(mined) + 1] = receipt
      /\ \A n \in DOMAIN mined : mined'[n] = mined[n]
      /\ receipt.bundle \subseteq Rows
  BY <1>1, ServiceAssumption DEF IInv, EthereumInv, EthereumTypeOK, Receipts
<1>4. onChain' = IF receipt.ok THEN onChain \union receipt.bundle ELSE onChain
  BY <1>3 DEF Block
<1>5. onChain \subseteq onChain' /\ onChain' \subseteq Rows
  BY <1>3, <1>4, Types
<1>6. ReceiptsOnChain'
  BY <1>3, <1>4, <1>5 DEF IInv, ReceiptsOnChain
<1>7. /\ TableOK(rows', lastId', onChain', call', cutShort')
      /\ TransactionOK'
      /\ GroupOK(group', rows', lastId', unconfirmedRowIds')
  BY <1>2, <1>5, LaterOK DEF Block
<1>8. PermitsCounted' /\ BundlesUnconfirmed' /\ SubmittedOnce'
  BY <1>2 DEF Block, IInv, PermitsCounted, BusyCalls, Busy, At,
              BundlesUnconfirmed, SubmittedOnce
<1>9. ServiceTypeOK'
  BY <1>2, <1>5, <1>8, Types DEF Block, ServiceTypeOK, EthereumInv, Tables, Backups
<1> QED
  BY <1>2, <1>6, <1>7, <1>8, <1>9 DEF IInv, Block

-----------------------------------------------------------------------------
(* The process                                                              *)

LEMMA ClearOK ==
    /\ Clear \in Tables
    /\ \A r \in Rows : Clear[r].status = "none" /\ ~Present(Clear, r)
    /\ \A id, chain, calls, cut :
           (\A t \in Calls : calls[t].bundle \subseteq Rows)
               => TableOK(Clear, id, chain, calls, cut)
<1>1. /\ Clear \in Tables
      /\ \A r \in Rows : Clear[r].status = "none" /\ ~Present(Clear, r)
  BY DEF Clear, NoRow, Tables, Row, Statuses, Present
<1> QED
  BY <1>1 DEF TableOK, PendingOrGone

LEMMA ResetBundlesOK == IInv /\ ResetBundles => IInv'
<1> SUFFICES ASSUME IInv, ResetBundles PROVE IInv'
  OBVIOUS
<1> USE DEF mutexVars, timerVars, submissionVars, ethereumVars
<1>1. rows' = Clear /\ rows' \in Tables
  BY ClearOK DEF ResetBundles
<1>2. TableOK(rows', lastId', onChain', call', cutShort')
  BY <1>1, ClearOK, BundlesAreRows DEF ResetBundles
<1>3. GroupOK(group', rows', lastId', unconfirmedRowIds')
  <2>1. Taken(group) \subseteq Rows
    BY Types DEF Taken, Groups
  <2> QED
    BY <1>1, <2>1, ClearOK DEF IInv, GroupOK, PendingOrGone, ResetBundles
<1>4. TransactionOK'
  BY <1>1, ClearOK DEF IInv, TransactionOK, Open, Since, ResetBundles
<1>5. /\ EthereumInv' /\ PermitsCounted' /\ BundlesUnconfirmed'
      /\ SubmittedOnce' /\ ReceiptsOnChain'
  BY Types, CallsKept DEF ResetBundles, IInv, BundlesUnconfirmed
<1>6. ServiceTypeOK'
  BY <1>1, <1>5, Types
     DEF ResetBundles, ServiceTypeOK, EthereumInv, Tables, Backups
<1> QED
  BY <1>2, <1>3, <1>4, <1>5, <1>6 DEF IInv, ResetBundles

\* A process that starts: no group, no calls, all permits.
NewProcess ==
    /\ call = [t \in Calls |-> Idle]
    /\ group = NoGroup /\ queue = <<>>
    /\ permits = maxUnconfirmedAggregations /\ stopping = FALSE

NothingRuns ==
    /\ \A table, id, unconfirmed : GroupOK(group, table, id, unconfirmed)
    /\ group \in Groups /\ queue \in Seq(GroupKinds)
    /\ SubmissionsIn(queue, group) = 0
    /\ PermitsCounted
    /\ permits \in 0..maxUnconfirmedAggregations
    /\ SubmittedOnce /\ BundlesUnconfirmed /\ TransactionOK
    /\ \A t \in Calls : call[t].bundle = {}

LEMMA NewProcessOK == NewProcess => NothingRuns
<1> SUFFICES ASSUME NewProcess PROVE NothingRuns
  OBVIOUS
<1> USE DEF NewProcess
<1>1. \A t \in Calls : call[t].bundle = {} /\ call[t].step = "idle"
  BY IdleOK, ServiceAssumption DEF Idle
<1>2. /\ \A table, id, unconfirmed : GroupOK(group, table, id, unconfirmed)
      /\ group \in Groups /\ group.kind = "none"
  BY GroupType DEF NoGroup
<1>3. queue \in Seq(GroupKinds) /\ SubmissionsIn(queue, group) = 0
  <2>1. Waiting(queue) = {}
    BY DEF Waiting
  <2> QED
    BY <1>2, <2>1, FS_EmptySet DEF SubmissionsIn
<1>4. PermitsCounted /\ permits \in 0..maxUnconfirmedAggregations
  <2>1. BusyCalls = {}
    BY <1>1 DEF BusyCalls, Busy, At
  <2> QED
    BY <2>1, FS_EmptySet, ServiceAssumption DEF PermitsCounted
<1>5. SubmittedOnce /\ BundlesUnconfirmed /\ TransactionOK
  BY <1>1 DEF SubmittedOnce, BundlesUnconfirmed, TransactionOK, Open
<1> QED
  BY <1>1, <1>2, <1>3, <1>4, <1>5 DEF NothingRuns

\* A new process that finds a good table.
LEMMA ProcessStartsOK ==
  ASSUME IInv, ProcessStarts, rows' \in Tables, lastId' \in Nat,
         TableOK(rows', lastId', onChain', call', cutShort'),
         cutShort' \subseteq Bundles
  PROVE  IInv'
<1>1. /\ call' = [t \in Calls |-> Idle] /\ group' = NoGroup /\ queue' = <<>>
      /\ permits' = maxUnconfirmedAggregations /\ stopping' = FALSE
      /\ unconfirmedRowIds' = {} /\ submissionsInProgress' = 0
      /\ onChain' = onChain /\ mined' = mined
  BY DEF ProcessStarts
<1>2. NothingRuns'
  <2>1. NewProcess'
    BY <1>1 DEF NewProcess
  <2>2. NewProcess' => NothingRuns'
    BY NewProcessOK, PTL
  <2> QED
    BY <2>1, <2>2
<1>3. EthereumInv' /\ ReceiptsOnChain'
  BY AllEndedOK DEF ProcessStarts, IInv, ReceiptsOnChain
<1>4. backup' \in Backups
  BY DEF ProcessStarts, Backups
<1>5. ServiceTypeOK'
  <2>1. EthereumTypeOK'
    BY <1>3 DEF EthereumInv
  <2>2. checks' \in Nat /\ restarts' \in Nat
    BY Types DEF ProcessStarts
  <2>3. timer' \in BOOLEAN
    BY DEF ProcessStarts
  <2> QED
    BY <1>1, <1>2, <1>4, <2>1, <2>2, <2>3, Types
       DEF NothingRuns, ServiceTypeOK, Tables, Backups
<1> QED
  BY <1>1, <1>2, <1>3, <1>5 DEF IInv, NothingRuns

\* No call has a bundle after a crash.
LEMMA StartsIdle ==
  ASSUME ProcessStarts, NEW t \in Calls
  PROVE  call'[t].bundle = {}
  BY ServiceAssumption DEF ProcessStarts, Idle

LEMMA RestartOK == IInv /\ Restart => IInv'
<1> SUFFICES ASSUME IInv, Restart PROVE IInv'
  OBVIOUS
<1>1. /\ rows' \in Tables /\ lastId' \in Nat /\ lastId' <= lastId'
      /\ TableOK(rows', lastId', onChain, call, cutShort)
      /\ cutShort' = cutShort /\ onChain' = onChain
  BY Types DEF Restart, ProcessStarts, IInv, TransactionOK, Open, Backups
<1>2. TableOK(rows', lastId', onChain', call', cutShort')
  BY <1>1, StartsIdle, TableLater DEF Restart
<1> QED
  BY <1>1, <1>2, Types, ProcessStartsOK DEF Restart

LEMMA RestartWhileConfirmingOK ==
  ASSUME IInv, NEW t \in Calls, RestartWhileConfirming(t)
  PROVE  IInv'
<1>1. PICK written : Writes(t, written)
  BY ConfirmPartWrites DEF RestartWhileConfirming
<1>2. UNCHANGED <<lastId, onChain>> /\ ProcessStarts
  BY DEF RestartWhileConfirming, ProcessStarts
<1>3. /\ rows' \in Tables
      /\ TableOK(rows', lastId', onChain', call', cutShort')
  BY <1>1, <1>2, StartsIdle, WritesOK
<1> QED
  BY <1>1, <1>2, <1>3, Types, ProcessStartsOK DEF Writes

LEMMA InitOK == Init => IInv
<1> SUFFICES ASSUME Init PROVE IInv
  OBVIOUS
<1>1. NothingRuns
  BY NewProcessOK DEF NewProcess, Init, ProcessInit, EthereumInit
<1>2. EthereumInv /\ ReceiptsOnChain
  BY EthereumInitOK DEF Init, EthereumInit, ReceiptsOnChain
<1>3. /\ rows \in Tables /\ backup \in Backups
      /\ TableOK(rows, lastId, onChain, call, cutShort)
  BY <1>1, ClearOK DEF NothingRuns, Init, Backups
<1>4. ServiceTypeOK
  BY <1>1, <1>2, <1>3
     DEF NothingRuns, Init, ProcessInit, ServiceTypeOK, EthereumInv, Tables,
         Backups
<1> QED
  BY <1>1, <1>2, <1>3, <1>4 DEF NothingRuns, IInv, Init, ProcessInit

LEMMA NextOK == IInv /\ [Next]_vars => IInv'
<1> SUFFICES ASSUME IInv, [Next]_vars PROVE IInv'
  OBVIOUS
<1>1. CASE TryAggregating \/ CheckFails \/ TimerFires \/ HandleBlock
  BY <1>1, TryAggregatingOK, CheckFailsOK, TimerFiresOK, HandleBlockOK
<1>2. CASE AddBundle \/ AddRow \/ AddFails
  BY <1>2, AddBundleOK, AddRowOK, AddFailsOK
<1>3. CASE Submission
  BY <1>3, FindEligibleRowsOK, RunStrategyOK, SubmitAggregateBundleOK
     DEF Submission
<1>4. CASE \E t \in Calls : Task(t)
  BY <1>4, SubmitBundleStepOK, ConfirmOK, TaskFailsOK DEF Task
<1>5. CASE Block
  BY <1>5, BlockOK
<1>6. CASE Stop \/ ResetBundles \/ Restart
  BY <1>6, StopOK, ResetBundlesOK, RestartOK
<1>8. CASE \E t \in Calls : RestartWhileConfirming(t)
  BY <1>8, RestartWhileConfirmingOK
<1>7. CASE UNCHANGED vars
  BY <1>7, Types, FrameOK DEF vars, timerVars, ethereumVars
<1> QED
  BY <1>1, <1>2, <1>3, <1>4, <1>5, <1>6, <1>7, <1>8 DEF Next

\* Whatever the checks, timers, query groups, tasks and crashes overlap in
\* (BundleService.ts, SubmissionTimer.ts, runQueryGroup.ts,
\* EthereumService.ts).
THEOREM ServiceInvariance == Spec => []IInv
  BY InitOK, NextOK, PTL DEF Spec

\* The types of the service; of its counters, that while the service is not
\* stopping every permit is there or is held by one task, and that no
\* submission ends that was not counted as in progress (runSubmission).
THEOREM ServiceTypeCorrect == Spec => []ServiceTypeOK
<1>1. IInv => ServiceTypeOK
  BY DEF IInv
<1> QED
  BY <1>1, ServiceInvariance, PTL

\* No operation is in two running aggregates (unconfirmedRowIds).
THEOREM NeverSubmittedTwice == Spec => []SubmittedOnce
<1>1. IInv => SubmittedOnce
  BY DEF IInv
<1> QED
  BY <1>1, ServiceInvariance, PTL

\* A call that answers "complete" has the receipt of its own transaction,
\* through retries, lost answers, and nonces that were given out twice
\* (EthereumService.submitBundle).
THEOREM ReceiptsAreOwn == Spec => []OwnReceipt
<1>1. IInv => OwnReceipt
  BY DEF IInv, EthereumInv
<1> QED
  BY <1>1, ServiceInvariance, PTL

\* Confirmed rows are on chain (submitAggregateBundle).
THEOREM ConfirmedRowsAreOnChain == Spec => []ConfirmedIsOnChain
<1>1. IInv => ConfirmedIsOnChain
  BY DEF IInv, TableOK, Whole, ConfirmedIsOnChain
<1> QED
  BY <1>1, ServiceInvariance, PTL

\* From one row of an aggregate all of its rows are found, or its first rows
\* where a failed write or a crash cut its confirmation short
\* (submitAggregateBundle, lookupAggregateBundle).
THEOREM AggregatesAreWhole == Spec => []AggregateIsWhole
<1>1. IInv => AggregateIsWhole
  <2> SUFFICES ASSUME IInv, NEW r \in Rows, rows[r].status = "confirmed"
               PROVE  LET aggregate == rows[r].aggregate
                          found == FindAggregateBundle(rows, aggregate)
                      IN  /\ found \subseteq aggregate
                          /\ \A q \in aggregate :
                                 \/ q \in found
                                 \/ ~Present(rows, q)
                                 \/ aggregate \in cutShort /\ r < q
    BY DEF AggregateIsWhole
  <2>1. \A q \in Rows : rows[q].status = "confirmed" =>
                            Whole(rows, lastId, onChain, cutShort, q)
    BY DEF IInv, TableOK
  <2>2. rows[r].aggregate \subseteq Rows
    BY Types DEF Tables, Row
  <2>3. FindAggregateBundle(rows, rows[r].aggregate) \subseteq rows[r].aggregate
    BY <2>1 DEF Whole, FindAggregateBundle
  <2>4. \A q \in rows[r].aggregate :
            \/ q \in FindAggregateBundle(rows, rows[r].aggregate)
            \/ ~Present(rows, q)
            \/ rows[r].aggregate \in cutShort /\ r < q
    BY <2>1, <2>2 DEF Whole, FindAggregateBundle
  <2> QED
    BY <2>3, <2>4
<1> QED
  BY <1>1, ServiceInvariance, PTL

-----------------------------------------------------------------------------
(* The life cycle of bundles                                                *)

\* A step that leaves what survives a crash alone.
LEMMA StutterOK ==
  ASSUME \A r \in Rows : Durable'[r].status = Durable[r].status,
         onChain' = onChain
  PROVE  UNCHANGED LifeCycle!vars
  BY DEF LifeCycle!vars

Added(r) == Durable[r].status = "none" /\ Durable'[r].status = "pending"

LEMMA CommitOK ==
  ASSUME \A r \in Rows :
             Advanced(Durable[r].status, Durable'[r].status) \/ Added(r),
         \A r \in Rows : Durable'[r].status = "confirmed" => r \in onChain,
         onChain' = onChain
  PROVE  LifeCycle!Next
<1>1. LifeCycle!Commit
  <2> SUFFICES ASSUME NEW r \in Rows
               PROVE  LifeCycle!MayBecome(r, Durable'[r].status)
    BY DEF LifeCycle!Commit
  <2> QED
    BY DEF LifeCycle!MayBecome, Advanced, Added
<1> QED
  BY <1>1 DEF LifeCycle!Next

LEMMA DeletedOK ==
  ASSUME \A r \in Rows : Durable'[r].status = "none" \/ Added(r),
         onChain' = onChain
  PROVE  LifeCycle!Next
<1>1. LifeCycle!Reset
  BY DEF LifeCycle!Reset, Added
<1> QED
  BY <1>1 DEF LifeCycle!Next

\* What a step does to the abstract state.
Refines == LifeCycle!Next \/ UNCHANGED LifeCycle!vars

LEMMA LockRefines ==
  ASSUME NEW kind \in GroupKinds, Lock(kind),
         UNCHANGED <<rows, lastId, onChain>>
  PROVE  Refines
<1>1. Durable' = Durable
  <2>1. CASE group = NoGroup
    BY <2>1, OpenIfHeld DEF Lock, Begin, Durable
  <2>2. CASE group # NoGroup
    BY <2>2 DEF Lock, Durable
  <2> QED
    BY <2>1, <2>2
<1> QED
  BY <1>1, StutterOK DEF Refines

LEMMA ReleaseCommits ==
  ASSUME IInv, Open, Release
  PROVE  Durable = backup.rows /\ Durable' = rows'
<1>1. CASE queue = <<>>
  BY <1>1 DEF Release, Durable, Open
<1>2. CASE queue # <<>>
  <2>1. Head(queue) \in GroupKinds
    BY <1>2, Types
  <2> QED
    BY <1>2, <2>1, OpenIfHeld DEF Release, Begin, Durable, Open
<1> QED
  BY <1>1, <1>2

\* COMMIT of a submission, which changed rows but added none.
LEMMA SubmissionCommits ==
  ASSUME IInv, IInv', Open, Release, onChain' = onChain,
         Since(backup.rows, rows')
  PROVE  Refines
<1>1. Durable = backup.rows /\ Durable' = rows'
  BY ReleaseCommits
<1>2. \A r \in Rows : rows'[r].status = "confirmed" => r \in onChain
  BY DEF IInv, TableOK, Whole
<1>3. CASE \A r \in Rows : ~Present(rows', r)
  BY <1>1, <1>3, DeletedOK DEF Refines, Present
<1>4. CASE \A r \in Rows : Advanced(backup.rows[r].status, rows'[r].status)
  BY <1>1, <1>2, <1>4, CommitOK DEF Refines
<1> QED
  BY <1>3, <1>4 DEF Since

LEMMA AddRowRefines ==
  ASSUME IInv, IInv', AddRow
  PROVE  Refines
<1>1. /\ Open /\ Durable = backup.rows /\ Durable' = rows'
      /\ onChain' = onChain
  BY ReleaseCommits, OpenIfHeld DEF AddRow, GroupKinds
<1>2. /\ TableOK(backup.rows, lastId, onChain, call, cutShort)
      /\ Since(backup.rows, rows)
      /\ lastId \in Nat /\ rows \in Tables /\ Rows \subseteq Nat
  BY <1>1, Types, RowsAssumption DEF IInv, TransactionOK
<1>3. \A r \in Rows : rows'[r] = IF r = lastId + 1 THEN NewRow ELSE rows[r]
  BY <1>2 DEF AddRow, Add, Tables
<1>4. \A r \in Rows : r = lastId + 1 => Added(r)
  BY <1>1, <1>2, <1>3 DEF TableOK, Present, Added, NewRow
<1>5. \A r \in Rows : rows'[r].status = "confirmed" => r \in onChain
  BY <1>1 DEF IInv, TableOK, Whole
<1>6. CASE \A r \in Rows : ~Present(rows, r)
  BY <1>1, <1>3, <1>4, <1>6, DeletedOK DEF Refines, Present
<1>7. CASE \A r \in Rows : Advanced(backup.rows[r].status, rows[r].status)
  BY <1>1, <1>3, <1>4, <1>5, <1>7, CommitOK DEF Refines
<1> QED
  BY <1>2, <1>6, <1>7 DEF Since

LEMMA RunStrategyRefines ==
  ASSUME IInv, IInv', NEW included, NEW failed, RunStrategy(included, failed)
  PROVE  Refines
<1>1. /\ Open /\ group.kind = "submission" /\ onChain' = onChain
      /\ included \subseteq group.eligible /\ failed \subseteq group.eligible
      /\ group.eligible \subseteq Rows /\ Taken(group) = group.eligible
  BY Types, OpenIfHeld
     DEF RunStrategy, Holds, StrategyResult, IsResult, Groups, GroupKinds, Taken,
         ethereumVars
<1>2. CASE included # {}
  <2>1. group'.kind = "submission" /\ backup' = backup
    BY <1>1, <1>2, Types DEF RunStrategy, Groups
  <2>2. group' # NoGroup
    BY <2>1, GroupType DEF NoGroup
  <2> QED
    BY <1>1, <2>1, <2>2, StutterOK DEF Refines, Durable, Open
<1>3. CASE included = {}
  <2>1. \A r \in Rows : \/ rows'[r] = rows[r]
                        \/ /\ rows[r].status = "pending"
                           /\ rows'[r].status \in {"pending", "failed"}
    <3> DEFINE changed == [r \in failed |-> HandleFailedRow(rows[r])]
    <3>1. \A r \in Rows : rows'[r] = IF r \in failed /\ Present(rows, r)
                                     THEN HandleFailedRow(rows[r]) ELSE rows[r]
      BY <1>1 DEF RunStrategy, Update
    <3>2. \A r \in failed : /\ rows[r] \in Row
                            /\ rows[r].status \in {"pending", "none"}
      BY <1>1, Types DEF IInv, GroupOK, PendingOrGone, Tables
    <3> QED
      BY <3>1, <3>2, Types, HandleFailedRowOK DEF Present
  <2>2. Since(backup.rows, rows)
    BY <1>1 DEF IInv, TransactionOK
  <2>3. Since(backup.rows, rows')
    BY <2>1, <2>2 DEF Since, Advanced, Present
  <2> QED
    BY <1>1, <1>3, <2>3, SubmissionCommits DEF RunStrategy
<1> QED
  BY <1>2, <1>3

LEMMA SubmitAggregateBundleRefines ==
  ASSUME IInv, IInv', NEW t \in Calls, SubmitAggregateBundle(t)
  PROVE  Refines
<1>1. Open /\ Release /\ onChain' = onChain /\ rows' = rows
  BY OpenIfHeld DEF SubmitAggregateBundle, Holds, GroupKinds
<1>2. Since(backup.rows, rows')
  BY <1>1 DEF IInv, TransactionOK
<1> QED
  BY <1>1, <1>2, SubmissionCommits

\* Rows are confirmed outside a query group, by a task or before a crash.
LEMMA WritesRefine ==
  ASSUME IInv, IInv', NEW t \in Calls, NEW written, Writes(t, written),
         UNCHANGED <<lastId, onChain>>, Durable = rows, Durable' = rows',
         \A u \in Calls :
             call'[u].bundle \subseteq IF u = t THEN {} ELSE call[u].bundle
  PROVE  Refines
<1>1. \A r \in Rows : \/ rows'[r] = rows[r]
                      \/ /\ rows[r].status = "pending"
                         /\ rows'[r].status = "confirmed"
  BY WritesOK
<1>2. \A r \in Rows : rows'[r].status = "confirmed" => r \in onChain
  BY DEF IInv, TableOK, Whole
<1> QED
  BY <1>1, <1>2, CommitOK DEF Refines, Advanced

LEMMA ConfirmRefines ==
  ASSUME IInv, IInv', NEW t \in Calls, Confirm(t) \/ ConfirmFails(t)
  PROVE  Refines
<1>1. /\ backup' = backup /\ group' = group /\ EndTask(t)
      /\ UNCHANGED <<lastId, onChain>>
  BY DEF Confirm, ConfirmFails, mutexVars
<1>2. CASE Open
  BY <1>1, <1>2, StutterOK DEF Refines, Durable, Open
<1>3. CASE ~Open
  <2>1. Durable = rows /\ Durable' = rows'
    BY <1>1, <1>3 DEF Durable, Open
  <2>2. PICK written : Writes(t, written)
    BY ConfirmWrites, ConfirmPartWrites DEF ConfirmFails
  <2>3. \A u \in Calls :
            call'[u].bundle \subseteq IF u = t THEN {} ELSE call[u].bundle
    BY <1>1, ServiceAssumption
       DEF EndTask, Idle, IInv, EthereumInv, EthereumTypeOK
  <2> QED
    BY <1>1, <2>1, <2>2, <2>3, WritesRefine
<1> QED
  BY <1>2, <1>3

LEMMA RestartWhileConfirmingRefines ==
  ASSUME IInv, IInv', NEW t \in Calls, RestartWhileConfirming(t)
  PROVE  Refines
<1>1. Durable = rows /\ Durable' = rows' /\ UNCHANGED <<lastId, onChain>>
  BY DEF RestartWhileConfirming, ProcessStarts, Durable
<1>2. PICK written : Writes(t, written)
  BY ConfirmPartWrites DEF RestartWhileConfirming
<1>3. \A u \in Calls :
          call'[u].bundle \subseteq IF u = t THEN {} ELSE call[u].bundle
  BY StartsIdle DEF RestartWhileConfirming
<1> QED
  BY <1>1, <1>2, <1>3, WritesRefine

LEMMA NextRefines ==
  ASSUME IInv, IInv', [Next]_vars
  PROVE  Refines
<1> USE DEF databaseVars, mutexVars, timerVars, submissionVars, ethereumVars
<1>1. CASE TryAggregating \/ TimerFires
  <2>1. CASE Trigger
    <3>1. "submission" \in GroupKinds /\ onChain' = onChain
      BY <1>1 DEF GroupKinds, TryAggregating, TimerFires
    <3> QED
      BY <2>1, <3>1, LockRefines DEF Trigger
  <2>2. CASE UNCHANGED <<databaseVars, mutexVars>>
    BY <1>1, <2>2, StutterOK DEF TryAggregating, TimerFires, Durable, Refines
  <2> QED
    BY <1>1, <2>1, <2>2 DEF TryAggregating, TimerFires
<1>2. CASE CheckFails \/ Stop \/ UNCHANGED vars
  BY <1>2, StutterOK DEF CheckFails, Stop, vars, Durable, Refines
<1>3. CASE HandleBlock
  <2>1. (group' = NoGroup) <=> (group = NoGroup)
    BY <1>3, Types, GroupType DEF HandleBlock, Holds, Groups, NoGroup
  <2>2. \A r \in Rows : Durable'[r].status = Durable[r].status
    BY <1>3, <2>1, Types, NextBlockOK DEF HandleBlock, Durable, Backups
  <2> QED
    BY <1>3, <2>2, StutterOK DEF HandleBlock, Refines
<1>4. CASE AddBundle
  <2>1. "add" \in GroupKinds
    BY DEF GroupKinds
  <2> QED
    BY <1>4, <2>1, LockRefines DEF AddBundle
<1>5. CASE AddRow
  BY <1>5, AddRowRefines
<1>6. CASE AddFails
  <2>1. Durable' = Durable /\ onChain' = onChain
    BY <1>6, OpenIfHeld, ReleaseCommits DEF AddFails, GroupKinds
  <2> QED
    BY <2>1, StutterOK DEF Refines
<1>7. CASE FindEligibleRows
  <2>1. /\ group.kind = "submission" /\ group'.kind = "submission"
        /\ backup' = backup /\ onChain' = onChain
    BY <1>7, Types DEF FindEligibleRows, Holds, Groups
  <2>2. group # NoGroup /\ group' # NoGroup
    BY <2>1, GroupType DEF NoGroup
  <2> QED
    BY <2>1, <2>2, StutterOK DEF Durable, Refines
<1>8. CASE Submission
  BY <1>7, <1>8, RunStrategyRefines, SubmitAggregateBundleRefines DEF Submission
<1>9. CASE \E t \in Calls : Task(t)
  <2> PICK t \in Calls : Task(t)
    BY <1>9
  <2>1. CASE SubmitBundleStep(t) \/ TaskFails(t)
    BY <2>1, StutterOK DEF SubmitBundleStep, TaskFails, Durable, Refines
  <2> QED
    BY <2>1, ConfirmRefines DEF Task
<1>10. CASE Block
  <2>1. onChain \subseteq onChain' /\ Durable' = Durable
    BY <1>10 DEF Block, Durable
  <2>2. LifeCycle!Execute
    BY <2>1 DEF LifeCycle!Execute
  <2> QED
    BY <2>1, <2>2 DEF LifeCycle!Next, Refines
<1>11. CASE ResetBundles
  <2>1. CASE Open
    BY <1>11, <2>1, StutterOK DEF ResetBundles, Durable, Open, Refines
  <2>2. CASE ~Open
    BY <1>11, <2>2, ClearOK, DeletedOK DEF ResetBundles, Durable, Open, Refines
  <2> QED
    BY <2>1, <2>2
<1>12. CASE Restart
  <2>1. Durable' = Durable /\ onChain' = onChain
    BY <1>12 DEF Restart, ProcessStarts, Durable
  <2> QED
    BY <2>1, StutterOK DEF Refines
<1>13. CASE \E t \in Calls : RestartWhileConfirming(t)
  BY <1>13, RestartWhileConfirmingRefines
<1> QED
  BY <1>1, <1>2, <1>3, <1>4, <1>5, <1>6, <1>8, <1>9, <1>10, <1>11, <1>12, <1>13
     DEF Next

LEMMA InitRefines == Init => LifeCycle!Init
<1> SUFFICES ASSUME Init PROVE LifeCycle!Init
  OBVIOUS
<1>1. Durable = Clear /\ onChain = {}
  BY DEF Init, ProcessInit, Durable
<1> QED
  BY <1>1, ClearOK DEF LifeCycle!Init

\* The service implements the life cycle of bundles (runSubmission,
\* runQueryGroup, submitAggregateBundle, AdminService.resetBundles).
THEOREM ImplementsLifeCycle == Spec => LifeCycleOfBundles
<1>1. IInv /\ IInv' /\ [Next]_vars => [LifeCycle!Next]_LifeCycle!vars
  BY NextRefines DEF Refines
<1> QED
  BY <1>1, InitRefines, ServiceInvariance, PTL
     DEF Spec, LifeCycleOfBundles, LifeCycle!Spec
=============================================================================
