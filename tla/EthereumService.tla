--------------------------- MODULE EthereumService ---------------------------
(****************************************************************************)
(* The aggregator's access to the chain: the asynchronous calls of          *)
(* submitBundle (aggregator/src/app/EthereumService.ts), the nonces they    *)
(* take, and the transaction pool and blocks they see.                      *)
(*                                                                          *)
(* Every await of submitBundle is a step of its own, at which the node may  *)
(* fail to answer.  The node behaves as the code expects of it: it refuses  *)
(* a nonce that is used and a nonce whose predecessors it has not seen.     *)
(* The faults, the database's included, are counted, and which kinds occur  *)
(* is a constant.                                                           *)
(****************************************************************************)
EXTENDS Naturals, Sequences, FiniteSets

CONSTANTS
    Calls,      \* places for calls of submitBundle, used one after another
    Bundles,    \* aggregate bundles
    NoBundle,   \* the bundle of a call that is not running
    Faults,     \* kinds of faults of node and database, among FaultKinds
    MaxFaults   \* bound on the faults

FaultKinds ==
    { "compress",   \* an answer is lost before the nonce is taken
      "gasConfig",  \* GasConfig fails, the nonce is taken
      "send",       \* sendTransaction fails, the transaction is not sent
      "sendLost",   \* sendTransaction fails, the transaction is sent
      "wait",       \* the receipt cannot be had
      "revert",     \* the transaction is in a block, but reverted
      "balance",    \* the aggregator's balance cannot be read
      "update",     \* a row of an aggregate cannot be written
      "blockNumber" (* the block number cannot be read *) }

ASSUME EthereumAssumption ==
    /\ NoBundle \notin Bundles
    /\ Faults \subseteq FaultKinds
    /\ MaxFaults \in Nat

VARIABLES
    nextNonce,  \* the nonce of the next submission
    call,       \* where each call of submitBundle is
    mempool,    \* transactions that wait for a block
    mined,      \* the aggregator's transactions in blocks, by nonce
    faults      \* the number of faults so far

ethereumVars == <<nextNonce, call, mempool, mined, faults>>

\* A call has no nonce before "gasConfig"; "complete" and "failed" are the
\* answers its caller has not taken yet.
Steps ==
    { "idle", "compress", "gasConfig", "send", "wait", "nonceError",
      "waitError", "complete", "failed" }

Transactions == [nonce: Nat, bundle: Bundles]
Receipts == [bundle: Bundles, ok: BOOLEAN]

Idle == [step |-> "idle", bundle |-> NoBundle, nonce |-> 0]

EthereumTypeOK ==
    /\ nextNonce \in Nat
    /\ call \in [Calls -> [step: Steps, bundle: Bundles \union {NoBundle},
                           nonce: Nat]]
    /\ mempool \subseteq Transactions
    /\ mined \in Seq(Receipts)
    /\ faults \in Nat

EthereumInit ==
    /\ nextNonce = 0
    /\ call = [t \in Calls |-> Idle]
    /\ mempool = {}
    /\ mined = <<>>
    /\ faults = 0

-----------------------------------------------------------------------------
(* The node (external)                                                      *)

Fault(kind) ==
    /\ kind \in Faults /\ faults < MaxFaults
    /\ faults' = faults + 1

Used(nonce) ==
    nonce < Len(mined) \/ \E tx \in mempool : tx.nonce = nonce

\* A transaction with this nonce would not have to wait for another.
Expected(nonce) ==
    ~Used(nonce) /\ \A n \in 0..nonce : n < nonce => Used(n)

\* Transactions enter blocks in the order of their nonces.
Mine ==
    \E tx \in mempool :
        /\ tx.nonce = Len(mined)
        /\ mempool' = mempool \ {tx}
        /\ \/ /\ mined' = Append(mined, [bundle |-> tx.bundle, ok |-> TRUE])
              /\ UNCHANGED faults
           \/ /\ mined' = Append(mined, [bundle |-> tx.bundle, ok |-> FALSE])
              /\ Fault("revert")
        /\ UNCHANGED <<nextNonce, call>>

-----------------------------------------------------------------------------
(* submitBundle                                                             *)

At(t, step) == call[t].step = step

Goto(t, step) == call' = [call EXCEPT ![t].step = step]

Submitted(t, bundle) ==
    [call EXCEPT ![t] = [step |-> "compress", bundle |-> bundle, nonce |-> 0]]

CompressFails(t) ==
    /\ At(t, "compress") /\ Fault("compress")
    /\ Goto(t, "failed")
    /\ UNCHANGED <<nextNonce, mempool, mined>>

\* The nonce is taken, then the gas configuration is awaited.
NextNonce(t) ==
    /\ At(t, "compress")
    /\ call' = [call EXCEPT ![t].step = "gasConfig", ![t].nonce = nextNonce]
    /\ nextNonce' = nextNonce + 1
    /\ UNCHANGED <<mempool, mined, faults>>

GasConfig(t) ==
    /\ At(t, "gasConfig")
    /\ Goto(t, "send")
    /\ UNCHANGED <<nextNonce, mempool, mined, faults>>

GasConfigFails(t) ==
    /\ At(t, "gasConfig") /\ Fault("gasConfig")
    /\ Goto(t, "failed")
    /\ UNCHANGED <<nextNonce, mempool, mined>>

Sent(t) == mempool \union {[nonce |-> call[t].nonce, bundle |-> call[t].bundle]}

SendTransaction(t) ==
    /\ At(t, "send") /\ Expected(call[t].nonce)
    /\ mempool' = Sent(t)
    /\ Goto(t, "wait")
    /\ UNCHANGED <<nextNonce, mined, faults>>

\* "invalid transaction nonce": an earlier nonce has not been seen yet.
NonceError(t) ==
    /\ At(t, "send") /\ ~Used(call[t].nonce) /\ ~Expected(call[t].nonce)
    /\ Goto(t, "nonceError")
    /\ UNCHANGED <<nextNonce, mempool, mined, faults>>

\* Any other error is not retried: the nonce is used, or the node failed.
ResponseError(t) ==
    /\ At(t, "send")
    /\ \/ Used(call[t].nonce) /\ UNCHANGED <<mempool, faults>>
       \/ Fault("send") /\ UNCHANGED mempool
       \/ Expected(call[t].nonce) /\ Fault("sendLost") /\ mempool' = Sent(t)
    /\ Goto(t, "failed")
    /\ UNCHANGED <<nextNonce, mined>>

InBlock(t) == call[t].nonce < Len(mined)
Receipt(t) == mined[call[t].nonce + 1]

\* Mutated: a receipt is taken for a success whatever its status.
TakeAnyReceipt(t) ==
    /\ At(t, "wait") /\ InBlock(t)
    /\ Goto(t, "complete")
    /\ UNCHANGED <<nextNonce, mempool, mined, faults>>

Complete(t) ==
    /\ At(t, "wait") /\ InBlock(t) /\ Receipt(t).ok
    /\ Goto(t, "complete")
    /\ UNCHANGED <<nextNonce, mempool, mined, faults>>

WaitError(t) ==
    /\ At(t, "wait")
    /\ \/ InBlock(t) /\ ~Receipt(t).ok /\ UNCHANGED faults
       \/ Fault("wait")
    /\ Goto(t, "waitError")
    /\ UNCHANGED <<nextNonce, mempool, mined>>

\* The number of attempts is not bounded.
Retry(t) ==
    /\ call[t].step \in {"nonceError", "waitError"}
    /\ Goto(t, "send")
    /\ UNCHANGED <<nextNonce, mempool, mined, faults>>

Answers(t) ==
    \/ NextNonce(t) \/ GasConfig(t) \/ SendTransaction(t) \/ NonceError(t)
    \/ ResponseError(t) \/ Complete(t) \/ WaitError(t) \/ Retry(t)

Fails(t) == CompressFails(t) \/ GasConfigFails(t)

(* Properties                                                               *)

\* A call that answers "complete" put its own bundle on chain, and the
\* transaction did not revert: no retry, lost answer or reused nonce makes
\* submitBundle return the receipt of another submission.
OwnReceipt ==
    \A t \in Calls :
        At(t, "complete") =>
            /\ InBlock(t)
            /\ Receipt(t) = [bundle |-> call[t].bundle, ok |-> TRUE]

\* Stated by EthereumService.ts:354-357: a nonce in the future "can
\* legitimately occur because the previous nonce is still being processed",
\* and is retried "because it can resolve on its own".
NonceErrorsResolve ==
    \A t \in Calls :
        At(t, "nonceError") ~> call[t].step \in {"wait", "complete", "failed"}
=============================================================================
