---------------------------- MODULE SendersStage ----------------------------
(***************************************************************************)
(* The Senders stage (crates/stages/src/stages/senders.rs) between the     *)
(* Bodies stage before it and the pipeline executor that runs and unwinds  *)
(* both.                                                                   *)
(*                                                                         *)
(* execute has no await point: one call reads, appends and returns, and    *)
(* the pipeline saves the returned progress in the same commit, so a call  *)
(* is one step.  Signer recovery runs in parallel per batch, but batches   *)
(* join before their append and every append is in the one transaction of *)
(* the call, so the batches leave the same committed tables as one walk;   *)
(* a recovery failure is Fatal, drops the transaction and stops the        *)
(* pipeline: a step that changes only its bounded count.  TxSenders is     *)
(* represented by its keys: the                                            *)
(* sender of transaction i is a function of the transaction.               *)
(*                                                                         *)
(* The BlockBodies and Transactions tables, the Bodies stage that fills    *)
(* them and the pipeline are not part of this repository's source: they    *)
(* are modelled from the design (BlockBodies holds first_tx_index and      *)
(* tx_count per block, transaction numbers are gap free across canonical   *)
(* blocks, the pipeline unwinds every stage in reverse order).             *)
(***************************************************************************)
EXTENDS Naturals, Sequences

CONSTANTS
    CommitThreshold,  \* SendersStage::commit_threshold (blocks per call)
    MaxBlock,         \* the highest block the Bodies stage reaches
    MaxTxs,           \* the largest tx_count of a block body
    GenesisTxs,       \* the tx_count values the genesis body may have
    MaxUnwinds,       \* bound on pipeline unwinds
    MaxFaults,        \* bound on SenderRecovery failures
    SkipLagging       \* the pipeline's unwind skips a stage already at or
                      \* below the unwind target

ASSUME SendersAssumption ==
    /\ CommitThreshold \in Nat \ {0}
    /\ MaxBlock \in Nat
    /\ MaxTxs \in Nat
    /\ GenesisTxs \subseteq 0..MaxTxs
    /\ GenesisTxs # {}
    /\ MaxUnwinds \in Nat
    /\ MaxFaults \in Nat
    /\ SkipLagging \in BOOLEAN

VARIABLES
    bodies,    \* bodies[n + 1]: tx_count of canonical block n in BlockBodies
    senders,   \* keys of TxSenders
    progress,  \* StageProgress("Senders")
    unwinds,   \* pipeline unwinds so far
    faults,    \* SenderRecovery failures so far
    rerun      \* the pipeline will run the Senders stage again: its last
               \* execute returned done = false, or a stage before it or an
               \* unwind ran since

vars == <<bodies, senders, progress, unwinds, faults, rerun>>

\* The Bodies stage's progress: the highest block with a body.
BodiesProgress == Len(bodies) - 1

\* Number of transactions in the blocks below n: the first_tx_index of
\* block n (first_tx_index + tx_count of one block is the next block's).
TxsBelow(n) ==
    LET below[k \in 0..n] == IF k = 0 THEN 0 ELSE below[k - 1] + bodies[k]
    IN  below[n]

\* StoredBlockBody::start_tx_id of block n.
StartTxId(n) == TxsBelow(n)

\* StoredBlockBody::last_tx_index of block n: first_tx_index + tx_count - 1
\* in u64 with saturating subtraction.
LastTxIndex(n) == IF TxsBelow(n + 1) = 0 THEN 0 ELSE TxsBelow(n + 1) - 1

\* Keys of the Transactions table.
TxNumbers == 0..(TxsBelow(Len(bodies)) - 1)

MinOf(a, b) == IF a <= b THEN a ELSE b

TypeOK ==
    /\ bodies \in Seq(0..MaxTxs)
    /\ Len(bodies) \in 1..(MaxBlock + 1)
    /\ senders \subseteq Nat
    /\ progress \in 0..MaxBlock
    /\ unwinds \in 0..MaxUnwinds
    /\ faults \in 0..MaxFaults
    /\ rerun \in BOOLEAN

-----------------------------------------------------------------------------
(* The Senders stage.                                                      *)

\* execute: the last block of this call, at most commit_threshold blocks
\* past the checkpoint and not past the Bodies stage.
MaxBlockNum == MinOf(BodiesProgress, progress + CommitThreshold)

\* Mutant: the returned progress ignores the previous stage's progress.
SendersExecuteIgnoringPrevious ==
    LET start == StartTxId(progress + 1)
        end   == LastTxIndex(MaxBlockNum)
    IN
    /\ MaxBlockNum > progress
    /\ \A i \in senders : i < start
    /\ senders' = senders \cup {i \in TxNumbers : start <= i /\ i <= end}
    /\ progress' = progress + CommitThreshold
    /\ rerun' = (MaxBlockNum < BodiesProgress)
    /\ UNCHANGED <<bodies, unwinds, faults>>

\* execute, then the pipeline's save of the returned progress and commit.
\* The range [start_tx_index, end_tx_index] is walked over the
\* Transactions table and every key is appended to TxSenders; append
\* fails unless the key is above the last key of TxSenders, so every
\* existing key must lie below start_tx_index.  An empty range
\* (start > end) only advances the progress and returns done = true; the
\* walk returns done = (max_block_num >= previous_stage_progress).  The
\* pipeline re-enters the stage when done = false.
SendersExecute ==
    LET start == StartTxId(progress + 1)
        end   == LastTxIndex(MaxBlockNum)
    IN
    /\ MaxBlockNum > progress
    /\ \/ /\ start > end
          /\ UNCHANGED senders
          /\ rerun' = FALSE
       \/ /\ start <= end
          /\ \A i \in senders : i < start
          /\ senders' = senders \cup {i \in TxNumbers : start <= i /\ i <= end}
          /\ rerun' = (MaxBlockNum < BodiesProgress)
    /\ progress' = MaxBlockNum
    /\ UNCHANGED <<bodies, unwinds, faults>>

\* execute when max_block_num <= stage_progress: done, with the progress
\* unchanged; the pipeline saves it and the tables stay as they are.
SendersNoWork ==
    /\ MaxBlockNum <= progress
    /\ rerun' = FALSE
    /\ UNCHANGED <<bodies, senders, progress, unwinds, faults>>

\* Mutant: the batches appended before the failing one are committed.
SendersRecoveryErrorCommitsPartial ==
    LET start == StartTxId(progress + 1)
        end   == LastTxIndex(MaxBlockNum)
    IN
    /\ MaxBlockNum > progress
    /\ start <= end
    /\ faults < MaxFaults
    /\ faults' = faults + 1
    /\ \E k \in (start + 1)..end : senders' = senders \cup start..(k - 1)
    /\ rerun' = TRUE
    /\ UNCHANGED <<bodies, progress, unwinds>>

\* execute, a transaction the walk yields has no recoverable signer:
\* SenderRecovery, a Fatal error, after the batches before it were appended
\* in the open transaction.  The pipeline drops the transaction and stops;
\* a restart runs the stage again over the committed tables.
SendersRecoveryError ==
    LET start == StartTxId(progress + 1)
        end   == LastTxIndex(MaxBlockNum)
    IN
    /\ MaxBlockNum > progress
    /\ \E id \in TxNumbers : start <= id /\ id <= end
    /\ faults < MaxFaults
    /\ faults' = faults + 1
    /\ rerun' = TRUE
    /\ UNCHANGED <<bodies, senders, progress, unwinds>>

\* Mutant: the unwind keeps only keys below last_tx_index.
SendersUnwindBelowLast(u) == {i \in senders : i < LastTxIndex(u)}

\* unwind: delete the TxSenders keys above last_tx_index of unwind_to.
SendersUnwind(u) == {i \in senders : i <= LastTxIndex(u)}

-----------------------------------------------------------------------------
(* The checks of the stage's test runner (SendersTestRunner).              *)

\* check_no_senders_by_block: no TxSenders key above last_tx_index of the
\* block's body, or, when the body is missing, an empty TxSenders.
CheckNoSendersByBlock(s, block) ==
    IF block <= BodiesProgress
    THEN \A k \in s : k <= LastTxIndex(block)
    ELSE s = {}

-----------------------------------------------------------------------------
(* The Bodies stage and the pipeline, from the design.                     *)

\* The Bodies stage commits the body of the next canonical block; the
\* pipeline runs Senders after it.
BodiesAdvance ==
    /\ Len(bodies) <= MaxBlock
    /\ \E k \in 0..MaxTxs : bodies' = Append(bodies, k)
    /\ rerun' = TRUE
    /\ UNCHANGED <<senders, progress, unwinds, faults>>

\* Mutant: the unwind skips the stages that are ahead of the target.
PipelineUnwindSkipAhead ==
    /\ unwinds < MaxUnwinds
    /\ \E block \in 0..BodiesProgress :
          LET u == IF block = 0 THEN 0 ELSE block - 1 IN
          /\ IF SkipLagging /\ progress >= u
             THEN UNCHANGED <<senders, progress>>
             ELSE /\ senders' = SendersUnwind(u)
                  /\ progress' = u
          /\ bodies' = SubSeq(bodies, 1, u + 1)
    /\ unwinds' = unwinds + 1
    /\ rerun' = TRUE
    /\ UNCHANGED faults

\* StageError::Validation { block } from a stage: every stage is unwound to
\* block - 1 in reverse order, Senders before Bodies, each with a commit;
\* the Bodies stage drops the bodies above the target.  A stage already at
\* or below the target is skipped when SkipLagging holds; otherwise its
\* unwind runs and its progress is set to the target.  Forward execution
\* then resumes from the first stage.
PipelineUnwind ==
    /\ unwinds < MaxUnwinds
    /\ \E block \in 0..BodiesProgress :
          LET u == IF block = 0 THEN 0 ELSE block - 1 IN
          /\ IF SkipLagging /\ progress <= u
             THEN UNCHANGED <<senders, progress>>
             ELSE /\ senders' = SendersUnwind(u)
                  /\ progress' = u
          /\ bodies' = SubSeq(bodies, 1, u + 1)
    /\ unwinds' = unwinds + 1
    /\ rerun' = TRUE
    /\ UNCHANGED faults

Init ==
    /\ \E g \in GenesisTxs : bodies = <<g>>
    /\ senders = 0..(TxsBelow(1) - 1)
    /\ progress = 0
    /\ unwinds = 0
    /\ faults = 0
    /\ rerun = TRUE

\* A call of execute by the pipeline, with whichever result it returns.
SendersCall == SendersExecute \/ SendersRecoveryError \/ SendersNoWork

Next ==
    \/ SendersExecute
    \/ SendersRecoveryError
    \/ SendersNoWork
    \/ BodiesAdvance
    \/ PipelineUnwind

\* The pipeline re-enters the Senders stage while it returns done = false
\* and runs it again after every forward pass of the stages before it and
\* after an unwind; once every stage returned done it may idle.
Spec == Init /\ [][Next]_vars /\ WF_vars(rerun /\ SendersCall)

-----------------------------------------------------------------------------
(* Properties.                                                             *)

\* Spec 3 invariant 4 and spec 8: TxSenders holds exactly the senders of
\* the transactions of the blocks up to the Senders checkpoint, across
\* intermediate commits, reorganisations of the bodies and unwinds.
SendersExact == senders = 0..(TxsBelow(progress + 1) - 1)

\* Spec 3 invariant 5: the Senders checkpoint never passes the Bodies
\* checkpoint, whatever order the stages' commits and unwinds take.
StageOrder == progress <= BodiesProgress

\* check_no_senders_by_block at the checkpoint, which the test runner asserts
\* after unwinds and failed executions: no TxSenders key lies above
\* last_tx_index of the checkpoint's block, whatever the genesis body and
\* whichever stages the pipeline's unwinds skip.
SendersNoneAbove == CheckNoSendersByBlock(senders, progress)

\* Spec 4.1: done = true means the stage reached previous_stage_progress.
\* Once the Bodies stage and the unwinds stop, the Senders stage, re-entered
\* while it returns done = false, catches up with the Bodies stage.
SendersCatchUp == <>[](progress = BodiesProgress)
==============================================================================
