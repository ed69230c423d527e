# TLA+ models of the reth staged sync and parked pool

This directory holds TLA+ models of the parts of this repository that change
state. It also holds TLC configurations that model-check them on small
instances, and TLAPS proofs of the Headers model's main invariants and of
its refinement of an abstract canonical chain.
`PROJECT.json` lists each definition against the source lines it models, each
run, the mutants that show each property can fail, the findings and the
hazards.

Tools: `tlasany M.tla` parses a module; `tlc -workers 2 -config X.cfg M` runs a
configuration; `tlapm HeadersStage_proofs.tla` and `tlapm HeadersRefinement_proofs.tla`
check the proofs.

## 1. The system and how its parts interact

| Part | Source | What it does |
|---|---|---|
| Headers stage | `src/crates/stages/src/stages/headers.rs` | Downloads headers from the tip down to the local head, in chunks of `commit_threshold`. It commits each chunk, then writes the total difficulties (TDs) and returns the new progress. |
| Senders stage | `src/crates/stages/src/stages/senders.rs` | Walks the transactions of up to `commit_threshold` blocks, recovers their signers and appends them to `TxSenders`. |
| Parked pool | `src/crates/transaction-pool/src/pool/parked.rs` | A map by transaction id plus a `BTreeSet` ordered by a priority wrapper. The two must always hold the same transactions. |
| p2p request errors, headers client | `src/crates/interfaces/src/p2p/error.rs`, `.../headers/client.rs` | Declarations used by the header downloader: which request errors are retryable, and the request trait. |
| db tool | `src/bin/reth/src/db/mod.rs` | A CLI over the database: stats, seed, list. |
| peers module, downloaders crate root, test bodies client | `src/crates/net/...`, `src/crates/interfaces/src/test_utils/bodies.rs` | Module declarations and a test double. They hold no state. |

The stages interact through the database and the pipeline executor. The
pipeline, the transaction wrapper with its unwind primitives, the header
downloader, the consensus client and the Bodies stage are **not in this
repository**. Where a stage touches one of them, the model follows the design
(`spec.md`). Each such definition is marked `spec_modelled` in the map.

The pipeline behaves as follows:

- It opens a transaction and calls `execute` with the stage's saved progress.
- It saves the returned progress and commits.
- On `StageError::Recoverable` it reruns the stage.
- On `StageError::Validation { block }` it unwinds every stage to `block - 1`, committing after each, and starts again from the first stage.

Inside `execute`, the Headers stage suspends at two kinds of point: waiting for
a forkchoice update, and waiting for each downloader chunk. Between them it
runs synchronous code that ends in a commit. A crash at a suspension point
drops an open transaction that holds no writes.

## 2. Modules

### `Chain.tla`: the header tree

This module holds the headers that exist on the network, as constants:

- `Hash`, with the `Genesis` header;
- `Parent[h]` and `Number[h]`, assumed to form a tree rooted at the genesis (`ChainAssumption`);
- `HashRank`, the byte order of hashes, used by the `(number, hash)` key order `KeyLeq` of `Headers` and `HeaderTD`.

A header body is never stored: a hash determines its number and its parent.

### `HeadersStage.tla`: the Headers stage over the committed tables

**State.**
- `db` is the committed database. It is a record with these fields:
  - `canonical`: `CanonicalHeaders`, number to hash, where `NoHash` means absent;
  - `numbers`: the keys of `HeaderNumbers`;
  - `headers`: the keys of `Headers`;
  - `td`: `HeaderTD`;
  - `progress`: the stage checkpoint.
- `pc` is where the pipeline's Headers task is: `start`, `waitfc`, `stream`, or `stageProgress` (stopped by `StageError::StageProgress`).
- `head`, `nxt`, `pos` and `cur` are the locals of `execute`: the head header, the next hash and number the stream yields, and `current_progress`.
- `fc` is the value of the forkchoice watch channel.
- `crashes` and `faults` are bounded counters.

A total difficulty is modelled as the set of headers whose difficulties it
sums. `td += header.difficulty` then becomes a union with `{header}`, and the
design's TD equation becomes a set equation that TLC and the provers handle.
This needs no recursion.

**Actions.** Each action is one stretch of the code between two await points.

- `HeadersAwaitTip`, `HeadersGapTip` and `HeadersNoWork` are the three outcomes of `update_head` plus `get_head_and_tip`, lines 168-224:
  - `HeadersAwaitTip`: there is no next canonical key;
  - `HeadersGapTip`: there is a gap, and the tip is the parent of the lowest key above the checkpoint;
  - `HeadersNoWork`: the checkpoint's child is present, giving `StageProgress`.
- `HeadersForkchoiceTip` is the return of `next_fork_choice_state`: the first published head that is not zero and is not the local head.
- `HeadersChunk` is one iteration of the chunk loop, lines 92-107: `validate_header_response`, then `write_headers`, then `db.commit()`, then the update of `current_progress`. The chunk comes from an honest downloader (`ChunkOf`): linked headers from the tip down. For the lowest chunk, the bottom header must be a child of the head.
- `HeadersTipMismatch` and `HeadersValidationError` are the `HeaderValidation` arm, line 121. The first is the downloader's verdict when the tip's chain does not reach the head; the second is a bad peer. Both lead to the pipeline's unwind to `stage_progress - 1` (`PipelineUnwind`, `HeadersUnwind`).
- `HeadersRecoverableError` is the `Timeout` and other-error arms, lines 109-130: the stage reruns on the committed tables.
- `HeadersDone` is the end of the stream: `write_td`, the output `stage_progress = max(current_progress, last canonical key)`, and the pipeline's save and commit.
- `Crash` is a restart at an await point.
- `ForkchoiceUpdated(h)` is the consensus client publishing a head.

**The test runner's checks.** `NoHeaderEntryAbove` is
`check_no_header_entry_above` of the stage's test runner (lines 633-643): it
says what the tests assert of the tables after a failed `execute`. `Init` is the runner's
`seed_execution` (the genesis and its TD) and `ForkchoiceUpdated` its
`after_execution` (publishing a head).

**The abstract specification.** `CanonicalChain.tla` says what the stage
promises the stages after it. Its state is the canonical chain up to a
checkpoint (`chain`, `top`). A step either extends it by headers each linked
to the one below, or cuts it back to a prefix. `HeadersStage` maps to it by
`CanonicalPrefix` (the committed `CanonicalHeaders` up to the checkpoint, and
nothing above) and `top <- db.progress`. The chunks the stage commits above its
checkpoint before the stream ends are invisible to the abstraction. The
property `HeadersImplementsChain == Abs!Spec` is checked by TLC and proved.

**Fairness.** `FairSpec` adds `WF_vars(HeadersStep)`, the stage's own steps
(see section 3).

**Errors.** The `DatabaseIntegrityError` exits of `update_head`,
`get_head_and_tip` and `write_td` are not transitions. They appear as guards
(`StartReadsSucceed`, `TDPassSucceeds`), and the invariant `NoDatabaseError`
states that they are never taken.

### `ParkedPool.tla`: the parked pool

**State.** `submissionId`, `byId` (a function from transaction id to entry) and
`best` (a set of entries).

**Operations.**
- `AddTransaction` is `add_transaction`. Its `assert!` is a guard, because a duplicate insert is a panic.
- `RemoveTransaction` is `remove_transaction`.
- `NextSubmissionId` is `next_id`, with `wrapping_add` as arithmetic modulo `2^IdWidth`.
- The `BTreeSet` is modelled by what it does with the comparator. `insert` keeps the set unchanged when an element comparing `Equal` is present. `remove` deletes the element comparing `Equal`.
- `ParkedCmp` is `ParkedPoolTransaction::cmp`: the wrapper's order (`BasefeeOrd` by `max_fee_per_gas`, with `None` lowest; `QueuedOrd` always `Equal`), then the transaction id.

### `SendersStage.tla`: Senders between Bodies and the pipeline

**State.**
- `bodies`: the `tx_count` of each canonical block in `BlockBodies`. Its length is the Bodies progress.
- `senders`: the keys of `TxSenders`.
- `progress`: the Senders checkpoint.
- `unwinds`: a bounded counter.
- `rerun`: the pipeline will run the stage again. It is set by a returned `done = false`, by a pass of the Bodies stage, by an unwind and by a restart after a failure.

**Operations.**
- `execute` (lines 56-110) has no await point, so one call is one step. It has three outcomes:
  - `SendersNoWork`: `max_block_num <= stage_progress`, returning `done = true`;
  - an empty transaction range, which advances the progress to `max_block_num` and returns `done = true` (line 77);
  - the walk of `[start_tx_index, end_tx_index]` appended to `TxSenders`, returning `done = (max_block_num >= previous_stage_progress)` (line 108). The append cursor requires every existing key to lie below the start (a guard).
- Parallel recovery in batches joins before each append, and all appends sit in one transaction. So it leaves the same committed tables as a single walk.
- `SendersRecoveryError` is a `SenderRecovery` failure of a batch (line 103). The `?` returns before the pipeline's commit, so the appends of earlier batches are dropped with the transaction: nothing changes but the fault counter (`faults`, bounded by `MaxFaults`).
- `CheckNoSendersByBlock` is the test runner's `check_no_senders_by_block` (lines 294-308). `Init` is its `seed_execution`.
- `SendersUnwind` is `unwind`: delete the keys above `last_tx_index` of the target.
- `BodiesAdvance` (the Bodies stage) and `PipelineUnwind` follow the design.
- The constant `SkipLagging` chooses between two pipelines. With `FALSE`, the unwind runs every stage's `unwind`, as the design says. With `TRUE`, it skips a stage already at or below the target.
- `StoredBlockBody` is not in this repository. `start_tx_id` and `last_tx_index` are modelled as first index and `first + count - 1` in u64 with a saturating subtraction.

### `CanonicalChain.tla`

The abstract specification of the Headers stage; see above.

### `HeadersStage_proofs.tla`, `HeadersRefinement_proofs.tla`, `HeadersTD_proofs.tla`, `ParkedPool_proofs.tla`, `SendersStage_proofs.tla`

The TLAPS proofs; see section 5. Each extends the module it proves about, and
the Headers ones extend each other in this order.

### `MC_Headers.tla` and `MC_Parked.tla`

The model values and functions for TLC.

## 3. Runs

| Run | Config | Checks | Result |
|---|---|---|---|
| `headers_safety` | `MC_Headers.cfg` | `TypeOK`, `HeaderTablesConsistent`, `CanonicalChainLinked`, `TotalDifficultyConsistent`, `NoDatabaseError`, `HeadersImplementsChain` | pass, 574 states |
| `headers_liveness` | `MC_HeadersLive.cfg` | `SyncsToStableTip` | pass, 574 states |
| `headers_reentry` | `MC_HeadersReentry.cfg` | `HeadersReentrant` | violation (finding 1) |
| `headers_recoverable_error` | `MC_HeadersRecoverable.cfg` | `RecoverableErrorLeavesNoEntry` | violation (finding 5) |
| `parked_bijection` | `MC_Parked.cfg` | `TypeOK`, `ParkedBijection` | pass, 5872 states |
| `parked_fifo` | `MC_ParkedFifo.cfg` | `ParkedFifo` | violation (finding 2) |
| `senders_safety` | `MC_Senders.cfg` | `TypeOK`, `SendersExact`, `StageOrder`, `SendersNoneAbove` | pass, 908 states |
| `senders_empty_genesis` | `MC_SendersEmptyGenesis.cfg` | `SendersExact` | violation (finding 3) |
| `senders_unwind_lagging` | `MC_SendersUnwindLagging.cfg` | `SendersExact` | violation (finding 4) |
| `senders_catch_up` | `MC_SendersCatchUp.cfg` | `SendersCatchUp` | violation (finding 6) |

What the properties say:

- **`HeaderTablesConsistent`** is design section 3, invariant 1. `Headers`, `HeaderNumbers` and `CanonicalHeaders` hold the same headers at their own numbers. It must survive chunk commits that overwrite numbers, crashes, retries, and unwinds by three different primitives.
- **`CanonicalChainLinked`**: the canonical entries up to the checkpoint have no gap, and adjacent canonical entries are parent and child. This depends on the downloader's link to the head, which `validate_header_response` does not check across chunks.
- **`TotalDifficultyConsistent`** is invariant 2. Each canonical header up to the checkpoint has TD = parent's TD + its difficulty, and `HeaderTD` holds nothing else.
- **`NoDatabaseError`**: every lookup of `update_head`, `get_head_and_tip` and `write_td`, and every `append` of the TD pass, succeeds.
- **`HeadersImplementsChain`**: the stage refines `CanonicalChain`.
- **`SyncsToStableTip`**: if the published head settles on `h`, the stage ends with `h` at its checkpoint, unless it has stopped with `StageProgress`. Reaching a tip on the other fork, or below the synced head, takes repeated unwinds (`HeadersTipMismatch`) that walk back to a common ancestor, then a stream.
- **`RecoverableErrorLeavesNoEntry`**: after a `Recoverable` error, no header entry is left above the checkpoint. This is what the tests `execute_timeout` and `execute_download_error` assert.
- **`HeadersReentrant`**: the stage never stops on `StageProgress`. This is the design's re-entrancy at every commit boundary.
- **`ParkedBijection`**: `by_id` and `best` hold the same transactions.
- **`ParkedFifo`**: within one priority, the order is submission order (design section 4.7).
- **`SendersExact`** is invariant 4 and section 8. `TxSenders` holds exactly the transactions of the blocks up to the checkpoint.
- **`StageOrder`** is invariant 5: Senders never passes Bodies.
- **`SendersNoneAbove`**: the test runner's `check_no_senders_by_block` holds at the checkpoint in every state. No `TxSenders` key lies above `last_tx_index` of the checkpoint's block. Unlike `SendersExact`, it holds in every configuration, including an empty genesis and a pipeline that unwinds lagging stages. The saturating `last_tx_index` is why it holds in the first of these.
- **`SendersCatchUp`**: once Bodies and the unwinds stop, Senders reaches the Bodies progress and stays there. This is what `done` promises in design section 4.1.

Each property of a passing run has a mutant in `PROJECT.json`. A mutant is a
plausible bug in a mapped definition, and TLC finds the property violated with
the mutant in place. The mutants are:

- chunk bounds that are not cut at the head;
- the `HeaderNumbers` walker starting at `unwind_to`;
- no bottom-link check on the chunk;
- the TD appended before the difficulty is added;
- `HeaderTD` not unwound;
- `submission_id` not wrapping;
- a comparator without the id tie-break;
- an execute that ignores the previous stage;
- an unwind keeping only the keys below `last_tx_index`;
- the pipeline skipping the stages that are ahead;
- the canonical table unwound from the target rather than above it (breaks `HeadersImplementsChain`);
- the unwind target taken as the reported block itself, which makes the stage unwind to the same checkpoint forever (breaks `SyncsToStableTip`);
- a `SenderRecovery` failure that commits the earlier batches.

### Bounds and why they suffice

**Headers** (`MC_Headers`): the tree is `g - a1 - a2 - a3`, with a fork `a1 - b2 - b3`.

- The forkchoice heads are `a1`, `a3` and `b3`. A switch between the two forks makes the stage meet a head that does not link, and unwind.
- `CommitThreshold = 2` with chains of length 3 gives streams of one and two chunks. That is enough for a crash between chunk commits, and for gaps that `HeadersGapTip` must resume from.
- One crash and one downloader fault suffice to reach every error path, the reentry bug, and the re-runs over partial commits. TLC reaches 574 states at depth 18.

**Parked pool**: three transaction ids, fees `{1, 2}` plus `None`, and a 2-bit submission counter. The counter wraps after four insertions, and equal fees exercise the tie-break.

**Senders**:

- up to three blocks after the genesis, with 0 to 2 transactions each, covering empty blocks and empty ranges;
- `CommitThreshold = 2`, giving intermediate commits with `done = false`;
- two unwinds, including unwinds that replace bodies with bodies of another size.

In the passing run the genesis has one transaction; the empty genesis is the case of finding 3.

### Fairness

- **Senders**: `WF_vars(rerun /\ SendersCall)`, where `SendersCall` is a call of `execute` with any of its results. The pipeline re-enters the stage immediately while it returns `done = false` (design sections 4.1 and 4.3). It also runs the stage after every pass of the Bodies stage, after an unwind, and after a restart. Once every stage has returned `done = true` and `reached_tip = true`, the pipeline may idle, so nothing obliges a call then. The Bodies stage and the unwinds are environment steps and may stop.
- **Headers**: `WF_vars(HeadersStep)` over the stage's own steps. These are the tip lookup, the forkchoice wait returning, a chunk, the mismatch unwind and the end of the stream. The pipeline's loop runs the stage again whenever it returns. The downloader answers every request; its timeouts and bad peers are the bounded `faults`. Crashes, faults and forkchoice updates get no fairness. `SyncsToStableTip` assumes in its premise that the published head settles.

## 4. Findings

1. **Headers re-entrancy** (code bug, `headers.rs:105`).
   - The stage commits each chunk, but writes `HeaderTD` and lets the pipeline save the checkpoint only after the stream ends.
   - A crash after the last chunk's commit leaves `CanonicalHeaders(stage_progress + 1)` present with the checkpoint unchanged.
   - Every restart then fails with `StageProgress` (line 221).
   - Trace: publish `a1`; the chunk writes `a1`; crash; `HeadersNoWork`.
2. **Parked pool order** (spec-code divergence, `parked.rs:96`). Ties are broken by transaction id, while the design says by submission id (FIFO). Trace: add id 2, then id 1, both without a fee; id 1 ranks first.
3. **`last_tx_index` of an empty prefix** (spec gap, `senders.rs:119`).
   - With a genesis without transactions, `first + count - 1` has no value below 0.
   - An unwind to block 0 keeps `TxSenders(0)`, which belongs to block 1.
   - The next execute's `append` of key 0 then fails.
4. **Unwind of a lagging stage** (spec gap, `senders.rs:121`).
   - `unwind` returns `unwind_to` whatever the stage's own progress.
   - The design's pipeline unwinds every stage, so a Senders stage below the target jumps to it without the senders in between.
   - With `SkipLagging = TRUE`, which skips such stages, `SendersExact` holds.
5. **Recoverable errors leave headers above the checkpoint** (spec-code divergence, `headers.rs:105`).
   - The tests `execute_timeout` and `execute_download_error` check `check_no_header_entry_above(stage_progress)` after a `Recoverable` error.
   - The code commits every chunk before the stream ends, so an error on a later chunk returns after earlier chunks were committed.
   - Trace: wait, publish a tip, one chunk commits, then a `Timeout`.
   - The tests only reach the error on the first chunk.
6. **`done` after an empty range** (spec-code divergence, `senders.rs:77`).
   - When the range's bodies hold no transactions, `execute` returns `done = true` and `reached_tip = true` at `max_block_num`, even when the commit threshold cut `max_block_num` below `previous_stage_progress`.
   - Design section 4.1 says `done = false` means the stage yielded before `previous_stage_progress`, and section 4.6 step 8 returns `done = (max_block >= previous_stage_progress)`.
   - The pipeline takes the stage as caught up and may idle, leaving Senders behind Bodies until the next block arrives.
   - Trace: Bodies reaches block 3, blocks 1 and 2 are empty, and with `CommitThreshold = 2` the call returns `done` at progress 2.

## 5. What is proved

`HeadersStage_proofs.tla` proves the following, for every header tree, commit
threshold and bound on crashes and faults. The only assumptions are
`ChainAssumption` and `HeadersAssumption`.

- `TypeCorrect`: `Spec => []TypeOK`.
- `HeaderTablesInvariant`: `Spec => []HeaderTablesConsistent`.
- `IInvInvariant`: `Spec => []IInv`, of which both theorems above are corollaries.

`HeaderTablesConsistent` is not inductive by itself, because a chunk commit
overwrites `CanonicalHeaders` at the numbers it writes. The inductive invariant
`IInv` adds `StreamWindow`:

- while the task waits for a tip or streams, `head` is the canonical header at the checkpoint;
- while it waits, nothing is canonical above the checkpoint;
- while it streams, nothing is canonical strictly between the checkpoint and the number of the next header.

Then:

- A chunk writes only empty numbers above the checkpoint, so the three tables grow together.
- The unwind deletes, from each table, exactly the canonical headers above the target. For `HeaderNumbers` this holds because canonical hashes at different numbers differ, which follows from the numbering conjunct.

`IInv` was first checked with TLC as an invariant of `headers_safety`.

**The proof's structure:**

1. one lemma per action: `AwaitTipIInv`, `GapTipIInv`, `ChunkIInv`, `DoneIInv`, and the others;
2. a lemma `HeadersUnwindConsistent` for the unwind primitives;
3. `NextIInv`, which splits `[Next]_vars` into its cases;
4. the temporal step, `BY PTL DEF Spec`.

`HeadersRefinement_proofs.tla` proves, from the same assumptions:

- `RInvInvariant`: `Spec => []RInv`;
- `CanonicalChainLinkedInvariant`: `Spec => []CanonicalChainLinked`;
- `HeadersRefinement`: `Spec => HeadersImplementsChain`, that is, the stage implements `CanonicalChain`.

The step to argue about is the end of the stream. It moves the checkpoint to
the last canonical key, so every number in between must be canonical and
linked to the one below. The chunks that put them there were committed one at
a time, possibly by several runs between crashes, retries and unwinds.
`RInv = IInv /\ ChainInv` says what the table looks like between any two steps:

- `BelowCheckpointFilled`: every number up to the checkpoint is canonical;
- `AdjacentLinked`: adjacent canonical headers are parent and child;
- `NoHolesAbove`: above the checkpoint, the canonical keys between two canonical keys are canonical;
- `StreamSegment`: while streaming, everything above `pos` up to a canonical key is filled, the header above `pos` hangs from `nxt` once `pos` has reached the head, and the stream does not end above the head;
- `CurCanonical`: `current_progress` is a canonical key.

A chunk fills `ChunkLow..pos` just below the segment, linked to `nxt`, and at
the head linked to the head. At the end of the stream, `pos` is at the head.
`CurCanonical` puts `current_progress` below the last key, so the checkpoint
becomes the last key and everything below it is filled. An unwind keeps a
prefix. `RInv` was checked with TLC as an invariant first.

The refinement proof maps each step as follows:
- a step that keeps `db`, or a chunk (it writes only above the checkpoint), is an abstract stutter;
- the mismatch and validation unwinds are `Unwind` to `UnwindTarget(stage_progress)`;
- the end of the stream is `Extend`, or a stutter when the checkpoint stays.

`HeadersTD_proofs.tla` proves, from the same assumptions:

- `TotalDifficultyInvariant`: `Spec => []TotalDifficultyConsistent`;
- `NoDatabaseErrorInvariant`: `Spec => []NoDatabaseError`;
- `TInvInvariant`: `Spec => []TInv`, with `TInv = RInv /\ TotalDifficultyConsistent /\ HeadReached`.

`HeadReached` says that while streaming, once the next header is the head, the
number above the head is canonical. `NoDatabaseError` needs it: `RInv` alone
allows a streaming state whose next header is the head with nothing canonical
above it, and there `write_td` would not find the key above the head. No run
reaches such a state, and `HeadReached` says why. The tip steps set `nxt` to a
header other than the head: the forkchoice tip differs from the head, and the
parent of the lowest canonical key above a gap is above the head. Only a chunk
makes `nxt` the head, and that chunk writes the number above the head.

The argument for `write_td` (`DoneWalk`, `DoneTD`):

1. `Headers` holds only canonical headers (`HeaderTablesConsistent`), and at the end of the stream the canonical keys above the checkpoint are filled up to the last one (`RInv`). So the keys the walk visits are the canonical headers from checkpoint + 1 to the last key.
2. On canonical headers the `(number, hash)` key order is the number order, because there is one canonical hash per number.
3. So header `k` of the walk gets the head's total difficulty plus the canonical headers from checkpoint + 1 to `k`. Its parent (`AdjacentLinked`) is header `k - 1`, or the head, and that gives the entry `TotalDifficultyConsistent` asks for.
4. The unwind of `HeaderTD` by number keeps the entries up to the target, together with the canonical keys they are checked against.

`NoDatabaseError` follows from `TInv` in each state. The checkpoint's entry is
there because `TotalDifficultyConsistent` gives it a parent's set plus itself,
or the genesis' empty set. The walk appends above the last `HeaderTD` key
because every entry is at or below the checkpoint. `TInv` was checked with TLC
as an invariant first: on `headers_safety`, and on a larger instance with
commit threshold 1, two crashes and two faults.

`ParkedPool_proofs.tla` proves, for every set of ids and fees, either ordering
wrapper and every width of `submission_id`, from `ParkedAssumption`:

- `ParkedBijectionInvariant`: `Spec => []ParkedBijection`;
- `ParkedTypeCorrect`: `Spec => []TypeOK`.

The argument rests on two facts about `ParkedCmp`. `CmpEqualSameId`: it says
`Equal` only for entries with the same transaction id (the tie-break).
`CmpSelf`: it says `Equal` for an entry and itself. Since `by_id` has one entry
per id, an insert never meets an entry it compares equal to, and a remove
deletes exactly the entry of the id. `TypeOK /\ ParkedBijection` is inductive
as it stands. The wrapping counter needs `2^IdWidth > 0`, which the provers
cannot see directly; `PowerPositive` derives it from the cardinality of the
subsets of `1..IdWidth`. `AddTransaction` writes the new `by_id` as an explicit
function rather than with TLC's `@@` and `:>`, which the provers cannot expand;
the two are the same function.

`SendersStage_proofs.tla` proves, for every commit threshold, chain length,
body sizes and bounds, with and without `SkipLagging`, from
`SendersAssumption`:

- `StageOrderInvariant`: `Spec => []StageOrder`;
- `SendersTypeCorrect`: `Spec => []TypeOK`.

`execute` stops at `max_block_num`, which is at most the Bodies progress. The
Bodies stage only appends. The pipeline's unwind to `u` keeps the bodies up to
`u`, and leaves Senders at `u` or, when skipped, at or below it.
`TypeOK /\ StageOrder` is inductive. That proof never reads the value of
`TxsBelow`.

- `SendersNoneAboveInvariant`: `Spec => []SendersNoneAbove`, the test runner's
  `check_no_senders_by_block` at the checkpoint, with no hypothesis.

**Reasoning about `TxsBelow`.** `TxsBelow(n)` is a recursive function of the
bodies, written with `LET below[k \in 0..n] == ...`. That form expands to a
`CHOOSE`, so it is by definition `Below(bodies, n)`, the `CHOOSE` of a function
that satisfies the recursion equation (`TxsBelowIsBelow`). The library's
recursion theorem would take the step as an operator parameter, which the
provers cannot instantiate. Instead, induction is done over sets:

- `LeastNat` comes from `WFMin` and the well-foundedness of `<` on `Nat`.
- `NatSetInduction` says that a set of naturals holding 0 and closed under
  successor holds all of `Nat`.
- These give the lemmas on `Below`: such a function exists and is unique, it
  unfolds (`BelowUnfold`), it is a natural, it is monotone in `n`
  (`BelowMono`), and it agrees on two body lists with a common prefix
  (`BelowAgree`).

**The inductive invariant** is `NInv == TypeOK /\ StageOrder /\ SendersNoneAbove`.
`StageOrder` is needed because it keeps the checkpoint's body in the table, so
that `last_tx_index` of the checkpoint is `LastOf(bodies, progress)`, the
saturating `Below(progress + 1) - 1`. `LastOf` is monotone in the block
(`LastOfMono`) and reads only the bodies up to the block (`LastOfAgree`).
The argument, step by step:

- **Execute** appends keys up to `last_tx_index(max_block_num)` and moves the
  checkpoint there. The keys already stored are at most
  `last_tx_index(progress)`, which is not above it.
- **A Bodies append** leaves the checkpoint's body prefix unchanged.
- **An unwind to `u`** either skips Senders, which is then at or below `u` and
  reads kept bodies only, or keeps the keys up to `last_tx_index(u)` and moves
  the checkpoint to `u`.
- **A recovery failure, an idle call and a stutter** keep bodies, senders and
  checkpoint.

`NInv` was checked with TLC as an invariant first: on `MC_Senders`' constants
(908 states), and on an instance with `SkipLagging = FALSE` and genesis sizes
{0, 1} (26664 states).

`SendersExact` is not proved. It fails without `SkipLagging` and with an empty
genesis body (findings 3 and 4), and the code excludes neither. A theorem under
those two hypotheses would only restate the configuration of `senders_safety`.

**Left to TLC:**

- `SendersExact`, which holds in the configuration of `senders_safety` and fails in the two violation runs.
- The liveness properties (`SyncsToStableTip`, and `SendersCatchUp`, which TLC finds violated), because the provers do not handle fairness and ENABLED.

## 6. Not modelled

- **The header downloader's algorithm** (not in this repository), and `RequestError::is_retryable`, which only the downloader reads. The stage sees the downloader through its outcomes: linked chunks, `Timeout` and other errors, and `HeaderValidation`.
- **The forkchoice receiver's edge semantics and a dropped sender** (hazard at `headers.rs:229`). The channel is modelled as level-triggered, following the design's "only the most recent head matters". `changed().await` runs before the first `borrow`. A receiver created with the current head already marked as seen would wait for a new publication. How `fork_choice_state()` creates its receiver is not in this repository.
- **`update_status`**, which is fire-and-forget with no state.
- **The db CLI**, which is I/O only. Its panic on an unknown table name (`mod.rs:148`) is a recorded open question of the design.
- **The peers module, the downloaders crate root and the test bodies client**, which have no state.

## 7. Plan for the next sittings

- Compose Headers and Senders under one pipeline with stage ordering. Replace the Bodies environment by a Bodies abstraction driven by the canonical headers.
- Model the edge-triggered forkchoice receiver as a choice of its initial version.
- Compose the Senders proofs with the Headers proofs once the stages are composed.
- Check a fix of finding 6: return `done = (max_block_num >= previous_stage_progress)` after an empty range too, and run `senders_catch_up` as a passing run.
