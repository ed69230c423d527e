---------------------------- MODULE HeadersStage ----------------------------
(***************************************************************************)
(* The Headers stage (crates/stages/src/stages/headers.rs) run by the      *)
(* pipeline executor over the committed tables of the database.            *)
(*                                                                         *)
(* db is the committed state: every action is one stretch of synchronous   *)
(* code between two await points, and ends with a commit (a chunk of       *)
(* headers, the total difficulty pass with the stage checkpoint, or an     *)
(* unwind) or writes nothing.  A crash at an await point drops the open    *)
(* transaction, which at those points holds no writes, so a crash is a     *)
(* return to "start" with db unchanged.                                    *)
(*                                                                         *)
(* A total difficulty is represented by the set of headers whose           *)
(* difficulty it sums on top of the genesis TD: the code's td += difficulty *)
(* is a union with {header}.                                               *)
(***************************************************************************)
EXTENDS Chain

CONSTANTS
    CommitThreshold,  \* HeaderStage::commit_threshold
    FcHeads,          \* head_block_hash values the consensus client publishes
    NoTD,             \* an absent HeaderTD entry
    MaxCrashes,       \* bound on process restarts
    MaxFaults         \* bound on failed downloader chunks

ASSUME HeadersAssumption ==
    /\ CommitThreshold \in Nat \ {0}
    /\ FcHeads \subseteq Hash
    /\ \A S \in SUBSET Hash : S # NoTD
    /\ MaxCrashes \in Nat
    /\ MaxFaults \in Nat

VARIABLES
    db,       \* committed tables: canonical, numbers, headers, td, progress
    pc,       \* where the pipeline's Headers task is
    head,     \* the head header read by get_head_and_tip
    nxt,      \* hash of the next header the downloader stream yields
    pos,      \* number of that header
    cur,      \* current_progress of execute
    fc,       \* head_block_hash of the forkchoice watch channel
    crashes,  \* restarts so far
    faults    \* downloader errors so far

vars == <<db, pc, head, nxt, pos, cur, fc, crashes, faults>>

TotalDifficulty == SUBSET Hash

Tables ==
    [canonical : [Nums -> Hash \cup {NoHash}],  \* CanonicalHeaders
     numbers   : SUBSET Hash,                   \* HeaderNumbers: h |-> Number[h]
     headers   : SUBSET Hash,                   \* Headers: (Number[h], h) |-> h
     td        : [Hash -> TotalDifficulty \cup {NoTD}],  \* HeaderTD
     progress  : Nums]                          \* StageProgress("Headers")

TypeOK ==
    /\ db \in Tables
    /\ pc \in {"start", "waitfc", "stream", "stageProgress"}
    /\ head \in Hash
    /\ nxt \in Hash
    /\ pos \in Nums
    /\ cur \in Nums
    /\ fc \in Hash \cup {NoHash}
    /\ crashes \in 0..MaxCrashes
    /\ faults \in 0..MaxFaults

-----------------------------------------------------------------------------
(* Table primitives of the transaction wrapper.                            *)

\* Keys of CanonicalHeaders above n: what cursor.next() after seek_exact(n)
\* can return.
CanonicalAbove(t, n) == {k \in Nums : k > n /\ t.canonical[k] # NoHash}

\* k is the key cursor.last() returns.
IsLastCanonical(t, k) ==
    t.canonical[k] # NoHash /\ \A j \in Nums : j > k => t.canonical[j] = NoHash

\* unwind_table_by_walker::<CanonicalHeaders, HeaderNumbers>(start): walk
\* CanonicalHeaders from key start and delete HeaderNumbers(hash) for each.
UnwindByWalker(t, start) ==
    t.numbers \ {t.canonical[n] : n \in {k \in Nums : k >= start}}

\* unwind_table_by_num::<CanonicalHeaders>(u): delete keys above u.
UnwindCanonicalByNum(t, u) ==
    [n \in Nums |-> IF n > u THEN NoHash ELSE t.canonical[n]]

\* unwind_table_by_num_hash::<Headers>(u): delete (n, h) keys with n > u.
UnwindHeadersByNumHash(t, u) == {h \in t.headers : Number[h] <= u}

\* unwind_table_by_num_hash::<HeaderTD>(u).
UnwindTDByNumHash(t, u) == [h \in Hash |-> IF Number[h] > u THEN NoTD ELSE t.td[h]]

-----------------------------------------------------------------------------
(* The Headers stage.                                                      *)

\* update_head and get_head_and_tip: the canonical hash at the checkpoint,
\* its HeaderTD and Headers entries, and the Headers entry of the next
\* canonical key all exist (else DatabaseIntegrityError).
StartReadsSucceed(t) ==
    LET h == t.canonical[t.progress] IN
    /\ h # NoHash
    /\ t.td[h] # NoTD
    /\ h \in t.headers
    /\ \A k \in CanonicalAbove(t, t.progress) :
          (\A j \in CanonicalAbove(t, t.progress) : k <= j) => t.canonical[k] \in t.headers

\* The headers the downloader yields from top down to number lo, indexed by
\* number (HeaderDownloader::stream, descending and linked).
ChunkOf(lo, hi, top) ==
    {c \in [lo..hi -> Hash] :
        /\ c[hi] = top
        /\ \A n \in lo..hi : Number[c[n]] = n
        /\ \A n \in lo..hi : n > lo => Parent[c[n]] = c[n - 1]}

\* validate_header_response: every header is the child of the next one.
ValidHeaderResponse(c) ==
    \A n \in DOMAIN c : n - 1 \in DOMAIN c =>
        /\ Parent[c[n]] = c[n - 1]
        /\ Number[c[n]] = Number[c[n - 1]] + 1

\* write_headers: HeaderNumbers, Headers and CanonicalHeaders for every
\* header of the chunk except the genesis.
WriteHeaders(t, c) ==
    LET W == {n \in DOMAIN c : n # 0} IN
    [t EXCEPT !.numbers = @ \cup {c[n] : n \in W},
              !.headers = @ \cup {c[n] : n \in W},
              !.canonical = [n \in Nums |-> IF n \in W THEN c[n] ELSE t.canonical[n]]]

\* Mutant: the chunk is not cut at the head.
ChunkLowUnbounded == pos - CommitThreshold + 1

\* Lowest number of the chunk the stream yields next.
ChunkLow == MaxOf(pos - CommitThreshold + 1, Number[head] + 1)

\* The downloader stream has ended at the head.
Exhausted == pos <= Number[head] /\ nxt = head

\* Keys write_td walks: Headers from (head.number + 1, canonical hash) on.
TDWalk(t, hd) == {h \in t.headers : KeyLeq(t.canonical[Number[hd] + 1], h)}

\* write_td: seek HeaderTD at the head and the canonical key above it, then
\* append td += difficulty for every walked key (append needs each key above
\* the last key of HeaderTD).
TDPassSucceeds(t, hd) ==
    /\ Number[hd] + 1 \in Nums
    /\ t.td[hd] # NoTD
    /\ t.canonical[Number[hd] + 1] # NoHash
    /\ \A w \in TDWalk(t, hd), h \in Hash : t.td[h] # NoTD => ~KeyLeq(w, h)

\* Mutant: td is appended before it is incremented by the header's difficulty.
WriteTDAppendFirst(t, hd) ==
    [h \in Hash |->
        IF h \in TDWalk(t, hd)
        THEN t.td[hd] \cup {g \in TDWalk(t, hd) : KeyLeq(g, h) /\ g # h}
        ELSE t.td[h]]

WriteTD(t, hd) ==
    [h \in Hash |->
        IF h \in TDWalk(t, hd)
        THEN t.td[hd] \cup {g \in TDWalk(t, hd) : KeyLeq(g, h)}
        ELSE t.td[h]]

\* Mutant: the HeaderNumbers walker starts at unwind_to instead of unwind_to + 1.
HeadersUnwindWalkerFromTarget(t, u) ==
    [t EXCEPT !.numbers = UnwindByWalker(t, u),
              !.canonical = UnwindCanonicalByNum(t, u),
              !.headers = UnwindHeadersByNumHash(t, u),
              !.td = UnwindTDByNumHash(t, u),
              !.progress = u]

\* Mutant: CanonicalHeaders is unwound from unwind_to instead of above it.
HeadersUnwindCanonicalFromTarget(t, u) ==
    [t EXCEPT !.numbers = UnwindByWalker(t, u + 1),
              !.canonical = UnwindCanonicalByNum(t, u - 1),
              !.headers = UnwindHeadersByNumHash(t, u),
              !.td = UnwindTDByNumHash(t, u),
              !.progress = u]

\* Mutant: the HeaderTD table is not unwound.
HeadersUnwindKeepTD(t, u) ==
    [t EXCEPT !.numbers = UnwindByWalker(t, u + 1),
              !.canonical = UnwindCanonicalByNum(t, u),
              !.headers = UnwindHeadersByNumHash(t, u),
              !.progress = u]

\* Stage::unwind of the Headers stage; the pipeline saves the returned
\* progress (unwind_to) with the same commit.
HeadersUnwind(t, u) ==
    [t EXCEPT !.numbers = UnwindByWalker(t, u + 1),
              !.canonical = UnwindCanonicalByNum(t, u),
              !.headers = UnwindHeadersByNumHash(t, u),
              !.td = UnwindTDByNumHash(t, u),
              !.progress = u]

-----------------------------------------------------------------------------
(* The checks of the stage's test runner (HeadersTestRunner).              *)

\* check_no_header_entry_above: no HeaderNumbers value, and no
\* CanonicalHeaders, Headers or HeaderTD key, with a number above block.
NoHeaderEntryAbove(t, block) ==
    /\ \A h \in t.numbers : Number[h] <= block
    /\ \A n \in Nums : n > block => t.canonical[n] = NoHash
    /\ \A h \in t.headers : Number[h] <= block
    /\ \A h \in Hash : t.td[h] # NoTD => Number[h] <= block

-----------------------------------------------------------------------------
(* The pipeline executor around the stage.                                 *)

\* Mutant: the unwind target is the reported block itself.
UnwindTargetNoStep(block) == block

\* StageError::Validation { block }: unwind every stage to block - 1.
UnwindTarget(block) == IF block = 0 THEN 0 ELSE block - 1

ResetLocals == head' = Genesis /\ nxt' = Genesis /\ pos' = 0 /\ cur' = 0

\* The pipeline unwinds to one before the reported block, commits, and runs
\* the stages again from the first.
PipelineUnwind(block) ==
    /\ db' = HeadersUnwind(db, UnwindTarget(block))
    /\ pc' = "start"
    /\ ResetLocals

\* execute, no canonical header above the checkpoint: wait for the consensus
\* client to publish a tip.
HeadersAwaitTip ==
    /\ pc = "start"
    /\ StartReadsSucceed(db)
    /\ CanonicalAbove(db, db.progress) = {}
    /\ pc' = "waitfc"
    /\ head' = db.canonical[db.progress]
    /\ cur' = db.progress
    /\ UNCHANGED <<db, nxt, pos, fc, crashes, faults>>

\* execute, the next canonical header is not the checkpoint's child: there is
\* a gap, and its parent hash is the tip.
HeadersGapTip ==
    /\ pc = "start"
    /\ StartReadsSucceed(db)
    /\ \E k \in CanonicalAbove(db, db.progress) :
          /\ \A j \in CanonicalAbove(db, db.progress) : k <= j
          /\ k # db.progress + 1
          /\ nxt' = Parent[db.canonical[k]]
          /\ pos' = k - 1
    /\ pc' = "stream"
    /\ head' = db.canonical[db.progress]
    /\ cur' = db.progress
    /\ UNCHANGED <<db, fc, crashes, faults>>

\* execute, the checkpoint's child is already canonical:
\* StageError::StageProgress, which the pipeline does not recover from.
HeadersNoWork ==
    /\ pc = "start"
    /\ StartReadsSucceed(db)
    /\ db.progress + 1 \in CanonicalAbove(db, db.progress)
    /\ pc' = "stageProgress"
    /\ UNCHANGED <<db, head, nxt, pos, cur, fc, crashes, faults>>

\* next_fork_choice_state: a published head that is not zero and not ours.
HeadersForkchoiceTip ==
    /\ pc = "waitfc"
    /\ fc # NoHash
    /\ fc # head
    /\ nxt' = fc
    /\ pos' = Number[fc]
    /\ pc' = "stream"
    /\ UNCHANGED <<db, head, cur, fc, crashes, faults>>

\* Mutant: the lowest header of the stream is not checked against the head.
HeadersChunkUncheckedBottom ==
    /\ pc = "stream"
    /\ pos >= Number[head] + 1
    /\ \E c \in ChunkOf(ChunkLow, pos, nxt) :
          /\ ValidHeaderResponse(c)
          /\ db' = WriteHeaders(db, c)
          /\ nxt' = Parent[c[ChunkLow]]
    /\ cur' = MaxOf(cur, pos)
    /\ pos' = ChunkLow - 1
    /\ UNCHANGED <<pc, head, fc, crashes, faults>>

\* A chunk of commit_threshold headers arrives, passes validation, is
\* written and committed.
HeadersChunk ==
    /\ pc = "stream"
    /\ pos >= Number[head] + 1
    /\ \E c \in ChunkOf(ChunkLow, pos, nxt) :
          /\ ChunkLow = Number[head] + 1 => Parent[c[ChunkLow]] = head
          /\ ValidHeaderResponse(c)
          /\ db' = WriteHeaders(db, c)
          /\ nxt' = Parent[c[ChunkLow]]
    /\ cur' = MaxOf(cur, pos)
    /\ pos' = ChunkLow - 1
    /\ UNCHANGED <<pc, head, fc, crashes, faults>>

\* The downloader finds that the tip's chain does not reach our head and
\* yields DownloadError::HeaderValidation: StageError::Validation at the
\* checkpoint.
HeadersTipMismatch ==
    /\ pc = "stream"
    /\ \/ pos <= Number[head] /\ nxt # head
       \/ /\ pos >= Number[head] + 1
          /\ ChunkLow = Number[head] + 1
          /\ \E c \in ChunkOf(ChunkLow, pos, nxt) : Parent[c[ChunkLow]] # head
    /\ PipelineUnwind(db.progress)
    /\ UNCHANGED <<fc, crashes, faults>>

\* A chunk carries DownloadError::Timeout or another request error:
\* StageError::Recoverable, and the pipeline runs the stage again.
HeadersRecoverableError ==
    /\ pc = "stream"
    /\ ~Exhausted
    /\ faults < MaxFaults
    /\ faults' = faults + 1
    /\ pc' = "start"
    /\ ResetLocals
    /\ UNCHANGED <<db, fc, crashes>>

\* A chunk carries DownloadError::HeaderValidation from a bad peer.
HeadersValidationError ==
    /\ pc = "stream"
    /\ ~Exhausted
    /\ faults < MaxFaults
    /\ faults' = faults + 1
    /\ PipelineUnwind(db.progress)
    /\ UNCHANGED <<fc, crashes>>

\* The stream ends: write_td, the output stage_progress, and the pipeline's
\* save of the checkpoint and commit.
HeadersDone ==
    /\ pc = "stream"
    /\ Exhausted
    /\ TDPassSucceeds(db, head)
    /\ \E last \in Nums :
          /\ IsLastCanonical(db, last)
          /\ db' = [db EXCEPT !.td = WriteTD(db, head),
                              !.progress = MaxOf(cur, last)]
    /\ pc' = "start"
    /\ ResetLocals
    /\ UNCHANGED <<fc, crashes, faults>>

\* The process stops at an await point; on restart the pipeline begins
\* again from the first stage with the committed tables.
Crash ==
    /\ pc \in {"waitfc", "stream"}
    /\ crashes < MaxCrashes
    /\ crashes' = crashes + 1
    /\ pc' = "start"
    /\ ResetLocals
    /\ UNCHANGED <<db, fc, faults>>

\* The consensus client publishes a forkchoice state.
ForkchoiceUpdated(h) ==
    /\ fc' = h
    /\ UNCHANGED <<db, pc, head, nxt, pos, cur, crashes, faults>>

Init ==
    /\ db = [canonical |-> [n \in Nums |-> IF n = 0 THEN Genesis ELSE NoHash],
             numbers   |-> {Genesis},
             headers   |-> {Genesis},
             td        |-> [h \in Hash |-> IF h = Genesis THEN {} ELSE NoTD],
             progress  |-> 0]
    /\ pc = "start"
    /\ head = Genesis
    /\ nxt = Genesis
    /\ pos = 0
    /\ cur = 0
    /\ fc = NoHash
    /\ crashes = 0
    /\ faults = 0

Next ==
    \/ HeadersAwaitTip
    \/ HeadersGapTip
    \/ HeadersNoWork
    \/ HeadersForkchoiceTip
    \/ HeadersChunk
    \/ HeadersTipMismatch
    \/ HeadersRecoverableError
    \/ HeadersValidationError
    \/ HeadersDone
    \/ Crash
    \/ \E h \in FcHeads : ForkchoiceUpdated(h)

Spec == Init /\ [][Next]_vars

\* The pipeline loops over its stages and runs the Headers stage again
\* whenever it returns, and the downloader answers every request (its
\* timeouts and bad peers are the bounded faults): a step of the stage that
\* stays enabled is taken.  Crashes, faults and forkchoice updates are the
\* environment's and get no fairness.
HeadersStep ==
    \/ HeadersAwaitTip
    \/ HeadersGapTip
    \/ HeadersNoWork
    \/ HeadersForkchoiceTip
    \/ HeadersChunk
    \/ HeadersTipMismatch
    \/ HeadersDone

FairSpec == Spec /\ WF_vars(HeadersStep)

-----------------------------------------------------------------------------
(* The abstract specification the stage implements.                       *)

\* The canonical headers up to the checkpoint.
CanonicalPrefix == [n \in Nums |-> IF n <= db.progress THEN db.canonical[n] ELSE NoHash]

Abs == INSTANCE CanonicalChain WITH chain <- CanonicalPrefix, top <- db.progress

-----------------------------------------------------------------------------
(* Properties.                                                             *)

\* Spec 3, invariant 1: every CanonicalHeaders(n) = h has its Headers((n, h))
\* and HeaderNumbers(h) = n entries, and neither table holds a header that is
\* not canonical, across chunk commits, crashes, retries and unwinds.
HeaderTablesConsistent ==
    LET C == {db.canonical[n] : n \in Nums} \ {NoHash} IN
    /\ \A n \in Nums : db.canonical[n] # NoHash => Number[db.canonical[n]] = n
    /\ db.headers = C
    /\ db.numbers = C

\* The canonical headers up to the Headers checkpoint have no gap, and any
\* two adjacent canonical headers are parent and child.
CanonicalChainLinked ==
    /\ \A n \in 0..db.progress : db.canonical[n] # NoHash
    /\ \A n \in 1..MaxNumber :
          db.canonical[n] # NoHash /\ db.canonical[n - 1] # NoHash
             => Parent[db.canonical[n]] = db.canonical[n - 1]

\* Spec 3, invariant 2: HeaderTD of a canonical header at or below the
\* checkpoint is its parent's TD plus its own difficulty, the genesis TD is
\* the given one, and HeaderTD holds nothing else.
TotalDifficultyConsistent ==
    /\ db.td[Genesis] = {}
    /\ \A n \in 1..db.progress :
          LET h == db.canonical[n] IN
          /\ h # NoHash
          /\ db.td[Parent[h]] # NoTD
          /\ db.td[h] = db.td[Parent[h]] \cup {h}
    /\ \A h \in Hash :
          db.td[h] # NoTD => Number[h] <= db.progress /\ db.canonical[Number[h]] = h

\* The stage never fails with DatabaseIntegrity or an append error: when the
\* pipeline starts it, its lookups of the checkpoint succeed, and when the
\* stream ends, write_td finds the head's TD and can append every entry.
NoDatabaseError ==
    /\ pc = "start" => StartReadsSucceed(db)
    /\ (pc = "stream" /\ Exhausted) => TDPassSucceeds(db, head)

\* execute_timeout and execute_download_error: after a Recoverable error the
\* test runner checks that no header entry lies above the input's
\* stage_progress.
RecoverableErrorLeavesNoEntry ==
    [][HeadersRecoverableError => NoHeaderEntryAbove(db', db.progress)]_vars

\* The Headers stage implements CanonicalChain: whatever the interleaving
\* of chunk commits, crashes, retries, forkchoice updates and unwinds, the
\* committed canonical headers up to the checkpoint only grow by a segment
\* linked to the old checkpoint or are cut back to a prefix.
HeadersImplementsChain == Abs!Spec

\* Spec 5: a stage is re-entrant at every commit boundary, so a restart never
\* leaves the Headers stage failing with StageProgress.
HeadersReentrant == pc # "stageProgress"

\* Liveness of the wait for a tip and of the stream (next_fork_choice_state,
\* the download loop and the pipeline's unwinds on a mismatched tip): if the
\* consensus client's head settles on h, the stage ends with h as the
\* canonical header at its checkpoint and keeps it, unless it has stopped
\* with StageProgress.
SyncsToStableTip ==
    \A h \in FcHeads :
        <>[](fc = h) => <>[](pc = "stageProgress" \/ db.canonical[db.progress] = h)
==============================================================================
