------------------------- MODULE HeadersStage_proofs -------------------------
(***************************************************************************)
(* Proofs about the Headers stage model, for every chain, commit threshold *)
(* and bound on crashes and faults.                                        *)
(*                                                                         *)
(* HeaderTablesConsistent is not inductive by itself: a chunk commit       *)
(* overwrites CanonicalHeaders at the numbers it writes, and only the      *)
(* facts that those numbers were empty and that the head is the canonical *)
(* header at the checkpoint make the three tables agree again.  IInv adds  *)
(* them: while the task waits for a forkchoice tip nothing is canonical    *)
(* above the checkpoint, and while it streams nothing is canonical between *)
(* the checkpoint and the next header the stream yields.                   *)
(***************************************************************************)
EXTENDS HeadersStage, TLAPS

\* The head read by get_head_and_tip is the canonical header at the
\* checkpoint, and the numbers the stream will write are still empty.
StreamWindow ==
    /\ pc \in {"waitfc", "stream"} => db.canonical[db.progress] = head
    /\ pc = "waitfc" =>
          \A n \in Nums : n > db.progress => db.canonical[n] = NoHash
    /\ pc = "stream" =>
          \A n \in Nums : db.progress < n /\ n <= pos => db.canonical[n] = NoHash

IInv ==
    /\ TypeOK
    /\ HeaderTablesConsistent
    /\ StreamWindow

USE ChainAssumption, HeadersAssumption

-----------------------------------------------------------------------------
(* The initial state: the genesis alone is canonical.                      *)

\* The empty database with the genesis preloaded satisfies IInv.
LEMMA InitIInv == Init => IInv
<1> SUFFICES ASSUME Init PROVE IInv
  OBVIOUS
<1>1. TypeOK
  BY DEF Init, TypeOK, Tables, TotalDifficulty, Nums
<1>2. HeaderTablesConsistent
  <2>1. {db.canonical[n] : n \in Nums} \ {NoHash} = {Genesis}
    BY DEF Init, Nums
  <2>2. QED
    BY <2>1 DEF Init, HeaderTablesConsistent, Nums
<1>3. StreamWindow
  BY DEF Init, StreamWindow
<1>4. QED
  BY <1>1, <1>2, <1>3 DEF IInv
-----------------------------------------------------------------------------
(* Steps that do not write the database.                                   *)

\* A step that keeps db and returns the task to "start" or leaves it where
\* it is preserves the tables' consistency and the window.
LEMMA RestartIInv ==
    ASSUME IInv, UNCHANGED db, pc' \in {"start", "stageProgress"},
           head' \in Hash, nxt' \in Hash, pos' \in Nums, cur' \in Nums,
           fc' \in Hash \cup {NoHash}, crashes' \in 0..MaxCrashes,
           faults' \in 0..MaxFaults
    PROVE  IInv'
BY DEF IInv, TypeOK, HeaderTablesConsistent, StreamWindow

\* The pipeline's restart of the task resets its locals to typed values.
LEMMA ResetLocalsTyped ==
    ASSUME ResetLocals
    PROVE  head' \in Hash /\ nxt' \in Hash /\ pos' \in Nums /\ cur' \in Nums
BY DEF ResetLocals, Nums

\* A crash at an await point keeps the committed tables.
LEMMA CrashIInv == IInv /\ Crash => IInv'
BY ResetLocalsTyped, RestartIInv DEF Crash, IInv, TypeOK

\* StageError::Recoverable reruns the stage on the committed tables.
LEMMA RecoverableErrorIInv == IInv /\ HeadersRecoverableError => IInv'
BY ResetLocalsTyped, RestartIInv DEF HeadersRecoverableError, IInv, TypeOK

\* StageError::StageProgress writes nothing.
LEMMA NoWorkIInv == IInv /\ HeadersNoWork => IInv'
BY RestartIInv DEF HeadersNoWork, IInv, TypeOK

\* A forkchoice update only changes the watch channel.
LEMMA ForkchoiceUpdatedIInv ==
    ASSUME IInv, NEW h \in FcHeads, ForkchoiceUpdated(h)
    PROVE  IInv'
BY DEF ForkchoiceUpdated, IInv, TypeOK, HeaderTablesConsistent, StreamWindow

\* The canonical header at the checkpoint exists whenever the stage starts.
LEMMA AwaitTipIInv == IInv /\ HeadersAwaitTip => IInv'
<1> SUFFICES ASSUME IInv, HeadersAwaitTip PROVE IInv'
  OBVIOUS
<1>1. db.canonical[db.progress] \in Hash
  BY DEF HeadersAwaitTip, StartReadsSucceed, IInv, TypeOK, Tables
<1>2. TypeOK'
  BY <1>1 DEF HeadersAwaitTip, IInv, TypeOK, Tables
<1>3. StreamWindow'
  BY DEF HeadersAwaitTip, CanonicalAbove, StreamWindow, IInv, TypeOK, Tables
<1>4. QED
  BY <1>2, <1>3 DEF HeadersAwaitTip, IInv, HeaderTablesConsistent

\* The gap's top is the lowest canonical key above the checkpoint, so the
\* numbers below it are empty; its parent exists because it is not the
\* genesis.
LEMMA GapTipIInv == IInv /\ HeadersGapTip => IInv'
<1> SUFFICES ASSUME IInv, HeadersGapTip PROVE IInv'
  OBVIOUS
<1> USE DEF IInv, TypeOK, Tables
<1>1. PICK k \in CanonicalAbove(db, db.progress) :
          /\ \A j \in CanonicalAbove(db, db.progress) : k <= j
          /\ nxt' = Parent[db.canonical[k]]
          /\ pos' = k - 1
  BY DEF HeadersGapTip
<1>2. k \in Nums /\ k > db.progress /\ db.canonical[k] \in Hash
  BY <1>1 DEF CanonicalAbove
<1>3. Number[db.canonical[k]] = k
  BY <1>2 DEF HeaderTablesConsistent
<1>4. db.canonical[k] # Genesis
  BY <1>2, <1>3 DEF Nums
<1>5. nxt' \in Hash
  <2>1. db.canonical[k] \in Hash \ {Genesis}
    BY <1>2, <1>4
  <2>2. QED
    BY <1>1, <2>1
<1>6. pos' \in Nums
  BY <1>1, <1>2 DEF Nums
<1>7. db.canonical[db.progress] \in Hash
  BY DEF HeadersGapTip, StartReadsSucceed
<1>8. TypeOK'
  BY <1>5, <1>6, <1>7 DEF HeadersGapTip
<1>9. StreamWindow'
  <2> SUFFICES ASSUME NEW n \in Nums, db.progress < n, n <= k - 1
               PROVE  db.canonical[n] = NoHash
    BY <1>1 DEF HeadersGapTip, StreamWindow
  <2>1. n \notin CanonicalAbove(db, db.progress)
    BY <1>1, <1>2 DEF Nums
  <2>2. QED
    BY <2>1 DEF CanonicalAbove
<1>10. QED
  BY <1>8, <1>9 DEF HeadersGapTip, HeaderTablesConsistent

\* The forkchoice tip's number bounds the window, which is empty above the
\* checkpoint while the task waits.
LEMMA ForkchoiceTipIInv == IInv /\ HeadersForkchoiceTip => IInv'
<1> SUFFICES ASSUME IInv, HeadersForkchoiceTip PROVE IInv'
  OBVIOUS
<1>1. TypeOK'
  BY DEF HeadersForkchoiceTip, IInv, TypeOK
<1>2. StreamWindow'
  BY DEF HeadersForkchoiceTip, IInv, StreamWindow
<1>3. QED
  BY <1>1, <1>2 DEF HeadersForkchoiceTip, IInv, HeaderTablesConsistent
-----------------------------------------------------------------------------
(* The unwind of the pipeline.                                             *)

\* block - 1, saturated at 0, is a block number.
LEMMA UnwindTargetInNums ==
    ASSUME NEW b \in Nums PROVE UnwindTarget(b) \in Nums
BY DEF UnwindTarget, Nums

\* Headers::unwind deletes by number from CanonicalHeaders and Headers and,
\* through the walker from unwind_to + 1, exactly the HeaderNumbers entries
\* of the deleted canonical headers: the three tables still agree.
LEMMA HeadersUnwindConsistent ==
    ASSUME TypeOK, HeaderTablesConsistent, NEW u \in Nums,
           db' = HeadersUnwind(db, u)
    PROVE  db' \in Tables /\ HeaderTablesConsistent'
<1> DEFINE C == {db.canonical[n] : n \in Nums} \ {NoHash}
           C2 == {db'.canonical[n] : n \in Nums} \ {NoHash}
           D == {db.canonical[n] : n \in {k \in Nums : k >= u + 1}}
<1> USE DEF C, C2, D
<1>0. db \in Tables /\ u \in Nat
  BY DEF TypeOK, Nums
<1>1. db'.canonical = [n \in Nums |-> IF n > u THEN NoHash ELSE db.canonical[n]]
      /\ db'.numbers = db.numbers \ D
      /\ db'.headers = {h \in db.headers : Number[h] <= u}
      /\ db'.td = [h \in Hash |-> IF Number[h] > u THEN NoTD ELSE db.td[h]]
      /\ db'.progress = u
  BY <1>0 DEF Tables, HeadersUnwind, UnwindByWalker, UnwindCanonicalByNum,
         UnwindHeadersByNumHash, UnwindTDByNumHash
<1>2. db' \in Tables
  <2>1. db'.canonical \in [Nums -> Hash \cup {NoHash}]
    BY <1>0, <1>1 DEF Tables
  <2>2. db'.numbers \in SUBSET Hash /\ db'.headers \in SUBSET Hash
    BY <1>0, <1>1 DEF Tables
  <2>3. db'.td \in [Hash -> TotalDifficulty \cup {NoTD}]
    BY <1>0, <1>1 DEF Tables
  <2>4. db' = [canonical |-> db'.canonical, numbers |-> db'.numbers,
               headers |-> db'.headers, td |-> db'.td, progress |-> db'.progress]
    BY <1>0 DEF Tables, HeadersUnwind
  <2>5. QED
    BY <2>1, <2>2, <2>3, <2>4, <1>1 DEF Tables
<1>3. \A n \in Nums : db'.canonical[n] # NoHash => Number[db'.canonical[n]] = n
  BY <1>1 DEF HeaderTablesConsistent
<1>4. C2 = {h \in C : Number[h] <= u}
  <2>1. ASSUME NEW h \in C2 PROVE h \in C /\ Number[h] <= u
    <3>1. PICK n \in Nums : db'.canonical[n] = h /\ h # NoHash
      OBVIOUS
    <3>2. n <= u /\ db.canonical[n] = h
      BY <3>1, <1>1, <1>0 DEF Nums
    <3>3. QED
      BY <3>1, <3>2 DEF HeaderTablesConsistent
  <2>2. ASSUME NEW h \in C, Number[h] <= u PROVE h \in C2
    <3>1. PICK n \in Nums : db.canonical[n] = h /\ h # NoHash
      OBVIOUS
    <3>2. n <= u
      BY <3>1, <2>2 DEF HeaderTablesConsistent
    <3>3. db'.canonical[n] = h
      BY <1>1, <3>1, <3>2, <1>0 DEF Nums
    <3>4. QED
      BY <3>1, <3>3
  <2>3. QED
    BY <2>1, <2>2
<1>5. db'.headers = C2
  BY <1>1, <1>4 DEF HeaderTablesConsistent
<1>6. db'.numbers = C2
  <2>1. db'.numbers = C \ D
    BY <1>1 DEF HeaderTablesConsistent
  <2>2. ASSUME NEW h \in C \ D PROVE h \in C2
    <3>1. PICK n \in Nums : db.canonical[n] = h /\ h # NoHash
      OBVIOUS
    <3>2. Number[h] = n
      BY <3>1 DEF HeaderTablesConsistent
    <3>3. n <= u
      <4>1. ~(n \in {k \in Nums : k >= u + 1})
        BY <3>1
      <4>2. QED
        BY <4>1, <1>0 DEF Nums
    <3>4. h \in C /\ Number[h] <= u
      BY <3>1, <3>2, <3>3
    <3>5. QED
      BY <3>4, <1>4
  <2>3. ASSUME NEW h \in C2 PROVE h \in C \ D
    <3>1. h \in C /\ Number[h] <= u
      BY <1>4
    <3>2. ASSUME NEW n \in Nums, n >= u + 1, db.canonical[n] = h PROVE FALSE
      <4>1. h # NoHash
        BY <3>1
      <4>2. Number[h] = n
        BY <4>1, <3>2 DEF HeaderTablesConsistent
      <4>3. n \in Nat
        BY DEF Nums
      <4>4. QED
        BY <4>2, <4>3, <3>1, <3>2, <1>0
    <3>3. h \notin D
      <4>1. SUFFICES ASSUME NEW n \in {k \in Nums : k >= u + 1},
                            db.canonical[n] = h
                     PROVE  FALSE
        OBVIOUS
      <4>2. QED
        BY <4>1, <3>2
    <3>4. QED
      BY <3>1, <3>3
  <2>4. QED
    BY <2>1, <2>2, <2>3
<1>7. QED
  BY <1>2, <1>3, <1>5, <1>6 DEF HeaderTablesConsistent

\* The pipeline's unwind after a validation error returns to "start".
LEMMA PipelineUnwindIInv ==
    ASSUME IInv, NEW b \in Nums, PipelineUnwind(b),
           UNCHANGED <<fc, crashes>>, faults' \in 0..MaxFaults
    PROVE  IInv'
<1>1. UnwindTarget(b) \in Nums
  BY UnwindTargetInNums
<1>2. db' \in Tables /\ HeaderTablesConsistent'
  BY <1>1, HeadersUnwindConsistent DEF PipelineUnwind, IInv
<1>3. TypeOK'
  BY <1>2, ResetLocalsTyped DEF PipelineUnwind, IInv, TypeOK
<1>4. StreamWindow'
  BY DEF PipelineUnwind, StreamWindow
<1>5. QED
  BY <1>2, <1>3, <1>4 DEF IInv

\* HeaderValidation at the bottom link unwinds to below the checkpoint.
LEMMA TipMismatchIInv == IInv /\ HeadersTipMismatch => IInv'
BY PipelineUnwindIInv DEF HeadersTipMismatch, IInv, TypeOK, Tables

\* HeaderValidation from a bad peer unwinds to below the checkpoint.
LEMMA ValidationErrorIInv == IInv /\ HeadersValidationError => IInv'
BY PipelineUnwindIInv DEF HeadersValidationError, IInv, TypeOK, Tables
-----------------------------------------------------------------------------
(* A chunk commit.                                                         *)

\* While streaming, the head is at the checkpoint's number, so the chunk's
\* lowest number is above the checkpoint and not above the next header.
LEMMA ChunkLowBounds ==
    ASSUME IInv, pc = "stream", pos >= Number[head] + 1
    PROVE  /\ Number[head] = db.progress
           /\ ChunkLow \in Nums
           /\ db.progress < ChunkLow
           /\ ChunkLow <= pos
<1> USE DEF IInv, TypeOK, Tables, Nums
<1>1. Number[head] = db.progress
  BY DEF StreamWindow, HeaderTablesConsistent
<1>2. QED
  BY <1>1 DEF ChunkLow, MaxOf

\* write_headers fills numbers that were empty, so the chunk's headers join
\* the three tables together and nothing canonical is overwritten.
LEMMA ChunkIInv == IInv /\ HeadersChunk => IInv'
<1> SUFFICES ASSUME IInv, HeadersChunk PROVE IInv'
  OBVIOUS
<1> USE DEF IInv, TypeOK, Tables
<1> DEFINE L == ChunkLow
<1>1. Number[head] = db.progress /\ L \in Nums /\ db.progress < L /\ L <= pos
  BY ChunkLowBounds DEF HeadersChunk
<1>2. PICK c \in ChunkOf(L, pos, nxt) :
          /\ db' = WriteHeaders(db, c)
          /\ nxt' = Parent[c[L]]
  BY DEF HeadersChunk
<1>3. /\ c \in [L..pos -> Hash]
      /\ \A n \in L..pos : Number[c[n]] = n
  BY <1>2 DEF ChunkOf
<1>4. /\ db'.canonical = [n \in Nums |-> IF n \in L..pos THEN c[n] ELSE db.canonical[n]]
      /\ db'.numbers = db.numbers \cup {c[n] : n \in L..pos}
      /\ db'.headers = db.headers \cup {c[n] : n \in L..pos}
      /\ db'.td = db.td
      /\ db'.progress = db.progress
  <2>1. {n \in DOMAIN c : n # 0} = L..pos
    BY <1>1, <1>3 DEF Nums
  <2>2. QED
    BY <1>2, <2>1 DEF WriteHeaders
<1>5. L..pos \subseteq Nums
  BY <1>1 DEF Nums
<1>6. db' \in Tables
  <2>1. db' = [canonical |-> db'.canonical, numbers |-> db'.numbers,
               headers |-> db'.headers, td |-> db'.td, progress |-> db'.progress]
    BY <1>2 DEF WriteHeaders
  <2>2. db'.canonical \in [Nums -> Hash \cup {NoHash}]
    BY <1>3, <1>4, <1>5
  <2>3. {c[n] : n \in L..pos} \subseteq Hash
    BY <1>3
  <2>4. db'.numbers \in SUBSET Hash /\ db'.headers \in SUBSET Hash
    BY <1>4, <2>3
  <2>5. QED
    BY <1>4, <2>1, <2>2, <2>4
<1>7. nxt' \in Hash
  <2>1. c[L] \in Hash \ {Genesis}
    BY <1>1, <1>3 DEF Nums
  <2>2. QED
    BY <1>2, <2>1
<1>8. pos' \in Nums /\ cur' \in Nums
  BY <1>1 DEF HeadersChunk, MaxOf, Nums
<1>9. TypeOK'
  BY <1>6, <1>7, <1>8 DEF HeadersChunk
<1>10. \A n \in L..pos : db.canonical[n] = NoHash
  <2>1. pc = "stream"
    BY DEF HeadersChunk
  <2>2. \A n \in Nums : db.progress < n /\ n <= pos => db.canonical[n] = NoHash
    BY <2>1 DEF StreamWindow
  <2>3. QED
    BY <1>1, <1>5, <2>2 DEF Nums
<1>11. HeaderTablesConsistent'
  <2> DEFINE C == {db.canonical[n] : n \in Nums} \ {NoHash}
             C2 == {db'.canonical[n] : n \in Nums} \ {NoHash}
             W == {c[n] : n \in L..pos}
  <2>1. \A n \in Nums : db'.canonical[n] # NoHash => Number[db'.canonical[n]] = n
    BY <1>3, <1>4 DEF HeaderTablesConsistent
  <2>2. C2 = C \cup W
    <3>1. ASSUME NEW h \in C2 PROVE h \in C \cup W
      BY <1>4
    <3>2. ASSUME NEW h \in C PROVE h \in C2
      <4>1. PICK n \in Nums : db.canonical[n] = h /\ h # NoHash
        OBVIOUS
      <4>2. n \notin L..pos
        BY <4>1, <1>10
      <4>3. QED
        BY <4>1, <4>2, <1>4
    <3>3. ASSUME NEW h \in W PROVE h \in C2
      <4>1. PICK n \in L..pos : c[n] = h
        OBVIOUS
      <4>2. QED
        BY <4>1, <1>3, <1>4, <1>5
    <3>4. QED
      BY <3>1, <3>2, <3>3
  <2>3. QED
    BY <2>1, <2>2, <1>4 DEF HeaderTablesConsistent
<1>12. StreamWindow'
  <2>1. db'.canonical[db'.progress] = head'
    BY <1>1, <1>4, <1>5 DEF HeadersChunk, StreamWindow, Nums
  <2>2. ASSUME NEW n \in Nums, db'.progress < n, n <= pos'
        PROVE  db'.canonical[n] = NoHash
    BY <1>1, <1>4, <2>2 DEF HeadersChunk, StreamWindow, Nums
  <2>3. QED
    BY <2>1, <2>2 DEF HeadersChunk, StreamWindow
<1>13. QED
  BY <1>9, <1>11, <1>12

-----------------------------------------------------------------------------
(* The total difficulty pass and the checkpoint.                           *)

\* write_td extends the head's TD, which exists, by walked headers only.
LEMMA WriteTDTyped ==
    ASSUME TypeOK, TDPassSucceeds(db, head)
    PROVE  WriteTD(db, head) \in [Hash -> TotalDifficulty \cup {NoTD}]
<1> USE DEF TypeOK, Tables
<1>1. db.td[head] \in TotalDifficulty
  BY DEF TDPassSucceeds
<1>2. TDWalk(db, head) \subseteq Hash
  BY DEF TDWalk
<1>3. QED
  BY <1>1, <1>2 DEF WriteTD, TotalDifficulty

\* write_td and the checkpoint leave the three header tables alone.
LEMMA DoneIInv == IInv /\ HeadersDone => IInv'
<1> SUFFICES ASSUME IInv, HeadersDone PROVE IInv'
  OBVIOUS
<1> USE DEF IInv, TypeOK, Tables
<1>1. PICK last \in Nums :
          db' = [db EXCEPT !.td = WriteTD(db, head), !.progress = MaxOf(cur, last)]
  BY DEF HeadersDone
<1>2. WriteTD(db, head) \in [Hash -> TotalDifficulty \cup {NoTD}]
  BY WriteTDTyped DEF HeadersDone
<1>3. db' \in Tables
  BY <1>1, <1>2 DEF MaxOf
<1>4. TypeOK'
  BY <1>3, ResetLocalsTyped DEF HeadersDone
<1>5. HeaderTablesConsistent'
  BY <1>1 DEF HeaderTablesConsistent
<1>6. StreamWindow'
  BY DEF HeadersDone, StreamWindow
<1>7. QED
  BY <1>4, <1>5, <1>6
-----------------------------------------------------------------------------
(* The invariants of the specification.                                    *)

\* Every step of the stage, the pipeline and the environment keeps IInv.
LEMMA NextIInv == IInv /\ [Next]_vars => IInv'
<1> SUFFICES ASSUME IInv, [Next]_vars PROVE IInv'
  OBVIOUS
<1>1. CASE HeadersAwaitTip
  BY <1>1, AwaitTipIInv
<1>2. CASE HeadersGapTip
  BY <1>2, GapTipIInv
<1>3. CASE HeadersNoWork
  BY <1>3, NoWorkIInv
<1>4. CASE HeadersForkchoiceTip
  BY <1>4, ForkchoiceTipIInv
<1>5. CASE HeadersChunk
  BY <1>5, ChunkIInv
<1>6. CASE HeadersTipMismatch
  BY <1>6, TipMismatchIInv
<1>7. CASE HeadersRecoverableError
  BY <1>7, RecoverableErrorIInv
<1>8. CASE HeadersValidationError
  BY <1>8, ValidationErrorIInv
<1>9. CASE HeadersDone
  BY <1>9, DoneIInv
<1>10. CASE Crash
  BY <1>10, CrashIInv
<1>11. CASE \E h \in FcHeads : ForkchoiceUpdated(h)
  BY <1>11, ForkchoiceUpdatedIInv
<1>12. CASE UNCHANGED vars
  BY <1>12 DEF vars, IInv, TypeOK, HeaderTablesConsistent, StreamWindow
<1>13. QED
  BY <1>1, <1>2, <1>3, <1>4, <1>5, <1>6, <1>7, <1>8, <1>9, <1>10, <1>11,
     <1>12 DEF Next

\* IInv holds in every reachable state of the Headers stage under crashes,
\* retries, forkchoice updates and unwinds.
THEOREM IInvInvariant == Spec => []IInv
BY InitIInv, NextIInv, PTL DEF Spec

\* Every committed table, the task's locals and the counters stay in their
\* types (TypeOK): in particular the stream's next number and the unwind
\* target never leave the block numbers, and every HeaderTD entry is a TD.
THEOREM TypeCorrect == Spec => []TypeOK
BY IInvInvariant, PTL DEF IInv

\* For every chain and commit threshold, CanonicalHeaders, Headers and
\* HeaderNumbers hold the same headers at their own numbers after any
\* sequence of chunk commits, crashes, retries and unwinds
\* (HeaderTablesConsistent, spec 3 invariant 1).
THEOREM HeaderTablesInvariant == Spec => []HeaderTablesConsistent
BY IInvInvariant, PTL DEF IInv
==============================================================================
