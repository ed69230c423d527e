---------------------- MODULE HeadersRefinement_proofs ----------------------
(***************************************************************************)
(* Proof that the Headers stage implements CanonicalChain under the       *)
(* mapping chain <- CanonicalPrefix, top <- db.progress.                   *)
(*                                                                         *)
(* The step to argue about is the end of the stream, which moves the      *)
(* checkpoint to the last canonical key: every number between the old and *)
(* the new checkpoint must be canonical and linked to the one below.  The *)
(* chunks that put them there were committed one at a time, possibly by  *)
(* several runs of the stage between crashes and retries, so RInv says    *)
(* what the canonical table looks like above the checkpoint between any   *)
(* two steps: the entries above the lowest one are contiguous, adjacent   *)
(* entries are parent and child, and while streaming everything from the  *)
(* next header up is filled and hangs from that header.                   *)
(***************************************************************************)
EXTENDS HeadersStage_proofs

\* Every number up to the checkpoint is canonical.
BelowCheckpointFilled ==
    \A n \in Nums : n <= db.progress => db.canonical[n] # NoHash

\* Any two adjacent canonical headers are parent and child.
AdjacentLinked ==
    \A n \in Nums :
        n >= 1 /\ db.canonical[n] # NoHash /\ db.canonical[n - 1] # NoHash
            => Parent[db.canonical[n]] = db.canonical[n - 1]

\* Above the checkpoint, the canonical keys between two canonical keys are
\* canonical: the only hole is the gap below the lowest one.
NoHolesAbove ==
    \A j, m, n \in Nums :
        /\ db.progress < j /\ j <= m /\ m <= n
        /\ db.canonical[j] # NoHash /\ db.canonical[n] # NoHash
        => db.canonical[m] # NoHash

\* While streaming: every number above pos up to a canonical key is
\* canonical, the header above pos hangs from nxt once pos has reached the
\* head, and the stream has not passed below the head when it expects it.
StreamSegment ==
    pc = "stream" =>
        /\ \A m, n \in Nums :
              pos < m /\ m <= n /\ db.canonical[n] # NoHash
                  => db.canonical[m] # NoHash
        /\ pos >= Number[head] /\ pos + 1 \in Nums
              /\ db.canonical[pos + 1] # NoHash
              => Parent[db.canonical[pos + 1]] = nxt
        /\ nxt = head => pos >= Number[head]

\* current_progress is a canonical key.
CurCanonical == pc \in {"waitfc", "stream"} => db.canonical[cur] # NoHash

ChainInv ==
    /\ BelowCheckpointFilled
    /\ AdjacentLinked
    /\ NoHolesAbove
    /\ StreamSegment
    /\ CurCanonical

RInv == IInv /\ ChainInv

USE ChainAssumption, HeadersAssumption
-----------------------------------------------------------------------------
(* Steps that keep the canonical table.                                    *)

\* A step that keeps db and leaves the stream preserves ChainInv.
LEMMA KeepDbChain ==
    ASSUME ChainInv, UNCHANGED db, pc' \notin {"waitfc", "stream"}
    PROVE  ChainInv'
BY DEF ChainInv, BelowCheckpointFilled, AdjacentLinked, NoHolesAbove,
       StreamSegment, CurCanonical

\* A forkchoice update changes nothing ChainInv reads.
LEMMA ForkchoiceUpdatedChain ==
    ASSUME ChainInv, NEW h \in FcHeads, ForkchoiceUpdated(h)
    PROVE  ChainInv'
BY DEF ForkchoiceUpdated, ChainInv, BelowCheckpointFilled, AdjacentLinked,
       NoHolesAbove, StreamSegment, CurCanonical

\* Waiting for a tip starts from the checkpoint, which is canonical.
LEMMA AwaitTipChain == RInv /\ HeadersAwaitTip => ChainInv'
<1> SUFFICES ASSUME RInv, HeadersAwaitTip PROVE ChainInv'
  OBVIOUS
<1>1. db.canonical[db.progress] # NoHash
  BY DEF HeadersAwaitTip, StartReadsSucceed
<1>2. CurCanonical'
  BY <1>1 DEF HeadersAwaitTip, CurCanonical
<1>3. QED
  BY <1>2 DEF HeadersAwaitTip, RInv, ChainInv, BelowCheckpointFilled,
     AdjacentLinked, NoHolesAbove, StreamSegment

\* The gap's top k is the lowest canonical key above the checkpoint: the
\* canonical keys above it are contiguous up to the last, and it hangs from
\* the gap's tip, nxt.
LEMMA GapTipChain == RInv /\ HeadersGapTip => ChainInv'
<1> SUFFICES ASSUME RInv, HeadersGapTip PROVE ChainInv'
  OBVIOUS
<1> USE DEF RInv, IInv, TypeOK, Tables
<1>1. PICK k \in CanonicalAbove(db, db.progress) :
          /\ \A j \in CanonicalAbove(db, db.progress) : k <= j
          /\ nxt' = Parent[db.canonical[k]]
          /\ pos' = k - 1
  BY DEF HeadersGapTip
<1>2. k \in Nums /\ k > db.progress /\ db.canonical[k] # NoHash
  BY <1>1 DEF CanonicalAbove
<1>3. head' = db.canonical[db.progress] /\ db.canonical[db.progress] # NoHash
  BY DEF HeadersGapTip, StartReadsSucceed
<1>4. Number[head'] = db.progress
  BY <1>3 DEF HeaderTablesConsistent
<1>5. ASSUME NEW m \in Nums, NEW n \in Nums, pos' < m, m <= n,
             db.canonical[n] # NoHash
      PROVE  db.canonical[m] # NoHash
  BY <1>1, <1>2, <1>5 DEF ChainInv, NoHolesAbove, Nums
<1>6. pos' >= Number[head'] /\ pos' + 1 \in Nums /\ db.canonical[pos' + 1] # NoHash
         => Parent[db.canonical[pos' + 1]] = nxt'
  BY <1>1, <1>2 DEF Nums
<1>7. pos' >= Number[head']
  BY <1>1, <1>2, <1>4 DEF Nums
<1>8. StreamSegment'
  BY <1>5, <1>6, <1>7 DEF HeadersGapTip, StreamSegment
<1>9. CurCanonical'
  BY <1>3 DEF HeadersGapTip, CurCanonical
<1>10. QED
  BY <1>8, <1>9 DEF HeadersGapTip, ChainInv, BelowCheckpointFilled,
     AdjacentLinked, NoHolesAbove

\* While the task waits nothing is canonical above the checkpoint, so the
\* forkchoice tip's number bounds nothing but filled numbers below it.
LEMMA ForkchoiceTipChain == RInv /\ HeadersForkchoiceTip => ChainInv'
<1> SUFFICES ASSUME RInv, HeadersForkchoiceTip PROVE ChainInv'
  OBVIOUS
<1> USE DEF RInv, IInv, TypeOK, Tables
<1>1. pc = "waitfc" /\ pc' = "stream" /\ pos' = Number[fc] /\ nxt' = fc /\ fc # head
      /\ fc \in Hash
  BY DEF HeadersForkchoiceTip
<1>2. \A n \in Nums : n > db.progress => db.canonical[n] = NoHash
  BY <1>1 DEF StreamWindow
<1>3. Number[head] = db.progress
  <2>1. db.canonical[db.progress] = head /\ head # NoHash
    BY <1>1 DEF StreamWindow
  <2>2. QED
    BY <2>1 DEF HeaderTablesConsistent
<1>4. ASSUME NEW m \in Nums, NEW n \in Nums, pos' < m, m <= n,
             db.canonical[n] # NoHash
      PROVE  db.canonical[m] # NoHash
  <2>1. n <= db.progress
    BY <1>2, <1>4 DEF Nums
  <2>2. QED
    BY <2>1, <1>4 DEF ChainInv, BelowCheckpointFilled, Nums
<1>5. pos' >= Number[head'] /\ pos' + 1 \in Nums /\ db.canonical[pos' + 1] # NoHash
         => Parent[db.canonical[pos' + 1]] = nxt'
  BY <1>1, <1>2, <1>3 DEF HeadersForkchoiceTip, Nums
<1>6. StreamSegment'
  BY <1>1, <1>4, <1>5 DEF HeadersForkchoiceTip, StreamSegment
<1>7. QED
  BY <1>6 DEF HeadersForkchoiceTip, ChainInv, BelowCheckpointFilled,
     AdjacentLinked, NoHolesAbove, CurCanonical
-----------------------------------------------------------------------------
(* A chunk commit.                                                         *)

\* What write_headers of a chunk does to CanonicalHeaders: it fills the
\* numbers from ChunkLow to pos, which were empty, with a linked segment
\* whose top is nxt.
LEMMA ChunkWrite ==
    ASSUME RInv, HeadersChunk
    PROVE  \E c \in [ChunkLow..pos -> Hash] :
              /\ db'.canonical = [n \in Nums |-> IF n \in ChunkLow..pos THEN c[n]
                                                 ELSE db.canonical[n]]
              /\ c[pos] = nxt
              /\ \A n \in ChunkLow..pos : n > ChunkLow => Parent[c[n]] = c[n - 1]
              /\ ChunkLow = Number[head] + 1 => Parent[c[ChunkLow]] = head
              /\ nxt' = Parent[c[ChunkLow]]
<1> USE DEF RInv, IInv, TypeOK, Tables
<1> DEFINE L == ChunkLow
<1> USE DEF L
<1>1. Number[head] = db.progress /\ L \in Nums /\ db.progress < L /\ L <= pos
  BY ChunkLowBounds DEF HeadersChunk
<1>2. PICK c \in ChunkOf(L, pos, nxt) :
          /\ L = Number[head] + 1 => Parent[c[L]] = head
          /\ db' = WriteHeaders(db, c)
          /\ nxt' = Parent[c[L]]
  BY DEF HeadersChunk
<1>3. /\ c \in [L..pos -> Hash]
      /\ c[pos] = nxt
      /\ \A n \in L..pos : n > L => Parent[c[n]] = c[n - 1]
  BY <1>2 DEF ChunkOf
<1>4. {n \in DOMAIN c : n # 0} = L..pos
  BY <1>1, <1>3 DEF Nums
<1>5. db'.canonical = [n \in Nums |-> IF n \in L..pos THEN c[n] ELSE db.canonical[n]]
  BY <1>2, <1>4 DEF WriteHeaders
<1>6. QED
  BY <1>2, <1>3, <1>5

\* A chunk commit fills the top of the window with a segment that hangs
\* from the next header below and, at the head, from the head itself.
LEMMA ChunkChain == RInv /\ HeadersChunk => ChainInv'
<1> SUFFICES ASSUME RInv, HeadersChunk PROVE ChainInv'
  OBVIOUS
<1> USE DEF RInv, IInv, TypeOK, Tables
<1> DEFINE L == ChunkLow
           cn == db.canonical
           cn2 == db'.canonical
<1> USE DEF L, cn, cn2
<1>1. Number[head] = db.progress /\ L \in Nums /\ db.progress < L /\ L <= pos
  BY ChunkLowBounds DEF HeadersChunk
<1>2. PICK c \in [L..pos -> Hash] :
          /\ cn2 = [n \in Nums |-> IF n \in L..pos THEN c[n] ELSE cn[n]]
          /\ c[pos] = nxt
          /\ \A n \in L..pos : n > L => Parent[c[n]] = c[n - 1]
          /\ L = Number[head] + 1 => Parent[c[L]] = head
          /\ nxt' = Parent[c[L]]
  BY ChunkWrite
<1>3. L..pos \subseteq Nums
  BY <1>1 DEF Nums
<1>4. /\ pc = "stream" /\ pc' = "stream" /\ pos' = L - 1 /\ head' = head
      /\ cur' = MaxOf(cur, pos) /\ db'.progress = db.progress
  <2>1. db'.progress = db.progress
    BY DEF HeadersChunk, WriteHeaders
  <2>2. QED
    BY <2>1 DEF HeadersChunk
<1>5. \A n \in Nums : db.progress < n /\ n <= pos => cn[n] = NoHash
  BY <1>4 DEF StreamWindow
<1>6. head = cn[db.progress]
  BY <1>4 DEF StreamWindow
<1>7. \A n \in L..pos : cn2[n] = c[n] /\ c[n] \in Hash
  BY <1>2, <1>3
<1>8. \A n \in Nums : n \notin L..pos => cn2[n] = cn[n]
  BY <1>2
<1>9. \A n \in Nums : cn[n] # NoHash => cn2[n] # NoHash
  BY <1>7, <1>8
<1>10. BelowCheckpointFilled'
  BY <1>4, <1>9 DEF ChainInv, BelowCheckpointFilled
<1>11. AdjacentLinked'
  <2> SUFFICES ASSUME NEW n \in Nums, n >= 1, cn2[n] # NoHash, cn2[n - 1] # NoHash
               PROVE  Parent[cn2[n]] = cn2[n - 1]
    BY DEF AdjacentLinked
  <2>0. n - 1 \in Nums
    BY DEF Nums
  <2>00. L \in Nat /\ pos \in Nat /\ n \in Nat /\ n - 1 \in Nat
    BY <1>1, <2>0 DEF Nums
  <2>1. CASE n \in L..pos /\ n - 1 \in L..pos
    <3>1. n > L
      <4>1. L <= n - 1
        BY <2>1, <2>00
      <4>2. QED
        BY <4>1, <2>00
    <3>2. Parent[c[n]] = c[n - 1]
      BY <3>1, <2>1, <1>2
    <3>3. QED
      BY <3>2, <2>1, <1>7
  <2>2. CASE n \in L..pos /\ n - 1 \notin L..pos
    <3>1. n = L
      <4>1. L <= n /\ (n - 1 < L \/ n - 1 > pos)
        BY <2>2, <2>00
      <4>2. n <= pos
        BY <2>2, <2>00
      <4>3. QED
        BY <4>1, <4>2, <2>00
    <3>2. cn[n - 1] # NoHash
      BY <2>0, <2>2, <1>8
    <3>3. n - 1 = db.progress
      <4>1. db.progress <= n - 1 /\ n - 1 <= pos
        BY <3>1, <1>1 DEF Nums
      <4>2. ~(db.progress < n - 1)
        BY <3>2, <2>0, <4>1, <1>5
      <4>3. QED
        BY <4>1, <4>2, <1>1 DEF Nums
    <3>4. L = Number[head] + 1
      BY <3>1, <3>3, <1>1 DEF Nums
    <3>5. Parent[c[L]] = head
      BY <3>4, <1>2
    <3>6. QED
      BY <3>1, <3>3, <3>5, <1>6, <1>7, <1>8, <2>0, <2>2
  <2>3. CASE n \notin L..pos /\ n - 1 \in L..pos
    <3>1. n = pos + 1 /\ n - 1 = pos
      <4>1. L <= n - 1 /\ n - 1 <= pos
        BY <2>3, <2>00
      <4>2. n < L \/ n > pos
        BY <2>3, <2>00
      <4>3. QED
        BY <4>1, <4>2, <2>00
    <3>2. cn[n] # NoHash
      BY <2>3, <1>8
    <3>3. pos >= Number[head]
      BY <1>1 DEF Nums
    <3>4. Parent[cn[pos + 1]] = nxt
      BY <3>1, <3>2, <3>3, <1>4 DEF ChainInv, StreamSegment
    <3>5. QED
      BY <3>1, <3>4, <1>2, <1>7, <1>8, <2>3
  <2>4. CASE n \notin L..pos /\ n - 1 \notin L..pos
    BY <2>0, <2>4, <1>8 DEF ChainInv, AdjacentLinked
  <2>5. QED
    BY <2>1, <2>2, <2>3, <2>4
<1>12. ASSUME NEW m \in Nums, NEW n \in Nums, pos < m, m <= n, cn2[n] # NoHash
       PROVE  cn2[m] # NoHash
  <2>1. cn[n] # NoHash
    BY <1>12, <1>8 DEF Nums
  <2>2. cn[m] # NoHash
    BY <2>1, <1>12, <1>4 DEF ChainInv, StreamSegment
  <2>3. QED
    BY <2>2, <1>9
<1>13. NoHolesAbove'
  <2> SUFFICES ASSUME NEW j \in Nums, NEW m \in Nums, NEW n \in Nums,
                      db.progress < j, j <= m, m <= n,
                      cn2[j] # NoHash, cn2[n] # NoHash
               PROVE  cn2[m] # NoHash
    BY <1>4 DEF NoHolesAbove
  <2>1. CASE m \in L..pos
    BY <2>1, <1>7
  <2>2. CASE pos < m
    BY <2>2, <1>12
  <2>3. CASE m < L
    <3>1. j \notin L..pos /\ j <= pos
      BY <2>3, <1>1 DEF Nums
    <3>2. cn[j] # NoHash
      BY <3>1, <1>8
    <3>3. QED
      BY <3>1, <3>2, <1>5
  <2>4. QED
    BY <2>1, <2>2, <2>3, <1>1 DEF Nums
<1>14. StreamSegment'
  <2>1. ASSUME NEW m \in Nums, NEW n \in Nums, pos' < m, m <= n, cn2[n] # NoHash
        PROVE  cn2[m] # NoHash
    <3>1. CASE m <= pos
      <4>1. m \in L..pos
        BY <3>1, <2>1, <1>1, <1>4 DEF Nums
      <4>2. QED
        BY <4>1, <1>7
    <3>2. CASE pos < m
      BY <3>2, <2>1, <1>12
    <3>3. QED
      BY <3>1, <3>2 DEF Nums
  <2>2. pos' + 1 = L /\ cn2[L] = c[L]
    BY <1>1, <1>4, <1>7 DEF Nums
  <2>3. pos' >= Number[head']
    BY <1>1, <1>4 DEF Nums
  <2>4. QED
    BY <2>1, <2>2, <2>3, <1>2, <1>4 DEF StreamSegment
<1>15. CurCanonical'
  <2>1. CASE cur >= pos
    <3>1. cur' = cur
      BY <2>1, <1>4 DEF MaxOf
    <3>2. cn[cur] # NoHash
      BY <1>4 DEF ChainInv, CurCanonical
    <3>3. QED
      BY <3>1, <3>2, <1>9, <1>4 DEF CurCanonical
  <2>2. CASE ~(cur >= pos)
    <3>1. cur' = pos
      BY <2>2, <1>4 DEF MaxOf
    <3>2. cn2[pos] # NoHash
      <4>1. pos \in L..pos
        BY <1>1 DEF Nums
      <4>2. QED
        BY <4>1, <1>7
    <3>3. QED
      BY <3>1, <3>2, <1>4 DEF CurCanonical
  <2>3. QED
    BY <2>1, <2>2
<1>16. QED
  BY <1>10, <1>11, <1>13, <1>14, <1>15 DEF ChainInv
-----------------------------------------------------------------------------
(* The end of the stream.                                                  *)

\* At the end of the stream the checkpoint moves to the last canonical key,
\* which is at or above the old checkpoint and above current_progress, and
\* every number up to it is canonical: the stream filled everything above
\* pos, and pos has reached the head at the old checkpoint.
LEMMA DoneCheckpoint ==
    ASSUME RInv, HeadersDone
    PROVE  /\ db'.canonical = db.canonical
           /\ db'.progress \in Nums
           /\ db'.progress >= db.progress
           /\ \A n \in Nums : n > db'.progress => db.canonical[n] = NoHash
           /\ \A n \in Nums : n <= db'.progress => db.canonical[n] # NoHash
<1> USE DEF RInv, IInv, TypeOK, Tables
<1>1. PICK last \in Nums :
          /\ IsLastCanonical(db, last)
          /\ db' = [db EXCEPT !.td = WriteTD(db, head), !.progress = MaxOf(cur, last)]
  BY DEF HeadersDone
<1>2. pc = "stream" /\ pos <= Number[head]
  BY DEF HeadersDone, Exhausted
<1>3. db.canonical[db.progress] = head /\ head # NoHash
  BY <1>2 DEF StreamWindow
<1>4. Number[head] = db.progress
  BY <1>3 DEF HeaderTablesConsistent
<1>5. db.canonical[cur] # NoHash
  BY <1>2 DEF ChainInv, CurCanonical
<1>6. cur <= last /\ db.progress <= last
  <2>1. ~(cur > last) /\ ~(db.progress > last)
    BY <1>1, <1>3, <1>5 DEF IsLastCanonical
  <2>2. QED
    BY <2>1 DEF Nums
<1>7. db'.progress = last /\ db'.canonical = db.canonical
  <2>1. MaxOf(cur, last) = last
    BY <1>6 DEF MaxOf, Nums
  <2>2. db'.progress = MaxOf(cur, last) /\ db'.canonical = db.canonical
    BY <1>1
  <2>3. QED
    BY <2>1, <2>2
<1>8. ASSUME NEW n \in Nums, n <= last PROVE db.canonical[n] # NoHash
  <2>1. CASE n <= db.progress
    BY <2>1 DEF ChainInv, BelowCheckpointFilled
  <2>2. CASE db.progress < n
    <3>1. pos < n /\ n <= last /\ db.canonical[last] # NoHash
      BY <2>2, <1>1, <1>2, <1>4, <1>8 DEF IsLastCanonical, Nums
    <3>2. QED
      BY <3>1, <1>1, <1>2 DEF ChainInv, StreamSegment
  <2>3. QED
    BY <2>1, <2>2 DEF Nums
<1>9. QED
  BY <1>1, <1>6, <1>7, <1>8 DEF IsLastCanonical

LEMMA DoneChain == RInv /\ HeadersDone => ChainInv'
<1> SUFFICES ASSUME RInv, HeadersDone PROVE ChainInv'
  OBVIOUS
<1>1. /\ db'.canonical = db.canonical
      /\ \A n \in Nums : n > db'.progress => db.canonical[n] = NoHash
      /\ \A n \in Nums : n <= db'.progress => db.canonical[n] # NoHash
  BY DoneCheckpoint
<1>2. pc' = "start"
  BY DEF HeadersDone
<1>3. AdjacentLinked'
  BY <1>1 DEF RInv, ChainInv, AdjacentLinked
<1>4. NoHolesAbove'
  BY <1>1 DEF NoHolesAbove
<1>5. QED
  BY <1>1, <1>2, <1>3, <1>4 DEF ChainInv, BelowCheckpointFilled,
     StreamSegment, CurCanonical
-----------------------------------------------------------------------------
(* The unwind of the pipeline.                                             *)

\* What the unwind to block - 1 leaves of the canonical table: the keys up
\* to the target, and nothing above it.
LEMMA UnwindCanonical ==
    ASSUME TypeOK, PipelineUnwind(db.progress)
    PROVE  LET u == UnwindTarget(db.progress) IN
           /\ u \in Nums /\ u <= db.progress
           /\ db'.progress = u
           /\ db'.canonical = [n \in Nums |-> IF n > u THEN NoHash ELSE db.canonical[n]]
           /\ pc' = "start"
<1> USE DEF TypeOK, Tables
<1>1. UnwindTarget(db.progress) \in Nums /\ UnwindTarget(db.progress) <= db.progress
  BY DEF UnwindTarget, Nums
<1>2. QED
  BY <1>1 DEF PipelineUnwind, HeadersUnwind, UnwindCanonicalByNum

\* The unwind keeps the canonical keys up to the target and drops the rest.
LEMMA UnwindChain ==
    ASSUME RInv, PipelineUnwind(db.progress)
    PROVE  ChainInv'
<1> DEFINE u == UnwindTarget(db.progress)
<1> USE DEF u
<1>1. /\ u \in Nums /\ u <= db.progress
      /\ db'.progress = u
      /\ db'.canonical = [n \in Nums |-> IF n > u THEN NoHash ELSE db.canonical[n]]
      /\ pc' = "start"
  BY UnwindCanonical DEF RInv, IInv, u
<1>2. BelowCheckpointFilled'
  <2> SUFFICES ASSUME NEW n \in Nums, n <= u PROVE db'.canonical[n] # NoHash
    BY <1>1 DEF BelowCheckpointFilled
  <2>1. n <= db.progress
    BY <1>1 DEF RInv, IInv, TypeOK, Tables, Nums
  <2>2. db'.canonical[n] = db.canonical[n]
    BY <1>1 DEF Nums
  <2>3. QED
    BY <2>1, <2>2 DEF RInv, ChainInv, BelowCheckpointFilled
<1>3. AdjacentLinked'
  BY <1>1 DEF RInv, ChainInv, AdjacentLinked, Nums
<1>4. NoHolesAbove'
  BY <1>1 DEF NoHolesAbove
<1>5. QED
  BY <1>1, <1>2, <1>3, <1>4 DEF ChainInv, StreamSegment, CurCanonical
-----------------------------------------------------------------------------
(* The inductive invariant.                                                *)

LEMMA InitChain == Init => RInv
<1> SUFFICES ASSUME Init PROVE RInv
  OBVIOUS
<1>1. IInv
  BY InitIInv
<1>2. ChainInv
  BY DEF Init, ChainInv, BelowCheckpointFilled, AdjacentLinked, NoHolesAbove,
     StreamSegment, CurCanonical, Nums
<1>3. QED
  BY <1>1, <1>2 DEF RInv

LEMMA NextRInv == RInv /\ [Next]_vars => RInv'
<1> SUFFICES ASSUME RInv, [Next]_vars PROVE RInv'
  OBVIOUS
<1>1. IInv'
  BY NextIInv DEF RInv
<1>2. ChainInv'
  <2>1. CASE HeadersAwaitTip
    BY <2>1, AwaitTipChain
  <2>2. CASE HeadersGapTip
    BY <2>2, GapTipChain
  <2>3. CASE HeadersNoWork
    BY <2>3, KeepDbChain DEF HeadersNoWork, RInv
  <2>4. CASE HeadersForkchoiceTip
    BY <2>4, ForkchoiceTipChain
  <2>5. CASE HeadersChunk
    BY <2>5, ChunkChain
  <2>6. CASE HeadersTipMismatch
    BY <2>6, UnwindChain DEF HeadersTipMismatch
  <2>7. CASE HeadersRecoverableError
    BY <2>7, KeepDbChain DEF HeadersRecoverableError, RInv
  <2>8. CASE HeadersValidationError
    BY <2>8, UnwindChain DEF HeadersValidationError
  <2>9. CASE HeadersDone
    BY <2>9, DoneChain
  <2>10. CASE Crash
    BY <2>10, KeepDbChain DEF Crash, RInv
  <2>11. CASE \E h \in FcHeads : ForkchoiceUpdated(h)
    BY <2>11, ForkchoiceUpdatedChain DEF RInv
  <2>12. CASE UNCHANGED vars
    BY <2>12 DEF vars, RInv, ChainInv, BelowCheckpointFilled, AdjacentLinked,
       NoHolesAbove, StreamSegment, CurCanonical
  <2>13. QED
    BY <2>1, <2>2, <2>3, <2>4, <2>5, <2>6, <2>7, <2>8, <2>9, <2>10, <2>11,
       <2>12 DEF Next
<1>3. QED
  BY <1>1, <1>2 DEF RInv

\* RInv holds in every reachable state.
THEOREM RInvInvariant == Spec => []RInv
BY InitChain, NextRInv, PTL DEF Spec

\* For every chain, commit threshold and number of crashes and faults, the
\* canonical headers up to the Headers checkpoint have no gap and adjacent
\* canonical headers are parent and child (CanonicalChainLinked), however
\* the chunks that filled them were interleaved with crashes, retried
\* streams and unwinds.
THEOREM CanonicalChainLinkedInvariant == Spec => []CanonicalChainLinked
<1>1. RInv => CanonicalChainLinked
  BY DEF RInv, IInv, TypeOK, Tables, ChainInv, BelowCheckpointFilled,
     AdjacentLinked, CanonicalChainLinked, Nums
<1>2. QED
  BY <1>1, RInvInvariant, PTL
-----------------------------------------------------------------------------
(* The refinement.                                                         *)

\* The committed genesis state is the abstract chain's initial state.
LEMMA InitRefines == Init => Abs!Init
<1> SUFFICES ASSUME Init PROVE Abs!Init
  OBVIOUS
<1>1. db.progress = 0
  BY DEF Init
<1>2. CanonicalPrefix = [n \in Nums |-> IF n = 0 THEN Genesis ELSE NoHash]
  BY <1>1 DEF Init, CanonicalPrefix, Nums
<1>3. QED
  BY <1>1, <1>2 DEF Abs!Init, Abs!Nums, Nums

\* A step that keeps db is a stutter of the abstract chain.
LEMMA KeepDbRefines ==
    ASSUME UNCHANGED db
    PROVE  UNCHANGED <<CanonicalPrefix, db.progress>>
BY DEF CanonicalPrefix

\* A chunk writes only above the checkpoint: a stutter.
LEMMA ChunkRefines ==
    ASSUME RInv, HeadersChunk
    PROVE  UNCHANGED <<CanonicalPrefix, db.progress>>
<1> USE DEF RInv, IInv, TypeOK, Tables
<1>1. Number[head] = db.progress /\ ChunkLow \in Nums /\ db.progress < ChunkLow
  BY ChunkLowBounds DEF HeadersChunk
<1>2. PICK c \in [ChunkLow..pos -> Hash] :
          db'.canonical = [n \in Nums |-> IF n \in ChunkLow..pos THEN c[n]
                                          ELSE db.canonical[n]]
  BY ChunkWrite
<1>3. db'.progress = db.progress
  BY DEF HeadersChunk, WriteHeaders
<1>4. \A n \in Nums : n <= db.progress => db'.canonical[n] = db.canonical[n]
  BY <1>1, <1>2 DEF Nums
<1>5. QED
  BY <1>3, <1>4 DEF CanonicalPrefix

\* The pipeline's unwind to block - 1 is the abstract unwind to that number.
LEMMA UnwindRefines ==
    ASSUME RInv, PipelineUnwind(db.progress)
    PROVE  Abs!Unwind
<1> DEFINE u == UnwindTarget(db.progress)
<1> USE DEF u
<1>1. /\ u \in Nums /\ u <= db.progress
      /\ db'.progress = u
      /\ db'.canonical = [n \in Nums |-> IF n > u THEN NoHash ELSE db.canonical[n]]
  BY UnwindCanonical DEF RInv, IInv
<1>2. u \in 0..db.progress
  BY <1>1 DEF Nums
<1>3. CanonicalPrefix' = [n \in Nums |-> IF n <= u THEN CanonicalPrefix[n] ELSE NoHash]
  <2>1. \A n \in Nums : n <= u => n <= db.progress
    BY <1>1 DEF RInv, IInv, TypeOK, Tables, Nums
  <2>2. CanonicalPrefix' = [n \in Nums |-> IF n <= u THEN db.canonical[n] ELSE NoHash]
    BY <1>1 DEF CanonicalPrefix, Nums
  <2>3. \A n \in Nums : n <= u => CanonicalPrefix[n] = db.canonical[n]
    BY <2>1 DEF CanonicalPrefix
  <2>4. QED
    BY <2>2, <2>3
<1>4. QED
  BY <1>1, <1>2, <1>3 DEF Abs!Unwind, Abs!Nums, Nums

\* The end of the stream either leaves the checkpoint, a stutter, or moves
\* it up over canonical headers that are each the child of the one below.
LEMMA DoneRefines ==
    ASSUME RInv, HeadersDone
    PROVE  [Abs!Next]_<<CanonicalPrefix, db.progress>>
<1> USE DEF RInv, IInv, TypeOK, Tables
<1>1. /\ db'.canonical = db.canonical
      /\ db'.progress \in Nums
      /\ db'.progress >= db.progress
      /\ \A n \in Nums : n > db'.progress => db.canonical[n] = NoHash
      /\ \A n \in Nums : n <= db'.progress => db.canonical[n] # NoHash
  BY DoneCheckpoint
<1>2. CASE db'.progress = db.progress
  BY <1>1, <1>2 DEF CanonicalPrefix
<1>3. CASE db'.progress # db.progress
  <2>1. db'.progress > db.progress
    BY <1>1, <1>3 DEF Nums
  <2>2. CanonicalPrefix' \in [Nums -> Hash \cup {NoHash}]
    BY <1>1 DEF CanonicalPrefix
  <2>3. \A n \in Nums : n <= db.progress => CanonicalPrefix'[n] = CanonicalPrefix[n]
    BY <1>1, <2>1 DEF CanonicalPrefix, Nums
  <2>4. ASSUME NEW n \in Nums, db.progress < n, n <= db'.progress
        PROVE  CanonicalPrefix'[n] \in Hash
               /\ Parent[CanonicalPrefix'[n]] = CanonicalPrefix'[n - 1]
    <3>1. n - 1 \in Nums /\ n >= 1 /\ n - 1 <= db'.progress
      BY <2>4, <2>1, <1>1 DEF Nums
    <3>2. db.canonical[n] # NoHash /\ db.canonical[n - 1] # NoHash
      BY <3>1, <2>4, <1>1
    <3>3. CanonicalPrefix'[n] = db.canonical[n]
          /\ CanonicalPrefix'[n - 1] = db.canonical[n - 1]
      BY <3>1, <2>4, <1>1 DEF CanonicalPrefix
    <3>4. Parent[db.canonical[n]] = db.canonical[n - 1]
      BY <3>1, <3>2 DEF ChainInv, AdjacentLinked
    <3>5. QED
      BY <3>2, <3>3, <3>4
  <2>5. \A n \in Nums : n > db'.progress => CanonicalPrefix'[n] = NoHash
    BY <1>1 DEF CanonicalPrefix, Nums
  <2>6. Abs!Extend
    BY <1>1, <2>1, <2>2, <2>3, <2>4, <2>5 DEF Abs!Extend, Abs!Nums, Nums
  <2>7. QED
    BY <2>6 DEF Abs!Next
<1>4. QED
  BY <1>2, <1>3

\* Every step of the stage and the pipeline is a step of the abstract chain
\* or leaves it alone.
LEMMA StepRefines ==
    RInv /\ [Next]_vars => [Abs!Next]_<<CanonicalPrefix, db.progress>>
<1> SUFFICES ASSUME RInv, [Next]_vars
             PROVE  [Abs!Next]_<<CanonicalPrefix, db.progress>>
  OBVIOUS
<1>1. CASE UNCHANGED db
  BY <1>1, KeepDbRefines
<1>2. CASE HeadersChunk
  BY <1>2, ChunkRefines
<1>3. CASE HeadersTipMismatch \/ HeadersValidationError
  BY <1>3, UnwindRefines DEF HeadersTipMismatch, HeadersValidationError, Abs!Next
<1>4. CASE HeadersDone
  BY <1>4, DoneRefines
<1>5. QED
  BY <1>1, <1>2, <1>3, <1>4 DEF Next, vars, HeadersAwaitTip, HeadersGapTip,
     HeadersNoWork, HeadersForkchoiceTip, HeadersRecoverableError, Crash,
     ForkchoiceUpdated

\* The Headers stage implements CanonicalChain (HeadersImplementsChain): for
\* every chain, commit threshold and number of crashes and faults, what the
\* stage commits up to its checkpoint only grows by linked headers or is cut
\* back to a prefix by an unwind; the chunks it commits above the
\* checkpoint before the stream ends are invisible to the stages after it.
THEOREM HeadersRefinement == Spec => HeadersImplementsChain
<1>1. Spec => []RInv
  BY RInvInvariant
<1>2. QED
  BY <1>1, InitRefines, StepRefines, PTL DEF Spec, HeadersImplementsChain, Abs!Spec
==============================================================================
