------------------------- MODULE HeadersTD_proofs -------------------------
(***************************************************************************)
(* Proofs that the Headers stage never meets a DatabaseIntegrityError or  *)
(* an out-of-order append (NoDatabaseError), and that HeaderTD holds      *)
(* exactly the total difficulties of the canonical chain up to the        *)
(* checkpoint (TotalDifficultyConsistent, spec 3 invariant 2).             *)
(*                                                                         *)
(* write_td walks the Headers table from the key above the head.  Since   *)
(* Headers holds only canonical headers (HeaderTablesConsistent) and the  *)
(* canonical keys above the checkpoint are filled up to the last one at   *)
(* the end of the stream (RInv), the walk visits exactly the canonical    *)
(* headers from checkpoint + 1 to the last key, in number order, each the *)
(* child of the one before.  HeadReached adds that the stream ends only  *)
(* after its lowest chunk is written, so the walk's first key exists.     *)
(***************************************************************************)
EXTENDS HeadersRefinement_proofs

\* While streaming, once the next header is the head, the number above the
\* head is canonical: the stream has written at least its lowest chunk.
HeadReached ==
    pc = "stream" /\ nxt = head =>
        pos + 1 \in Nums /\ db.canonical[pos + 1] # NoHash

TInv == RInv /\ TotalDifficultyConsistent /\ HeadReached

USE ChainAssumption, HeadersAssumption
-----------------------------------------------------------------------------
(* Facts about the header tree.                                            *)

\* Only the genesis has number 0.
LEMMA NumberZeroGenesis ==
    ASSUME NEW h \in Hash, Number[h] = 0
    PROVE  h = Genesis
<1> SUFFICES ASSUME h # Genesis PROVE FALSE
  OBVIOUS
<1>1. Parent[h] \in Hash /\ Number[h] = Number[Parent[h]] + 1
  OBVIOUS
<1>2. Number[Parent[h]] \in Nat
  BY <1>1 DEF Nums
<1>3. QED
  BY <1>1, <1>2

\* A header other than the genesis has a parent one number below.
LEMMA ParentBelow ==
    ASSUME NEW h \in Hash, Number[h] # 0
    PROVE  Parent[h] \in Hash /\ Number[Parent[h]] = Number[h] - 1
<1>1. h # Genesis
  OBVIOUS
<1>2. Parent[h] \in Hash /\ Number[h] = Number[Parent[h]] + 1
  BY <1>1
<1>3. Number[Parent[h]] \in Nat
  BY <1>2 DEF Nums
<1>4. QED
  BY <1>2, <1>3

\* A set of headers is a total difficulty and is not the absent entry.
LEMMA TDPresent ==
    ASSUME NEW S \in SUBSET Hash
    PROVE  S \in TotalDifficulty /\ S # NoTD
BY DEF TotalDifficulty
-----------------------------------------------------------------------------
(* The reads of the stage succeed.                                         *)

\* The canonical header at the checkpoint exists and has a HeaderTD entry.
LEMMA CheckpointTD ==
    ASSUME TInv
    PROVE  /\ db.canonical[db.progress] \in Hash
           /\ Number[db.canonical[db.progress]] = db.progress
           /\ db.td[db.canonical[db.progress]] \in TotalDifficulty
<1> DEFINE p == db.progress  h == db.canonical[p]
<1> USE DEF p, h
<1>1. p \in Nums /\ db.canonical \in [Nums -> Hash \cup {NoHash}]
      /\ db.td \in [Hash -> TotalDifficulty \cup {NoTD}]
  BY DEF TInv, RInv, IInv, TypeOK, Tables
<1>2. h # NoHash
  <2>1. p <= p
    BY <1>1 DEF Nums
  <2>2. QED
    BY <1>1, <2>1 DEF TInv, RInv, ChainInv, BelowCheckpointFilled
<1>3. h \in Hash /\ Number[h] = p
  BY <1>1, <1>2 DEF TInv, RInv, IInv, HeaderTablesConsistent
<1>4. db.td[h] # NoTD
  <2>1. CASE p = 0
    <3>1. h = Genesis
      BY <2>1, <1>3, NumberZeroGenesis
    <3>2. QED
      BY <3>1, TDPresent DEF TInv, TotalDifficultyConsistent
  <2>2. CASE p # 0
    <3>1. p \in 1..db.progress
      BY <2>2, <1>1 DEF Nums
    <3>2. db.td[Parent[h]] # NoTD /\ db.td[h] = db.td[Parent[h]] \cup {h}
      BY <3>1 DEF TInv, TotalDifficultyConsistent
    <3>3. Parent[h] \in Hash
      BY <2>2, <1>3, ParentBelow
    <3>4. db.td[Parent[h]] \in SUBSET Hash
      BY <3>2, <3>3, <1>1 DEF TotalDifficulty
    <3>5. QED
      BY <3>2, <3>4, <1>3, TDPresent
  <2>3. QED
    BY <2>1, <2>2
<1>5. QED
  BY <1>1, <1>3, <1>4

\* update_head and get_head_and_tip find every entry they read.
LEMMA StartReadsTInv ==
    ASSUME TInv
    PROVE  StartReadsSucceed(db)
<1>1. /\ db.canonical[db.progress] \in Hash
      /\ db.td[db.canonical[db.progress]] \in TotalDifficulty
  BY CheckpointTD
<1>2. db.td[db.canonical[db.progress]] # NoTD
  BY <1>1, TDPresent DEF TotalDifficulty
<1>3. \A n \in Nums : db.canonical[n] # NoHash => db.canonical[n] \in db.headers
  BY DEF TInv, RInv, IInv, HeaderTablesConsistent
<1>4. db.progress \in Nums
  BY DEF TInv, RInv, IInv, TypeOK, Tables
<1>5. QED
  BY <1>1, <1>2, <1>3, <1>4 DEF StartReadsSucceed, CanonicalAbove

\* At the end of the stream, write_td finds the head's TD and the key above
\* the head, and every key it walks lies above every HeaderTD key.
LEMMA TDPassTInv ==
    ASSUME TInv, pc = "stream", Exhausted
    PROVE  TDPassSucceeds(db, head)
<1> DEFINE N == Number[head]
<1> USE DEF N
<1>1. head = db.canonical[db.progress] /\ N = db.progress
      /\ db.td[head] \in TotalDifficulty
  <2>1. head = db.canonical[db.progress]
    BY DEF TInv, RInv, IInv, StreamWindow
  <2>2. QED
    BY <2>1, CheckpointTD
<1>2. pos = N /\ N + 1 \in Nums /\ db.canonical[N + 1] # NoHash
  <2>1. nxt = head /\ pos <= N
    BY DEF Exhausted
  <2>2. pos >= N
    BY <2>1 DEF TInv, RInv, ChainInv, StreamSegment
  <2>3. pos + 1 \in Nums /\ db.canonical[pos + 1] # NoHash
    BY <2>1 DEF TInv, HeadReached
  <2>4. pos \in Nat /\ N \in Nat
    BY <1>1 DEF TInv, RInv, IInv, TypeOK, Tables, Nums
  <2>5. QED
    BY <2>1, <2>2, <2>3, <2>4
<1>3. Number[db.canonical[N + 1]] = N + 1
  BY <1>2 DEF TInv, RInv, IInv, HeaderTablesConsistent
<1>4. ASSUME NEW w \in TDWalk(db, head), NEW h \in Hash, db.td[h] # NoTD
      PROVE  ~KeyLeq(w, h)
  <2>1. w \in Hash /\ KeyLeq(db.canonical[N + 1], w)
    BY DEF TDWalk, TInv, RInv, IInv, TypeOK, Tables
  <2>2. Number[w] \in Nat /\ Number[h] \in Nat /\ N \in Nat
    <3>1. head \in Hash
      BY DEF TInv, RInv, IInv, TypeOK
    <3>2. QED
      BY <2>1, <3>1 DEF Nums
  <2>3. Number[w] >= N + 1
    BY <2>1, <2>2, <1>3 DEF KeyLeq
  <2>4. Number[h] <= N
    BY <1>4, <1>1 DEF TInv, TotalDifficultyConsistent
  <2>5. QED
    BY <2>2, <2>3, <2>4 DEF KeyLeq
<1>5. QED
  BY <1>1, <1>2, <1>4, TDPresent DEF TDPassSucceeds, TotalDifficulty
-----------------------------------------------------------------------------
(* Steps that keep HeaderTD.                                               *)

\* A step that keeps HeaderTD and the checkpoint, and the canonical keys up
\* to the checkpoint, keeps TotalDifficultyConsistent.
LEMMA TDFrame ==
    ASSUME TotalDifficultyConsistent, db.progress \in Nums,
           db'.td = db.td, db'.progress = db.progress,
           \A n \in Nums : n <= db.progress => db'.canonical[n] = db.canonical[n]
    PROVE  TotalDifficultyConsistent'
<1>1. \A n \in 1..db.progress : n \in Nums /\ n <= db.progress
  BY DEF Nums
<1>2. \A h \in Hash : Number[h] \in Nums
  OBVIOUS
<1>3. QED
  BY <1>1, <1>2 DEF TotalDifficultyConsistent

\* A chunk commit writes only above the checkpoint, and its lowest header
\* is canonical once the next header is the head.
LEMMA ChunkTD ==
    ASSUME TInv, HeadersChunk
    PROVE  TotalDifficultyConsistent' /\ HeadReached'
<1> DEFINE L == ChunkLow
<1> USE DEF L
<1>1. Number[head] = db.progress /\ L \in Nums /\ db.progress < L /\ L <= pos
  BY ChunkLowBounds DEF HeadersChunk, TInv, RInv
<1>2. PICK c \in [L..pos -> Hash] :
          db'.canonical = [n \in Nums |-> IF n \in L..pos THEN c[n] ELSE db.canonical[n]]
  BY ChunkWrite DEF TInv
<1>3. db \in Tables
  BY DEF TInv, RInv, IInv, TypeOK
<1>4. db'.td = db.td /\ db'.progress = db.progress
  BY <1>3 DEF HeadersChunk, WriteHeaders, Tables
<1>5. \A n \in Nums : n <= db.progress => db'.canonical[n] = db.canonical[n]
  <2>1. db.progress \in Nat
    BY <1>3 DEF Tables, Nums
  <2>2. QED
    BY <1>1, <1>2, <2>1 DEF Nums
<1>6. TotalDifficultyConsistent'
  BY <1>3, <1>4, <1>5, TDFrame DEF TInv, Tables
<1>7. pos' + 1 = L /\ L \in L..pos
  BY <1>1 DEF HeadersChunk, Nums
<1>8. db'.canonical[L] = c[L] /\ c[L] \in Hash
  BY <1>1, <1>2, <1>7
<1>9. HeadReached'
  BY <1>1, <1>7, <1>8 DEF HeadReached
<1>10. QED
  BY <1>6, <1>9

\* The pipeline's unwind drops HeaderTD above the target together with the
\* canonical keys, and restarts the stage.
LEMMA UnwindTD ==
    ASSUME TInv, PipelineUnwind(db.progress)
    PROVE  TotalDifficultyConsistent' /\ HeadReached'
<1> DEFINE u == UnwindTarget(db.progress)
<1> USE DEF u
<1>1. /\ u \in Nums /\ u <= db.progress
      /\ db'.progress = u
      /\ db'.canonical = [n \in Nums |-> IF n > u THEN NoHash ELSE db.canonical[n]]
      /\ pc' = "start"
  BY UnwindCanonical DEF TInv, RInv, IInv
<1>2. db'.td = [h \in Hash |-> IF Number[h] > u THEN NoTD ELSE db.td[h]]
  <2>1. db \in Tables
    BY DEF TInv, RInv, IInv, TypeOK
  <2>2. QED
    BY <2>1 DEF PipelineUnwind, HeadersUnwind, UnwindTDByNumHash, Tables
<1>3. db.progress \in Nat /\ u \in Nat
  BY <1>1 DEF TInv, RInv, IInv, TypeOK, Tables, Nums
<1>4. db'.td[Genesis] = {}
  BY <1>2, <1>3 DEF TInv, TotalDifficultyConsistent
<1>5. ASSUME NEW n \in 1..db'.progress
      PROVE  LET h == db'.canonical[n] IN
             /\ h # NoHash
             /\ db'.td[Parent[h]] # NoTD
             /\ db'.td[h] = db'.td[Parent[h]] \cup {h}
  <2> DEFINE h == db.canonical[n]
  <2> USE DEF h
  <2>1. n \in Nums /\ n \in 1..db.progress /\ ~(n > u)
    <3>1. n \in 1..u
      BY <1>1
    <3>2. QED
      BY <3>1, <1>1, <1>3 DEF Nums
  <2>2. db'.canonical[n] = h
    BY <1>1, <2>1
  <2>3. h # NoHash /\ db.td[Parent[h]] # NoTD /\ db.td[h] = db.td[Parent[h]] \cup {h}
    BY <2>1 DEF TInv, TotalDifficultyConsistent
  <2>4. h \in Hash /\ Number[h] = n
    BY <2>1, <2>3 DEF TInv, RInv, IInv, TypeOK, Tables, HeaderTablesConsistent
  <2>5. Parent[h] \in Hash /\ Number[Parent[h]] = n - 1
    BY <2>1, <2>4, ParentBelow
  <2>6. db'.td[h] = db.td[h] /\ db'.td[Parent[h]] = db.td[Parent[h]]
    <3>1. ~(Number[h] > u) /\ ~(Number[Parent[h]] > u)
      BY <1>3, <2>1, <2>4, <2>5 DEF Nums
    <3>2. db'.td[h] = db.td[h]
      BY Zenon, <1>2, <2>4, <3>1
    <3>3. db'.td[Parent[h]] = db.td[Parent[h]]
      BY Zenon, <1>2, <2>5, <3>1
    <3>4. QED
      BY <3>2, <3>3
  <2>7. QED
    BY <2>2, <2>3, <2>6
<1>6. ASSUME NEW h \in Hash, db'.td[h] # NoTD
      PROVE  Number[h] <= db'.progress /\ db'.canonical[Number[h]] = h
  <2>1. Number[h] \in Nums /\ Number[h] <= u /\ db.td[h] # NoTD
    BY <1>2, <1>3, <1>6 DEF Nums
  <2>2. db.canonical[Number[h]] = h
    BY <2>1 DEF TInv, TotalDifficultyConsistent
  <2>3. QED
    BY <1>1, <1>3, <2>1, <2>2 DEF Nums
<1>7. TotalDifficultyConsistent'
  BY <1>4, <1>5, <1>6 DEF TotalDifficultyConsistent
<1>8. HeadReached'
  BY <1>1 DEF HeadReached
<1>9. QED
  BY <1>7, <1>8
-----------------------------------------------------------------------------
(* write_td at the end of the stream.                                      *)

\* The keys write_td walks are the canonical headers from the key above the
\* checkpoint up to the last one, and on canonical headers the key order is
\* the number order.
LEMMA DoneWalk ==
    ASSUME TInv, HeadersDone
    PROVE  LET N == db.progress
               last == db'.progress
               cn == db.canonical
           IN  /\ N \in Nat /\ last \in Nums /\ N <= last
               /\ head = cn[N] /\ Number[head] = N
               /\ TDWalk(db, head) = {cn[k] : k \in (N + 1)..last}
               /\ \A j, k \in (N + 1)..last : KeyLeq(cn[j], cn[k]) <=> j <= k
               /\ \A k \in 0..last : cn[k] \in Hash /\ Number[cn[k]] = k
               /\ db'.canonical = cn
               /\ db'.td = WriteTD(db, head)
<1> DEFINE N == db.progress
           last == db'.progress
           cn == db.canonical
           W == TDWalk(db, head)
<1> USE DEF N, last, cn, W
<1>1. /\ cn \in [Nums -> Hash \cup {NoHash}]
      /\ N \in Nums
      /\ \A n \in Nums : cn[n] # NoHash => Number[cn[n]] = n
      /\ db.headers = {cn[n] : n \in Nums} \ {NoHash}
  BY DEF TInv, RInv, IInv, TypeOK, Tables, HeaderTablesConsistent
<1>2. /\ db'.canonical = cn
      /\ last \in Nums /\ last >= N
      /\ \A n \in Nums : n > last => cn[n] = NoHash
      /\ \A n \in Nums : n <= last => cn[n] # NoHash
  BY DoneCheckpoint DEF TInv
<1>3. db'.td = WriteTD(db, head)
  <2>1. db \in Tables
    BY DEF TInv, RInv, IInv, TypeOK
  <2>2. QED
    BY <2>1 DEF HeadersDone, Tables
<1>4. head = cn[N] /\ Number[head] = N /\ N + 1 \in Nums /\ cn[N + 1] # NoHash
  <2>1. head = cn[N]
    BY DEF HeadersDone, TInv, RInv, IInv, StreamWindow
  <2>2. QED
    BY <2>1, <1>1, CheckpointTD DEF HeadersDone, TDPassSucceeds
<1>5. N \in Nat /\ last \in Nat /\ \A k \in (N + 1)..last : k \in Nums
  BY <1>1, <1>2 DEF Nums
<1>6. \A k \in 0..last : cn[k] \in Hash /\ Number[cn[k]] = k
  BY <1>1, <1>2, <1>5 DEF Nums
<1>7. W \subseteq {cn[k] : k \in (N + 1)..last}
  <2> SUFFICES ASSUME NEW h \in W PROVE \E k \in (N + 1)..last : h = cn[k]
    OBVIOUS
  <2>1. PICK n \in Nums : h = cn[n] /\ h # NoHash
    BY <1>1 DEF TDWalk
  <2>2. Number[h] = n /\ n \in Nat /\ h \in Hash
    BY <1>1, <2>1 DEF Nums
  <2>3. KeyLeq(cn[N + 1], h) /\ Number[cn[N + 1]] = N + 1
    BY <1>1, <1>4 DEF TDWalk
  <2>4. n >= N + 1
    BY <2>2, <2>3, <1>5 DEF KeyLeq
  <2>5. n <= last
    BY <1>2, <1>5, <2>1, <2>2
  <2>6. n \in (N + 1)..last
    BY <2>2, <2>4, <2>5, <1>5
  <2>7. QED
    BY <2>1, <2>6
<1>8. \A j, k \in (N + 1)..last : KeyLeq(cn[j], cn[k]) <=> j <= k
  <2> SUFFICES ASSUME NEW j \in (N + 1)..last, NEW k \in (N + 1)..last
               PROVE  KeyLeq(cn[j], cn[k]) <=> j <= k
    OBVIOUS
  <2>1. j \in 0..last /\ k \in 0..last
    BY <1>5
  <2>2. cn[j] \in Hash /\ Number[cn[j]] = j /\ cn[k] \in Hash /\ Number[cn[k]] = k
    BY <2>1, <1>6
  <2>3. HashRank[cn[j]] \in Nat
    BY <2>2
  <2>4. QED
    BY <2>2, <2>3, <1>5 DEF KeyLeq
<1>9. {cn[k] : k \in (N + 1)..last} \subseteq W
  <2> SUFFICES ASSUME NEW k \in (N + 1)..last PROVE cn[k] \in W
    OBVIOUS
  <2>1. k \in Nums /\ cn[k] # NoHash
    BY <1>2, <1>5
  <2>2. cn[k] \in db.headers
    BY <1>1, <2>1
  <2>3. N + 1 \in (N + 1)..last
    BY <1>5
  <2>4. KeyLeq(cn[N + 1], cn[k])
    BY <1>8, <2>3, <1>5
  <2>5. QED
    BY <2>2, <2>4, <1>4 DEF TDWalk
<1>10. QED
  BY <1>2, <1>3, <1>4, <1>5, <1>6, <1>7, <1>8, <1>9

\* write_td gives every walked header the head's total difficulty plus the
\* walked headers up to it: the child of the head gets the head's plus
\* itself, each further header its parent's plus itself.
LEMMA DoneTD ==
    ASSUME TInv, HeadersDone
    PROVE  TotalDifficultyConsistent'
<1> DEFINE N == db.progress
           last == db'.progress
           cn == db.canonical
           W == TDWalk(db, head)
           T == db.td[head]
           Upto(k) == {cn[j] : j \in (N + 1)..k}
<1> USE DEF N, last, cn, W, T, Upto
<1>1. /\ N \in Nat /\ last \in Nums /\ N <= last
      /\ head = cn[N] /\ Number[head] = N
      /\ W = Upto(last)
      /\ \A j, k \in (N + 1)..last : KeyLeq(cn[j], cn[k]) <=> j <= k
      /\ \A k \in 0..last : cn[k] \in Hash /\ Number[cn[k]] = k
      /\ db'.canonical = cn
      /\ db'.td = WriteTD(db, head)
  BY DoneWalk
<1>2. last \in Nat
  BY <1>1 DEF Nums
<1>3. T \in SUBSET Hash
  BY <1>1, CheckpointTD DEF TotalDifficulty
\* A header outside the walk keeps its entry; no header at or below the
\* checkpoint is walked.
<1>4. \A h \in Hash : h \notin W => db'.td[h] = db.td[h]
  BY <1>1 DEF WriteTD
<1>5. \A h \in Hash : Number[h] <= N => h \notin W
  <2> SUFFICES ASSUME NEW h \in Hash, Number[h] <= N, h \in W PROVE FALSE
    OBVIOUS
  <2>1. PICK k \in (N + 1)..last : h = cn[k]
    BY <1>1
  <2>2. k \in 0..last /\ k \in Nat
    BY <1>1, <1>2
  <2>3. QED
    BY <1>1, <2>1, <2>2
\* A walked header gets the head's total difficulty and the walked headers
\* up to it.
<1>6. \A k \in (N + 1)..last : db'.td[cn[k]] = T \cup Upto(k)
  <2> SUFFICES ASSUME NEW k \in (N + 1)..last PROVE db'.td[cn[k]] = T \cup Upto(k)
    OBVIOUS
  <2>1. cn[k] \in W /\ cn[k] \in Hash
    BY <1>1, <1>2
  <2>2. db'.td[cn[k]] = T \cup {g \in W : KeyLeq(g, cn[k])}
    BY <1>1, <2>1 DEF WriteTD
  <2>3. {g \in W : KeyLeq(g, cn[k])} = Upto(k)
    <3>1. \A j \in (N + 1)..last : j <= k <=> j \in (N + 1)..k
      BY <1>1, <1>2
    <3>2. (N + 1)..k \subseteq (N + 1)..last
      BY <1>1, <1>2
    <3>3. QED
      BY <1>1, <3>1, <3>2
  <2>4. QED
    BY <2>2, <2>3
<1>7. \A k \in (N + 1)..last : Upto(k) \subseteq Hash
  BY <1>1, <1>2
<1>8. db'.td[Genesis] = {}
  <2>1. Genesis \notin W
    BY <1>1, <1>5
  <2>2. QED
    BY <2>1, <1>4 DEF TInv, TotalDifficultyConsistent
<1>9. ASSUME NEW n \in 1..last
      PROVE  LET h == db'.canonical[n] IN
             /\ h # NoHash
             /\ db'.td[Parent[h]] # NoTD
             /\ db'.td[h] = db'.td[Parent[h]] \cup {h}
  <2> DEFINE h == cn[n]
  <2> USE DEF h
  <2> SUFFICES /\ h # NoHash
               /\ db'.td[Parent[h]] # NoTD
               /\ db'.td[h] = db'.td[Parent[h]] \cup {h}
    BY <1>1
  <2>1. n \in 0..last /\ n - 1 \in 0..last /\ n \in Nat
    BY <1>2
  <2>2. h \in Hash /\ Number[h] = n /\ cn[n - 1] \in Hash /\ Number[cn[n - 1]] = n - 1
    BY <2>1, <1>1
  <2>3. Parent[h] = cn[n - 1]
    <3>1. n \in Nums /\ n >= 1
      BY <2>1, <1>1 DEF Nums
    <3>2. cn[n] # NoHash /\ cn[n - 1] # NoHash
      BY <2>2
    <3>3. QED
      BY <3>1, <3>2 DEF TInv, RInv, ChainInv, AdjacentLinked
  <2>4. h # NoHash
    BY <2>2
  <2>5. CASE n <= N
    <3>1. n \in 1..db.progress
      BY <2>5, <2>1, <1>1
    <3>2. db.td[Parent[h]] # NoTD /\ db.td[h] = db.td[Parent[h]] \cup {h}
      BY <3>1 DEF TInv, TotalDifficultyConsistent
    <3>3. h \notin W /\ Parent[h] \notin W
      <4>1. Number[h] <= N /\ Number[Parent[h]] <= N
        BY <2>2, <2>3, <2>5, <1>1
      <4>2. QED
        BY <2>2, <2>3, <4>1, <1>5
    <3>4. db'.td[h] = db.td[h] /\ db'.td[Parent[h]] = db.td[Parent[h]]
      BY <1>4, <2>2, <2>3, <3>3
    <3>5. QED
      BY <2>4, <3>2, <3>4
  <2>6. CASE n = N + 1
    <3>1. Parent[h] = head
      BY <2>3, <2>6, <1>1
    <3>2. db'.td[head] = T /\ T # NoTD
      <4>1. N \in 0..last /\ head = cn[N]
        BY <1>1, <1>2
      <4>2. head \in Hash /\ Number[head] <= N
        BY <4>1, <1>1
      <4>3. head \notin W
        BY <4>2, <1>5
      <4>4. db'.td[head] = T
        BY <4>2, <4>3, <1>4
      <4>5. T # NoTD
        BY <1>3, TDPresent
      <4>6. QED
        BY <4>4, <4>5
    <3>3. n \in (N + 1)..last /\ Upto(n) = {h}
      BY <2>1, <2>6, <1>1
    <3>4. db'.td[h] = T \cup {h}
      BY <1>6, <3>3
    <3>5. QED
      BY <2>4, <3>1, <3>2, <3>4
  <2>7. CASE n > N + 1
    <3>1. n \in (N + 1)..last /\ n - 1 \in (N + 1)..last
      BY <2>1, <2>7, <1>1
    <3>2. Upto(n) = Upto(n - 1) \cup {h}
      BY <3>1, <1>1
    <3>3. T \cup Upto(n - 1) \in SUBSET Hash
      BY <3>1, <1>3, <1>7
    <3>4. db'.td[cn[n - 1]] = T \cup Upto(n - 1) /\ db'.td[h] = T \cup Upto(n)
      BY <3>1, <1>6
    <3>5. db'.td[Parent[h]] # NoTD
      BY <2>3, <3>3, <3>4, TDPresent
    <3>6. db'.td[h] = db'.td[Parent[h]] \cup {h}
      BY <2>3, <3>2, <3>4
    <3>7. QED
      BY <2>4, <3>5, <3>6
  <2>8. n <= N \/ n = N + 1 \/ n > N + 1
    BY <2>1, <1>1
  <2>9. QED
    BY <2>5, <2>6, <2>7, <2>8
<1>10. ASSUME NEW h \in Hash, db'.td[h] # NoTD
       PROVE  Number[h] <= last /\ db'.canonical[Number[h]] = h
  <2>1. CASE h \in W
    <3>1. PICK k \in (N + 1)..last : h = cn[k]
      BY <2>1, <1>1
    <3>2. QED
      BY <3>1, <1>1, <1>2
  <2>2. CASE h \notin W
    <3>1. db.td[h] # NoTD
      BY <2>2, <1>4, <1>10
    <3>2. Number[h] <= N /\ cn[Number[h]] = h
      BY <3>1 DEF TInv, TotalDifficultyConsistent
    <3>3. Number[h] \in Nat
      BY DEF Nums
    <3>4. QED
      BY <3>2, <3>3, <1>1, <1>2
  <2>3. QED
    BY <2>1, <2>2
<1>11. QED
  BY <1>8, <1>9, <1>10 DEF TotalDifficultyConsistent
-----------------------------------------------------------------------------
(* The stream's start, and the inductive invariant.                        *)

\* A stream that starts at a gap starts below a canonical header above the
\* child of the head, so its next header is not the head.
LEMMA GapTipHeadReached ==
    ASSUME TInv, HeadersGapTip
    PROVE  HeadReached'
<1>1. PICK k \in CanonicalAbove(db, db.progress) :
          k # db.progress + 1 /\ nxt' = Parent[db.canonical[k]]
  BY DEF HeadersGapTip
<1>2. /\ db.progress \in Nat /\ k \in Nat /\ k > db.progress
      /\ db.canonical[k] \in Hash /\ Number[db.canonical[k]] = k
  <2>1. k \in Nums /\ k > db.progress /\ db.canonical[k] # NoHash
    BY DEF CanonicalAbove
  <2>2. db.progress \in Nums /\ db.canonical \in [Nums -> Hash \cup {NoHash}]
    BY DEF TInv, RInv, IInv, TypeOK, Tables
  <2>3. Number[db.canonical[k]] = k
    BY <2>1 DEF TInv, RInv, IInv, HeaderTablesConsistent
  <2>4. QED
    BY <2>1, <2>2, <2>3 DEF Nums
<1>3. Number[nxt'] = k - 1
  BY <1>1, <1>2, ParentBelow
<1>4. head' = db.canonical[db.progress] /\ Number[head'] = db.progress
  BY CheckpointTD DEF HeadersGapTip
<1>5. nxt' # head'
  BY <1>1, <1>2, <1>3, <1>4
<1>6. QED
  BY <1>5 DEF HeadReached

LEMMA InitTInv == Init => TInv
<1> SUFFICES ASSUME Init PROVE TInv
  OBVIOUS
<1>1. RInv
  BY InitChain
<1>2. TotalDifficultyConsistent
  <2>1. \A h \in Hash : db.td[h] # NoTD => h = Genesis
    BY DEF Init
  <2>2. QED
    BY <2>1 DEF Init, TotalDifficultyConsistent, Nums
<1>3. HeadReached
  BY DEF Init, HeadReached
<1>4. QED
  BY <1>1, <1>2, <1>3 DEF TInv

LEMMA NextTInv == TInv /\ [Next]_vars => TInv'
<1> SUFFICES ASSUME TInv, [Next]_vars PROVE TInv'
  OBVIOUS
<1>1. RInv'
  BY NextRInv DEF TInv
<1>2. db.progress \in Nums
  BY DEF TInv, RInv, IInv, TypeOK, Tables
<1>3. ASSUME UNCHANGED db PROVE TotalDifficultyConsistent'
  BY <1>2, <1>3, TDFrame DEF TInv
<1>4. TotalDifficultyConsistent' /\ HeadReached'
  <2>1. CASE HeadersAwaitTip
    BY <2>1, <1>3 DEF HeadersAwaitTip, HeadReached
  <2>2. CASE HeadersGapTip
    BY <2>2, <1>3, GapTipHeadReached DEF HeadersGapTip
  <2>3. CASE HeadersNoWork
    BY <2>3, <1>3 DEF HeadersNoWork, HeadReached
  <2>4. CASE HeadersForkchoiceTip
    BY <2>4, <1>3 DEF HeadersForkchoiceTip, HeadReached
  <2>5. CASE HeadersChunk
    BY <2>5, ChunkTD
  <2>6. CASE HeadersTipMismatch
    BY <2>6, UnwindTD DEF HeadersTipMismatch
  <2>7. CASE HeadersRecoverableError
    BY <2>7, <1>3 DEF HeadersRecoverableError, HeadReached
  <2>8. CASE HeadersValidationError
    BY <2>8, UnwindTD DEF HeadersValidationError
  <2>9. CASE HeadersDone
    BY <2>9, DoneTD DEF HeadersDone, ResetLocals, HeadReached
  <2>10. CASE Crash
    BY <2>10, <1>3 DEF Crash, HeadReached
  <2>11. CASE \E h \in FcHeads : ForkchoiceUpdated(h)
    BY <2>11, <1>3 DEF ForkchoiceUpdated, TInv, HeadReached
  <2>12. CASE UNCHANGED vars
    BY <2>12, <1>3 DEF vars, TInv, HeadReached
  <2>13. QED
    BY <2>1, <2>2, <2>3, <2>4, <2>5, <2>6, <2>7, <2>8, <2>9, <2>10, <2>11,
       <2>12 DEF Next
<1>5. QED
  BY <1>1, <1>4 DEF TInv

\* TInv holds in every reachable state.
THEOREM TInvInvariant == Spec => []TInv
BY InitTInv, NextTInv, PTL DEF Spec

\* For every chain, commit threshold and number of crashes and faults,
\* HeaderTD holds an entry exactly for the canonical headers up to the
\* Headers checkpoint, the genesis has the empty total difficulty and every
\* other one is its parent's plus its own (TotalDifficultyConsistent, spec 3
\* invariant 2): write_td after a stream, unwind_table_by_num_hash of
\* HeaderTD and the chunk commits, crashes and retries in between never
\* leave a stale or a missing total difficulty.
THEOREM TotalDifficultyInvariant == Spec => []TotalDifficultyConsistent
BY TInvInvariant, PTL DEF TInv

\* For every chain, commit threshold and number of crashes and faults, the
\* Headers stage never fails with DatabaseIntegrity or an append error
\* (NoDatabaseError): update_head and get_head_and_tip find the checkpoint's
\* entries, and write_td finds the head's total difficulty and the key above
\* the head, and appends above the last HeaderTD key.
THEOREM NoDatabaseErrorInvariant == Spec => []NoDatabaseError
<1>1. TInv => NoDatabaseError
  BY StartReadsTInv, TDPassTInv DEF NoDatabaseError
<1>2. QED
  BY <1>1, TInvInvariant, PTL
==============================================================================
