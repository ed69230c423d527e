------------------------ MODULE SendersStage_proofs ------------------------
(***************************************************************************)
(* Proofs that the Senders checkpoint never passes the Bodies checkpoint  *)
(* (StageOrder, spec 3 invariant 5) and that the stage's state keeps its  *)
(* type, for every commit threshold, chain length, body sizes and number  *)
(* of unwinds and faults, with and without the pipeline's skip of lagging *)
(* stages.                                                                 *)
(*                                                                         *)
(* execute stops at the Bodies stage's progress (max_block_num), the      *)
(* Bodies stage only appends, and the pipeline's unwind cuts the bodies   *)
(* back to its target and sets Senders to the target unless Senders is    *)
(* already at or below it: no step moves Senders past Bodies.           *)
(*                                                                         *)
(* In every configuration, with or without that skip and whatever the    *)
(* genesis body, no TxSenders key lies above last_tx_index of the          *)
(* checkpoint's block (SendersNoneAbove).  TxsBelow is a recursive         *)
(* function of the bodies; it is reasoned about through Below, its         *)
(* definition as a function of the bodies, with the unfolding,             *)
(* monotonicity and agreement lemmas proved by induction over sets of      *)
(* naturals.  The inductive invariant NInv adds StageOrder, which keeps    *)
(* the checkpoint's body among the bodies an unwind or an append leaves.   *)
(* SendersExact needs a non-empty genesis body and the skip of lagging     *)
(* stages, neither of which the code ensures; it is left to TLC.           *)
(***************************************************************************)
EXTENDS SendersStage, SequenceTheorems, WellFoundedInduction, TLAPS

IInv == TypeOK /\ StageOrder

USE SendersAssumption
-----------------------------------------------------------------------------
(* Induction on Nat, stated over sets.                                     *)

\* Every nonempty set of naturals has a least element.
LEMMA LeastNat ==
    ASSUME NEW T \in SUBSET Nat, T # {}
    PROVE  \E m \in T : \A k \in T : m <= k
<1>1. PICK x \in T : \A y \in T : ~(<<y, x>> \in OpToRel(<, Nat))
  BY NatLessThanWellFounded, WFMin
<1>2. \A y \in T : ~(y < x)
  BY <1>1 DEF OpToRel
<1>3. QED
  BY <1>2

\* A set that holds 0 and the successor of each of its naturals holds
\* every natural.
LEMMA NatSetInduction ==
    ASSUME NEW S, 0 \in S, \A k \in Nat : k \in S => k + 1 \in S
    PROVE  Nat \subseteq S
<1> SUFFICES ASSUME Nat \ S # {} PROVE FALSE
  OBVIOUS
<1>1. PICK m \in Nat \ S : \A k \in Nat \ S : m <= k
  BY LeastNat
<1>2. m # 0 /\ m - 1 \in Nat
  OBVIOUS
<1>3. m - 1 \in S
  BY <1>1, <1>2
<1>4. QED
  BY <1>1, <1>2, <1>3
-----------------------------------------------------------------------------
(* The running count of transactions (TxsBelow).                           *)

\* TxsBelow over any body list b: the recursive function of the model, and
\* the equation that defines it.
Below(b, n) ==
    LET below[k \in 0..n] == IF k = 0 THEN 0 ELSE below[k - 1] + b[k]
    IN  below[n]

BelowEq(b, n, g) == g = [k \in 0..n |-> IF k = 0 THEN 0 ELSE g[k - 1] + b[k]]

BelowFn(b, n) == CHOOSE g : BelowEq(b, n, g)

\* The equation has a solution on every interval 0..n.
LEMMA BelowFnExists ==
    ASSUME NEW b, NEW n \in Nat
    PROVE  \E g : BelowEq(b, n, g)
<1> DEFINE S == {m \in Nat : \E g : BelowEq(b, m, g)}
<1> USE DEF S
<1>1. 0 \in S
  <2> DEFINE g0 == [k \in 0..0 |-> 0]
  <2>1. BelowEq(b, 0, g0)
    BY DEF BelowEq
  <2>2. QED
    BY <2>1
<1>2. ASSUME NEW m \in Nat, m \in S PROVE m + 1 \in S
  <2>1. PICK g : BelowEq(b, m, g)
    BY <1>2
  <2> DEFINE h == [k \in 0..(m + 1) |-> IF k = m + 1 THEN g[m] + b[m + 1] ELSE g[k]]
  <2>2. \A k \in 0..m : g[k] = IF k = 0 THEN 0 ELSE g[k - 1] + b[k]
    BY <2>1 DEF BelowEq
  <2>3. \A k \in 0..(m + 1) : h[k] = IF k = 0 THEN 0 ELSE h[k - 1] + b[k]
    BY <2>2
  <2>4. BelowEq(b, m + 1, h)
    BY <2>3 DEF BelowEq
  <2>5. QED
    BY <2>4
<1>3. QED
  BY <1>1, <1>2, NatSetInduction

\* The solution is unique.
LEMMA BelowFnUnique ==
    ASSUME NEW b, NEW n \in Nat, NEW g, NEW h, BelowEq(b, n, g), BelowEq(b, n, h)
    PROVE  g = h
<1> DEFINE S == {k \in Nat : k <= n => g[k] = h[k]}
<1> USE DEF S
<1>1. 0 \in S
  BY DEF BelowEq
<1>2. ASSUME NEW k \in Nat, k \in S PROVE k + 1 \in S
  BY <1>2 DEF BelowEq
<1>3. Nat \subseteq S
  BY <1>1, <1>2, NatSetInduction
<1>4. \A k \in 0..n : g[k] = h[k]
  BY <1>3
<1>5. QED
  BY <1>4 DEF BelowEq

\* TxsBelow unfolds: no transactions below block 0, and below block n those
\* below block n - 1 and the tx_count of block n - 1.
LEMMA BelowUnfold ==
    ASSUME NEW b, NEW n \in Nat
    PROVE  Below(b, n) = IF n = 0 THEN 0 ELSE Below(b, n - 1) + b[n]
<1> DEFINE f == BelowFn(b, n)
<1> USE DEF f
<1>1. \A m \in Nat : BelowEq(b, m, BelowFn(b, m)) /\ Below(b, m) = BelowFn(b, m)[m]
  BY BelowFnExists DEF BelowFn, Below, BelowEq
<1>2. CASE n = 0
  BY <1>1, <1>2 DEF BelowEq
<1>3. CASE n # 0
  <2> DEFINE r == [k \in 0..(n - 1) |-> f[k]]
  <2>1. n - 1 \in Nat
    BY <1>3
  <2>2. BelowEq(b, n - 1, r)
    <3>1. \A k \in 0..n : f[k] = IF k = 0 THEN 0 ELSE f[k - 1] + b[k]
      BY <1>1 DEF BelowEq
    <3>2. QED
      BY <3>1, <2>1 DEF BelowEq
  <2>3. r = BelowFn(b, n - 1)
    BY <1>1, <2>1, <2>2, BelowFnUnique
  <2>4. f[n] = f[n - 1] + b[n]
    BY <1>1, <1>3 DEF BelowEq
  <2>5. QED
    BY <1>1, <1>3, <2>1, <2>3, <2>4
<1>4. QED
  BY <1>2, <1>3
\* Over tx_counts that are naturals, the count is a natural.
LEMMA BelowNat ==
    ASSUME NEW b, NEW n \in Nat, \A k \in 1..n : b[k] \in Nat
    PROVE  Below(b, n) \in Nat
<1> DEFINE S == {k \in Nat : k <= n => Below(b, k) \in Nat}
<1> USE DEF S
<1>1. 0 \in S
  BY BelowUnfold
<1>2. ASSUME NEW k \in Nat, k \in S PROVE k + 1 \in S
  <2>1. Below(b, k + 1) = Below(b, k) + b[k + 1]
    BY BelowUnfold
  <2>2. QED
    BY <1>2, <2>1
<1>3. Nat \subseteq S
  BY <1>1, <1>2, NatSetInduction
<1>4. QED
  BY <1>3

\* Over tx_counts that are naturals, the count grows with the block.
LEMMA BelowMono ==
    ASSUME NEW b, NEW n \in Nat, \A k \in 1..n : b[k] \in Nat, NEW m \in 0..n
    PROVE  Below(b, m) <= Below(b, n)
<1> DEFINE S == {k \in Nat : m <= k /\ k <= n => Below(b, m) <= Below(b, k)}
<1> USE DEF S
<1>1. \A k \in 0..n : Below(b, k) \in Nat
  BY BelowNat
<1>2. 0 \in S
  BY <1>1
<1>3. ASSUME NEW k \in Nat, k \in S PROVE k + 1 \in S
  <2>1. Below(b, k + 1) = Below(b, k) + b[k + 1]
    BY BelowUnfold
  <2>2. k + 1 <= n => b[k + 1] \in Nat /\ Below(b, k) \in Nat
    BY <1>1
  <2>3. QED
    BY <1>1, <1>3, <2>1, <2>2
<1>4. Nat \subseteq S
  BY <1>2, <1>3, NatSetInduction
<1>5. QED
  BY <1>4

\* The count below block n reads only the bodies of the blocks below n.
LEMMA BelowAgree ==
    ASSUME NEW b, NEW c, NEW n \in Nat, \A k \in 1..n : b[k] = c[k]
    PROVE  Below(b, n) = Below(c, n)
<1> DEFINE S == {k \in Nat : k <= n => Below(b, k) = Below(c, k)}
<1> USE DEF S
<1>1. 0 \in S
  BY BelowUnfold
<1>2. ASSUME NEW k \in Nat, k \in S PROVE k + 1 \in S
  <2>1. Below(b, k + 1) = Below(b, k) + b[k + 1] /\ Below(c, k + 1) = Below(c, k) + c[k + 1]
    BY BelowUnfold
  <2>2. QED
    BY <1>2, <2>1
<1>3. Nat \subseteq S
  BY <1>1, <1>2, NatSetInduction
<1>4. QED
  BY <1>3

\* TxsBelow is the count over the bodies.
LEMMA TxsBelowIsBelow == \A n : TxsBelow(n) = Below(bodies, n)
BY DEF TxsBelow, Below
-----------------------------------------------------------------------------

\* max_block_num is a block number between the checkpoint's and the Bodies
\* stage's progress when execute has work, and never above the latter.
LEMMA MaxBlockNumBounds ==
    ASSUME TypeOK
    PROVE  /\ MaxBlockNum \in Nat
           /\ MaxBlockNum <= BodiesProgress
<1>1. Len(bodies) \in 1..(MaxBlock + 1)
  BY DEF TypeOK
<1>2. BodiesProgress \in Nat /\ progress + CommitThreshold \in Nat
  BY <1>1 DEF BodiesProgress, TypeOK
<1>3. QED
  BY <1>2 DEF MaxBlockNum, MinOf

LEMMA InitIInv == Init => IInv
<1> SUFFICES ASSUME Init PROVE IInv
  OBVIOUS
<1>1. PICK g \in GenesisTxs : bodies = <<g>>
  BY DEF Init
<1>2. g \in 0..MaxTxs
  BY <1>1
<1>3. bodies \in Seq(0..MaxTxs) /\ Len(bodies) = 1
  BY <1>1, <1>2
<1>4. senders \subseteq Nat
  BY DEF Init
<1>5. QED
  BY <1>3, <1>4 DEF Init, IInv, TypeOK, StageOrder, BodiesProgress
-----------------------------------------------------------------------------
(* The steps.                                                              *)

\* execute appends the senders of its range and returns max_block_num.
LEMMA ExecuteIInv ==
    ASSUME IInv, SendersExecute
    PROVE  IInv'
<1>1. MaxBlockNum \in Nat /\ MaxBlockNum <= BodiesProgress
  BY MaxBlockNumBounds DEF IInv
<1>2. progress' = MaxBlockNum /\ bodies' = bodies
      /\ unwinds' = unwinds /\ faults' = faults
  BY DEF SendersExecute
<1>3. senders' \subseteq Nat
  <2>1. TxNumbers \subseteq Nat
    BY DEF TxNumbers
  <2>2. QED
    BY <2>1 DEF SendersExecute, IInv, TypeOK
<1>4. progress' \in 0..MaxBlock
  BY <1>1, <1>2 DEF IInv, TypeOK, BodiesProgress
<1>5. rerun' \in BOOLEAN
  <2>1. rerun' = FALSE \/ rerun' = (MaxBlockNum < BodiesProgress)
    BY Zenon DEF SendersExecute
  <2>2. BodiesProgress \in Int
    BY DEF IInv, TypeOK, BodiesProgress
  <2>3. CASE rerun' = FALSE
    BY <2>3
  <2>4. CASE rerun' = (MaxBlockNum < BodiesProgress)
    BY <1>1, <2>2, <2>4
  <2>5. QED
    BY <2>1, <2>3, <2>4
<1>6. QED
  BY <1>1, <1>2, <1>3, <1>4, <1>5 DEF IInv, TypeOK, StageOrder, BodiesProgress

\* The Bodies stage appends one body and leaves Senders alone.
LEMMA BodiesAdvanceIInv ==
    ASSUME IInv, BodiesAdvance
    PROVE  IInv'
<1>1. PICK k \in 0..MaxTxs : bodies' = Append(bodies, k)
  BY DEF BodiesAdvance
<1>2. bodies \in Seq(0..MaxTxs) /\ Len(bodies) <= MaxBlock
      /\ Len(bodies) \in 1..(MaxBlock + 1)
  BY DEF BodiesAdvance, IInv, TypeOK
<1>3. bodies' \in Seq(0..MaxTxs) /\ Len(bodies') = Len(bodies) + 1
  BY <1>1, <1>2, AppendProperties
<1>4. Len(bodies') \in 1..(MaxBlock + 1) /\ progress <= Len(bodies') - 1
  <2>1. progress \in Nat /\ progress <= Len(bodies) - 1
    BY DEF IInv, TypeOK, StageOrder, BodiesProgress
  <2>2. QED
    BY <1>2, <1>3, <2>1
<1>5. QED
  BY <1>3, <1>4 DEF BodiesAdvance, IInv, TypeOK, StageOrder, BodiesProgress

\* The pipeline's unwind to u keeps the bodies up to u, and leaves Senders
\* at or below u: unwound to u, or skipped because it is at or below u.
LEMMA UnwindIInv ==
    ASSUME IInv, PipelineUnwind
    PROVE  IInv'
<1>1. PICK block \in 0..BodiesProgress :
          LET u == IF block = 0 THEN 0 ELSE block - 1 IN
          /\ IF SkipLagging /\ progress <= u
             THEN UNCHANGED <<senders, progress>>
             ELSE /\ senders' = SendersUnwind(u)
                  /\ progress' = u
          /\ bodies' = SubSeq(bodies, 1, u + 1)
  BY DEF PipelineUnwind
<1> DEFINE u == IF block = 0 THEN 0 ELSE block - 1
<1> USE DEF u
<1>2. bodies \in Seq(0..MaxTxs) /\ Len(bodies) \in 1..(MaxBlock + 1)
  BY DEF IInv, TypeOK
<1>3. u \in Nat /\ u + 1 <= Len(bodies)
  BY <1>2 DEF BodiesProgress
<1>4. bodies' \in Seq(0..MaxTxs) /\ Len(bodies') = u + 1
  <2>1. \A i \in 1..(u + 1) : bodies[i] \in 0..MaxTxs
    BY <1>2, <1>3, ElementOfSeq
  <2>2. QED
    BY <1>1, <1>3, <2>1, SubSeqProperties
<1>5. /\ progress' \in Nat /\ progress' <= u
      /\ senders' \subseteq senders
  <2>1. CASE SkipLagging /\ progress <= u
    BY <1>1, <2>1 DEF IInv, TypeOK
  <2>2. CASE ~(SkipLagging /\ progress <= u)
    BY <1>1, <2>2 DEF SendersUnwind
  <2>3. QED
    BY <2>1, <2>2
<1>6. u + 1 \in 1..(MaxBlock + 1) /\ progress' \in 0..MaxBlock
  BY <1>2, <1>3, <1>5
<1>7. unwinds' \in 0..MaxUnwinds /\ faults' = faults /\ rerun' = TRUE
  BY DEF PipelineUnwind, IInv, TypeOK
<1>8. QED
  BY <1>4, <1>5, <1>6, <1>7 DEF IInv, TypeOK, StageOrder, BodiesProgress

LEMMA NextIInv == IInv /\ [Next]_vars => IInv'
<1> SUFFICES ASSUME IInv, [Next]_vars PROVE IInv'
  OBVIOUS
<1>1. CASE SendersExecute
  BY <1>1, ExecuteIInv
<1>2. CASE SendersRecoveryError
  BY <1>2 DEF SendersRecoveryError, IInv, TypeOK, StageOrder, BodiesProgress
<1>3. CASE SendersNoWork
  BY <1>3 DEF SendersNoWork, vars, IInv, TypeOK, StageOrder, BodiesProgress
<1>4. CASE BodiesAdvance
  BY <1>4, BodiesAdvanceIInv
<1>5. CASE PipelineUnwind
  BY <1>5, UnwindIInv
<1>6. CASE UNCHANGED vars
  BY <1>6 DEF vars, IInv, TypeOK, StageOrder, BodiesProgress
<1>7. QED
  BY <1>1, <1>2, <1>3, <1>4, <1>5, <1>6 DEF Next
-----------------------------------------------------------------------------
(* No sender above the checkpoint (SendersNoneAbove).                      *)

\* The tx_counts of the bodies are naturals.
LEMMA BodiesNat ==
    ASSUME TypeOK
    PROVE  /\ Len(bodies) \in Nat \ {0}
           /\ \A k \in 1..Len(bodies) : bodies[k] \in Nat
BY DEF TypeOK

\* last_tx_index of block n over the bodies b, with the saturating
\* subtraction of StoredBlockBody::last_tx_index.
LastOf(b, n) == IF Below(b, n + 1) = 0 THEN 0 ELSE Below(b, n + 1) - 1

\* Below the Bodies checkpoint, check_no_senders_by_block compares every
\* key with last_tx_index of the checkpoint's block.
LEMMA NoneAboveIs ==
    ASSUME StageOrder
    PROVE  SendersNoneAbove <=> \A k \in senders : k <= LastOf(bodies, progress)
BY TxsBelowIsBelow
   DEF StageOrder, SendersNoneAbove, CheckNoSendersByBlock, LastTxIndex, LastOf

LEMMA NoneAboveIsPrime ==
    ASSUME StageOrder'
    PROVE  SendersNoneAbove' <=> \A k \in senders' : k <= LastOf(bodies', progress')
BY DEF StageOrder, SendersNoneAbove, CheckNoSendersByBlock, LastTxIndex, LastOf,
       TxsBelow, Below, BodiesProgress

\* last_tx_index grows with the block.
LEMMA LastOfMono ==
    ASSUME NEW b, NEW n \in Nat, \A k \in 1..n : b[k] \in Nat,
           NEW m \in Nat, NEW m2 \in Nat, m <= m2, m2 + 1 <= n
    PROVE  LastOf(b, m) <= LastOf(b, m2)
<1>1. \A k \in 1..(m2 + 1) : b[k] \in Nat
  OBVIOUS
<1>2. Below(b, m + 1) \in Nat /\ Below(b, m2 + 1) \in Nat
  BY <1>1, BelowNat
<1>3. Below(b, m + 1) <= Below(b, m2 + 1)
  BY <1>1, BelowMono
<1>4. QED
  BY <1>2, <1>3 DEF LastOf

\* last_tx_index of block n reads only the bodies up to block n.
LEMMA LastOfAgree ==
    ASSUME NEW b, NEW c, NEW n \in Nat, \A k \in 1..(n + 1) : b[k] = c[k]
    PROVE  LastOf(b, n) = LastOf(c, n)
<1>1. Below(b, n + 1) = Below(c, n + 1)
  BY BelowAgree
<1>2. QED
  BY <1>1 DEF LastOf

\* The inductive invariant: StageOrder keeps the checkpoint's body in the
\* table, so that check_no_senders_by_block compares with its last_tx_index.
NInv == IInv /\ SendersNoneAbove

\* A step that keeps the bodies, the senders and the checkpoint keeps
\* SendersNoneAbove.
LEMMA KeepNoneAbove ==
    ASSUME NInv, IInv', UNCHANGED <<bodies, senders, progress>>
    PROVE  SendersNoneAbove'
<1>1. LastOf(bodies', progress') = LastOf(bodies, progress)
  OBVIOUS
<1>2. QED
  BY <1>1, NoneAboveIs, NoneAboveIsPrime DEF NInv, IInv

\* execute appends keys up to last_tx_index of max_block_num and moves the
\* checkpoint there; the keys already stored are below last_tx_index of
\* the old checkpoint, which is not above it.
LEMMA ExecuteNoneAbove ==
    ASSUME NInv, IInv', SendersExecute
    PROVE  SendersNoneAbove'
<1> DEFINE p == progress  M == MaxBlockNum  L == Len(bodies)
<1> USE DEF p, M, L
<1>1. L \in Nat /\ \A k \in 1..L : bodies[k] \in Nat
  BY BodiesNat DEF NInv, IInv
<1>2. M \in Nat /\ p \in Nat /\ p < M /\ M + 1 <= L
  <2>1. M \in Nat /\ M <= BodiesProgress
    BY MaxBlockNumBounds DEF NInv, IInv
  <2>2. QED
    BY <2>1, <1>1 DEF SendersExecute, NInv, IInv, TypeOK, BodiesProgress
<1>3. LastOf(bodies, p) <= LastOf(bodies, M)
  <2>1. p \in Nat /\ M \in Nat /\ p <= M /\ M + 1 <= L /\ L \in Nat
    BY <1>1, <1>2
  <2>2. \A k \in 1..L : bodies[k] \in Nat
    BY <1>1
  <2>3. QED
    BY <2>1, <2>2, LastOfMono
<1>4. \A k \in senders : k <= LastOf(bodies, p)
  BY NoneAboveIs DEF NInv, IInv
<1>5. LastTxIndex(M) = LastOf(bodies, M)
  BY TxsBelowIsBelow DEF LastTxIndex, LastOf
<1>6. senders \subseteq Nat /\ LastOf(bodies, p) \in Int /\ LastOf(bodies, M) \in Int
  <2>1. Below(bodies, p + 1) \in Nat /\ Below(bodies, M + 1) \in Nat
    BY <1>1, <1>2, BelowNat
  <2>2. QED
    BY <2>1 DEF NInv, IInv, TypeOK, LastOf
<1>7. \A k \in senders' : k <= LastOf(bodies, M)
  <2>1. \A k \in senders' : k \in senders \/ k <= LastTxIndex(M)
    BY DEF SendersExecute
  <2>2. ASSUME NEW k \in senders' PROVE k <= LastOf(bodies, M)
    <3>1. CASE k \in senders
      BY <3>1, <1>3, <1>4, <1>6
    <3>2. CASE ~(k \in senders)
      BY <3>2, <2>1, <1>5
    <3>3. QED
      BY <3>1, <3>2
  <2>3. QED
    BY <2>2
<1>8. bodies' = bodies /\ progress' = M
  BY DEF SendersExecute
<1>9. QED
  BY <1>7, <1>8, NoneAboveIsPrime DEF IInv

\* The Bodies stage appends after the last body, above the checkpoint.
LEMMA BodiesAdvanceNoneAbove ==
    ASSUME NInv, IInv', BodiesAdvance
    PROVE  SendersNoneAbove'
<1>1. PICK k \in 0..MaxTxs : bodies' = Append(bodies, k)
  BY DEF BodiesAdvance
<1>2. bodies \in Seq(0..MaxTxs) /\ progress \in Nat /\ progress + 1 <= Len(bodies)
  BY DEF NInv, IInv, TypeOK, StageOrder, BodiesProgress
<1>3. \A i \in 1..(progress + 1) : bodies'[i] = bodies[i]
  BY <1>1, <1>2, AppendProperties
<1>4. LastOf(bodies', progress) = LastOf(bodies, progress)
  BY <1>2, <1>3, LastOfAgree
<1>5. QED
  BY <1>4, NoneAboveIs, NoneAboveIsPrime DEF BodiesAdvance, NInv, IInv

\* The pipeline's unwind to u keeps the bodies up to u.  A skipped stage is
\* at or below u, so its last_tx_index reads kept bodies only; an unwound
\* one keeps the keys up to last_tx_index of u and moves to u.
LEMMA UnwindNoneAbove ==
    ASSUME NInv, IInv', PipelineUnwind
    PROVE  SendersNoneAbove'
<1>1. PICK block \in 0..BodiesProgress :
          LET u == IF block = 0 THEN 0 ELSE block - 1 IN
          /\ IF SkipLagging /\ progress <= u
             THEN UNCHANGED <<senders, progress>>
             ELSE /\ senders' = SendersUnwind(u)
                  /\ progress' = u
          /\ bodies' = SubSeq(bodies, 1, u + 1)
  BY DEF PipelineUnwind
<1> DEFINE u == IF block = 0 THEN 0 ELSE block - 1
           p == progress
<1> USE DEF u, p
<1>2. /\ bodies \in Seq(0..MaxTxs) /\ Len(bodies) \in Nat \ {0}
      /\ p \in Nat /\ p + 1 <= Len(bodies)
  BY DEF NInv, IInv, TypeOK, StageOrder, BodiesProgress
<1>3. u \in Nat /\ u + 1 <= Len(bodies)
  BY <1>2 DEF BodiesProgress
<1>4. \A i \in 1..(u + 1) : bodies'[i] = bodies[i]
  <2>1. \A i \in 1..(u + 1) : bodies[i] \in 0..MaxTxs
    BY <1>2, <1>3, ElementOfSeq
  <2>2. \A i \in 1..(u + 1) : SubSeq(bodies, 1, u + 1)[i] = bodies[1 + i - 1]
    BY <1>3, <2>1, SubSeqProperties
  <2>3. QED
    BY <1>1, <2>2
<1>5. CASE SkipLagging /\ p <= u
  <2>1. UNCHANGED <<senders, progress>>
    BY <1>1, <1>5
  <2>2. LastOf(bodies', p) = LastOf(bodies, p)
    BY <1>2, <1>3, <1>4, <1>5, LastOfAgree
  <2>3. QED
    BY <2>1, <2>2, NoneAboveIs, NoneAboveIsPrime DEF NInv, IInv
<1>6. CASE ~(SkipLagging /\ p <= u)
  <2>1. senders' = SendersUnwind(u) /\ progress' = u
    BY <1>1, <1>6
  <2>2. LastTxIndex(u) = LastOf(bodies, u)
    BY TxsBelowIsBelow DEF LastTxIndex, LastOf
  <2>3. LastOf(bodies', u) = LastOf(bodies, u)
    BY <1>3, <1>4, LastOfAgree
  <2>4. \A k \in senders' : k <= LastOf(bodies', progress')
    BY <2>1, <2>2, <2>3 DEF SendersUnwind
  <2>5. QED
    BY <2>4, NoneAboveIsPrime DEF IInv
<1>7. QED
  BY <1>5, <1>6

LEMMA InitNInv == Init => NInv
<1> SUFFICES ASSUME Init PROVE NInv
  OBVIOUS
<1>1. IInv
  BY InitIInv
<1>2. \A k \in senders : k <= LastOf(bodies, progress)
  <2>1. senders = 0..(Below(bodies, 1) - 1) /\ progress = 0
    BY TxsBelowIsBelow DEF Init
  <2>2. Below(bodies, 1) \in Nat
    BY <1>1, BodiesNat, BelowNat DEF IInv
  <2>3. QED
    BY <2>1, <2>2 DEF LastOf
<1>3. QED
  BY <1>1, <1>2, NoneAboveIs DEF NInv, IInv

LEMMA NextNInv == NInv /\ [Next]_vars => NInv'
<1> SUFFICES ASSUME NInv, [Next]_vars PROVE NInv'
  OBVIOUS
<1>1. IInv'
  BY NextIInv DEF NInv
<1>2. SendersNoneAbove'
  <2>1. CASE SendersExecute
    BY <1>1, <2>1, ExecuteNoneAbove
  <2>2. CASE SendersRecoveryError
    BY <1>1, <2>2, KeepNoneAbove DEF SendersRecoveryError
  <2>3. CASE SendersNoWork
    BY <1>1, <2>3, KeepNoneAbove DEF SendersNoWork
  <2>4. CASE BodiesAdvance
    BY <1>1, <2>4, BodiesAdvanceNoneAbove
  <2>5. CASE PipelineUnwind
    BY <1>1, <2>5, UnwindNoneAbove
  <2>6. CASE UNCHANGED vars
    BY <1>1, <2>6, KeepNoneAbove DEF vars
  <2>7. QED
    BY <2>1, <2>2, <2>3, <2>4, <2>5, <2>6 DEF Next
<1>3. QED
  BY <1>1, <1>2 DEF NInv

-----------------------------------------------------------------------------
(* The theorems.                                                           *)

\* For every commit threshold, chain length, body sizes and bound on
\* unwinds and faults, and with or without the pipeline's skip of lagging
\* stages, the Senders checkpoint never passes the Bodies checkpoint
\* (StageOrder, spec 3 invariant 5): execute stops at max_block_num and the
\* pipeline's unwind never leaves Senders above its target.
THEOREM StageOrderInvariant == Spec => []StageOrder
<1>1. Spec => []IInv
  BY InitIInv, NextIInv, PTL DEF Spec
<1>2. QED
  BY <1>1, PTL DEF IInv

\* For every commit threshold, chain length, body sizes, genesis body and
\* bound on unwinds and faults, with or without the pipeline's skip of
\* lagging stages, check_no_senders_by_block holds at the checkpoint: no
\* TxSenders key lies above last_tx_index of its block, across execute's
\* appends, recovery failures that drop their transaction, Bodies appends
\* and the pipeline's unwinds (SendersNoneAbove).
THEOREM SendersNoneAboveInvariant == Spec => []SendersNoneAbove
<1>1. Spec => []NInv
  BY InitNInv, NextNInv, PTL DEF Spec
<1>2. QED
  BY <1>1, PTL DEF NInv

\* The bodies, the TxSenders keys and the checkpoint stay in their types
\* (TypeOK): the bodies stay a sequence of at most MaxBlock + 1 tx_counts
\* through appends and the unwind's SubSeq.
THEOREM SendersTypeCorrect == Spec => []TypeOK
<1>1. Spec => []IInv
  BY InitIInv, NextIInv, PTL DEF Spec
<1>2. QED
  BY <1>1, PTL DEF IInv
==============================================================================
