-------------------------- MODULE ParkedPool_proofs --------------------------
(***************************************************************************)
(* Proofs that by_id and best of the parked pool hold the same            *)
(* transactions after any sequence of add_transaction and                 *)
(* remove_transaction calls, for every set of ids and fees, either        *)
(* ParkedOrd wrapper and every width of submission_id.                     *)
(*                                                                         *)
(* The BTreeSet keeps, removes and rejects by the comparator, not by      *)
(* equality of entries.  The argument rests on two facts about ParkedCmp: *)
(* it says Equal only for entries with the same transaction id (the      *)
(* tie-break), and it says Equal for an entry and itself.  Since by_id    *)
(* has one entry per id, an insert never meets an entry it compares equal *)
(* to, and a remove deletes exactly the entry of the id.                  *)
(***************************************************************************)
EXTENDS ParkedPool, FiniteSetTheorems, TLAPS

IInv == TypeOK /\ ParkedBijection

USE ParkedAssumption
-----------------------------------------------------------------------------
(* The submission counter.                                                 *)

\* 2^IdWidth is a positive natural: the number of subsets of 1..IdWidth.
LEMMA PowerPositive == 2^IdWidth \in Nat /\ 2^IdWidth > 0
<1>1. IsFiniteSet(1..IdWidth) /\ Cardinality(1..IdWidth) = IdWidth
  BY FS_Interval
<1>2. IsFiniteSet(SUBSET (1..IdWidth))
      /\ Cardinality(SUBSET (1..IdWidth)) = 2^IdWidth
  BY <1>1, FS_SUBSET
<1>3. Cardinality(SUBSET (1..IdWidth)) \in Nat
      /\ Cardinality(SUBSET (1..IdWidth)) # 0
  BY <1>2, FS_CardinalityType, FS_EmptySet
<1>4. QED
  BY <1>2, <1>3

\* next_id's wrapping_add stays within the submission ids.
LEMMA NextSubmissionIdType ==
    ASSUME submissionId \in SubmissionIds
    PROVE  NextSubmissionId \in SubmissionIds
BY PowerPositive DEF NextSubmissionId, SubmissionIds
-----------------------------------------------------------------------------
(* The comparator.                                                         *)

\* ParkedCmp says Equal only for entries of the same transaction id.
LEMMA CmpEqualSameId ==
    ASSUME NEW a \in Entries, NEW b \in Entries, ParkedCmp(a, b) = 0
    PROVE  a.id = b.id
<1>1. PriorityCmp(a, b) = 0
  BY DEF ParkedCmp
<1>2. Compare(a.id, b.id) = 0
  BY <1>1 DEF ParkedCmp
<1>3. a.id \in Nat /\ b.id \in Nat
  BY DEF Entries
<1>4. QED
  BY <1>2, <1>3 DEF Compare

\* ParkedCmp says Equal for an entry and itself.
LEMMA CmpSelf ==
    ASSUME NEW a \in Entries
    PROVE  ParkedCmp(a, a) = 0
<1>1. a.id \in Nat /\ a.fee \in Fees \cup {NoFee}
  BY DEF Entries
<1>2. PriorityCmp(a, a) = 0
  <2>1. CASE Ordering = "queued"
    BY <2>1 DEF PriorityCmp
  <2>2. CASE Ordering # "queued" /\ a.fee = NoFee
    BY <2>2 DEF PriorityCmp
  <2>3. CASE Ordering # "queued" /\ a.fee # NoFee
    <3>0. a.fee \in Nat
      BY <1>1, <2>3
    <3>1. Compare(a.fee, a.fee) = 0
      BY <3>0 DEF Compare
    <3>2. QED
      BY <2>3, <3>1 DEF PriorityCmp
  <2>4. QED
    BY <2>1, <2>2, <2>3
<1>3. Compare(a.id, a.id) = 0
  BY <1>1 DEF Compare
<1>4. QED
  BY <1>2, <1>3 DEF ParkedCmp
-----------------------------------------------------------------------------
(* The operations.                                                         *)

LEMMA InitIInv == Init => IInv
BY PowerPositive DEF Init, IInv, TypeOK, ParkedBijection, SubmissionIds

\* add_transaction of a new id: the entry is new to by_id, and best has no
\* entry comparing equal to it, so both indexes gain it.
LEMMA AddIInv ==
    ASSUME IInv, NEW id \in TxIds, NEW fee \in Fees \cup {NoFee},
           AddTransaction(id, fee)
    PROVE  IInv'
<1> DEFINE e == [sid |-> submissionId, id |-> id, fee |-> fee]
<1> USE DEF e
<1>1. e \in Entries
  BY DEF IInv, TypeOK, Entries
<1>2. id \notin DOMAIN byId /\ best' = SetInsert(best, e)
      /\ byId' = [i \in DOMAIN byId \cup {id} |-> IF i = id THEN e ELSE byId[i]]
  BY DEF AddTransaction
<1>3. \A x \in best : ParkedCmp(x, e) # 0
  <2> SUFFICES ASSUME NEW x \in best, ParkedCmp(x, e) = 0 PROVE FALSE
    OBVIOUS
  <2>1. x \in Entries
    BY DEF IInv, TypeOK
  <2>2. x.id = id
    BY <2>1, <1>1, CmpEqualSameId
  <2>3. PICK i \in DOMAIN byId : byId[i] = x
    BY DEF IInv, ParkedBijection
  <2>4. x.id = i
    BY <2>3 DEF IInv, TypeOK
  <2>5. QED
    BY <1>2, <2>2, <2>3, <2>4
<1>4. best' = best \cup {e}
  BY <1>2, <1>3 DEF SetInsert
<1>5. DOMAIN byId' = DOMAIN byId \cup {id}
      /\ byId'[id] = e
      /\ \A i \in DOMAIN byId : byId'[i] = byId[i]
  BY <1>2
<1>6. ParkedBijection'
  BY <1>4, <1>5 DEF IInv, ParkedBijection
<1>7. TypeOK'
  <2>1. submissionId' \in SubmissionIds
    BY NextSubmissionIdType DEF AddTransaction, IInv, TypeOK
  <2>2. QED
    BY <2>1, <1>1, <1>4, <1>5 DEF IInv, TypeOK
<1>8. QED
  BY <1>6, <1>7 DEF IInv

\* remove_transaction of a present id: the only entry of best comparing
\* equal to by_id[id] is that entry itself.
LEMMA RemoveIInv ==
    ASSUME IInv, NEW id \in TxIds, RemoveTransaction(id)
    PROVE  IInv'
<1> DEFINE D == DOMAIN byId
<1> USE DEF D
<1>1. id \in D /\ byId' = [i \in D \ {id} |-> byId[i]]
      /\ best' = SetRemove(best, byId[id])
      /\ submissionId' = submissionId
  BY DEF RemoveTransaction
<1>2. \A i \in D : byId[i] \in Entries /\ byId[i].id = i
  BY DEF IInv, TypeOK
<1>3. \A i \in D : ParkedCmp(byId[i], byId[id]) = 0 <=> i = id
  <2> SUFFICES ASSUME NEW i \in D PROVE ParkedCmp(byId[i], byId[id]) = 0 <=> i = id
    OBVIOUS
  <2>1. i = id => ParkedCmp(byId[i], byId[id]) = 0
    BY <1>1, <1>2, CmpSelf
  <2>2. ParkedCmp(byId[i], byId[id]) = 0 => i = id
    BY <1>1, <1>2, CmpEqualSameId
  <2>3. QED
    BY <2>1, <2>2
<1>4. best' = {byId[i] : i \in D \ {id}}
  <2>1. best = {byId[i] : i \in D}
    BY DEF IInv, ParkedBijection
  <2>2. QED
    BY <1>1, <1>3, <2>1 DEF SetRemove
<1>5. ParkedBijection'
  BY <1>1, <1>4 DEF ParkedBijection
<1>6. TypeOK'
  BY <1>1, <1>2, <1>4 DEF IInv, TypeOK
<1>7. QED
  BY <1>5, <1>6 DEF IInv

LEMMA NextIInv == IInv /\ [Next]_vars => IInv'
<1> SUFFICES ASSUME IInv, [Next]_vars PROVE IInv'
  OBVIOUS
<1>1. CASE \E id \in TxIds, fee \in Fees \cup {NoFee} : AddTransaction(id, fee)
  BY <1>1, AddIInv
<1>2. CASE \E id \in TxIds : RemoveTransaction(id)
  BY <1>2, RemoveIInv
<1>3. CASE UNCHANGED vars
  BY <1>3 DEF vars, IInv, TypeOK, ParkedBijection
<1>4. QED
  BY <1>1, <1>2, <1>3 DEF Next

\* The parked pool is a bijection (ParkedBijection, the doc comment of
\* ParkedPool and spec 8): for every set of ids and fees, either wrapper
\* and every counter width, by_id and best hold the same transactions after
\* any sequence of add_transaction and remove_transaction calls.
THEOREM ParkedBijectionInvariant == Spec => []ParkedBijection
<1>1. Spec => []IInv
  BY InitIInv, NextIInv, PTL DEF Spec
<1>2. QED
  BY <1>1, PTL DEF IInv

\* The pool's indexes and its wrapping submission counter stay in their
\* types (TypeOK): every by_id entry is keyed by its own id.
THEOREM ParkedTypeCorrect == Spec => []TypeOK
<1>1. Spec => []IInv
  BY InitIInv, NextIInv, PTL DEF Spec
<1>2. QED
  BY <1>1, PTL DEF IInv
==============================================================================
