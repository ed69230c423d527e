----------------------------- MODULE ParkedPool -----------------------------
(***************************************************************************)
(* ParkedPool (crates/transaction-pool/src/pool/parked.rs): a map by      *)
(* transaction id and a BTreeSet ordered by the ParkedOrd wrapper, which   *)
(* must hold the same transactions.  The BTreeSet is modelled by what it   *)
(* does with the comparator: insert keeps the set unchanged when an equal  *)
(* element is present, remove deletes the element equal to the argument.   *)
(* A transaction id (sender, nonce) is a number in the order of            *)
(* TransactionId's Ord; a transaction is its id and its max_fee_per_gas.   *)
(***************************************************************************)
EXTENDS Integers, TLC

CONSTANTS
    TxIds,      \* transaction ids, in the order of TransactionId
    Fees,       \* max_fee_per_gas values of the transactions
    NoFee,      \* max_fee_per_gas() = None
    Ordering,   \* the ParkedOrd wrapper: "basefee" (BasefeeOrd) or "queued" (QueuedOrd)
    IdWidth     \* bits of submission_id (u64 in the code)

ASSUME ParkedAssumption ==
    /\ TxIds \subseteq Nat
    /\ Fees \subseteq Nat
    /\ NoFee \notin Fees
    /\ Ordering \in {"basefee", "queued"}
    /\ IdWidth \in Nat \ {0}

VARIABLES
    submissionId,  \* ParkedPool::submission_id
    byId,          \* ParkedPool::by_id
    best           \* ParkedPool::best

vars == <<submissionId, byId, best>>

SubmissionIds == 0..(2^IdWidth - 1)

\* ParkedPoolTransaction { submission_id, transaction }.
Entries == [sid : SubmissionIds, id : TxIds, fee : Fees \cup {NoFee}]

TypeOK ==
    /\ submissionId \in SubmissionIds
    /\ DOMAIN byId \subseteq TxIds
    /\ \A i \in DOMAIN byId : byId[i] \in Entries /\ byId[i].id = i
    /\ best \subseteq Entries

\* Ordering of two values, as -1 (Less), 0 (Equal) or 1 (Greater).
Compare(x, y) == IF x < y THEN -1 ELSE IF x = y THEN 0 ELSE 1

\* Ord of BasefeeOrd: by max_fee_per_gas, None below Some; Ord of
\* QueuedOrd: always Equal.
PriorityCmp(a, b) ==
    IF Ordering = "queued" THEN 0
    ELSE CASE a.fee # NoFee /\ b.fee # NoFee -> Compare(a.fee, b.fee)
           [] a.fee = NoFee /\ b.fee # NoFee -> -1
           [] a.fee # NoFee /\ b.fee = NoFee -> 1
           [] OTHER                          -> 0

\* Mutant: the comparator without the tie-break on the transaction id.
ParkedCmpPriorityOnly(a, b) == PriorityCmp(a, b)

\* Ord of ParkedPoolTransaction: the wrapper's order, then the transaction
\* id; PartialEq is cmp = Equal.
ParkedCmp(a, b) ==
    LET p == PriorityCmp(a, b) IN
    IF p # 0 THEN p ELSE Compare(a.id, b.id)

\* BTreeSet::insert: no change when an equal element is present.
SetInsert(s, e) == IF \E x \in s : ParkedCmp(x, e) = 0 THEN s ELSE s \cup {e}

\* BTreeSet::remove: deletes the element equal to e.
SetRemove(s, e) == {x \in s : ParkedCmp(x, e) # 0}

\* Mutant: the counter is incremented without wrapping.
NextSubmissionIdUnwrapped == submissionId + 1

\* next_id: the current submission_id, which then wraps around on overflow.
NextSubmissionId == (submissionId + 1) % (2^IdWidth)

\* add_transaction: asserts the id is new, tags the transaction with the
\* next submission id and inserts it in both indexes.
AddTransaction(id, fee) ==
    LET e == [sid |-> submissionId, id |-> id, fee |-> fee] IN
    /\ id \notin DOMAIN byId
    /\ submissionId' = NextSubmissionId
    /\ byId' = [i \in DOMAIN byId \cup {id} |-> IF i = id THEN e ELSE byId[i]]
    /\ best' = SetInsert(best, e)

\* remove_transaction: removes the entry by id, then the same entry from the
\* ordered set (an absent id returns None and changes nothing).
RemoveTransaction(id) ==
    /\ id \in DOMAIN byId
    /\ byId' = [i \in DOMAIN byId \ {id} |-> byId[i]]
    /\ best' = SetRemove(best, byId[id])
    /\ UNCHANGED submissionId

Init ==
    /\ submissionId = 0
    /\ byId = << >>
    /\ best = {}

Next ==
    \/ \E id \in TxIds, fee \in Fees \cup {NoFee} : AddTransaction(id, fee)
    \/ \E id \in TxIds : RemoveTransaction(id)

Spec == Init /\ [][Next]_vars

-----------------------------------------------------------------------------

\* The pool is a bijection (parked.rs doc comment, spec 8): after any sequence
\* of insertions and removals by_id and best hold the same transactions.
ParkedBijection == {byId[i] : i \in DOMAIN byId} = best

\* Spec 4.7: the comparator is priority then submission id, so transactions
\* of equal priority leave the ordered set in FIFO order of submission.
ParkedFifo ==
    \A a, b \in best :
        PriorityCmp(a, b) = 0 /\ a.sid < b.sid => ParkedCmp(a, b) = -1
==============================================================================
