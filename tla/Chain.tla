-------------------------------- MODULE Chain --------------------------------
(***************************************************************************)
(* The tree of block headers that exists on the network.  A header is     *)
(* named by its hash (reth_primitives::SealedHeader): its number and its  *)
(* parent hash are fixed by the hash, so the tables of the database store *)
(* hashes and the header body is recovered from Number and Parent.        *)
(***************************************************************************)
EXTENDS Naturals

CONSTANTS
    Hash,       \* hashes of the headers that exist on the network
    Genesis,    \* the genesis header, preloaded in every database
    Parent,     \* Parent[h]: header.parent_hash (NoHash for the genesis)
    Number,     \* Number[h]: header.number
    MaxNumber,  \* the highest header number in the tree
    HashRank,   \* HashRank[h]: the position of h in the byte order of hashes
    NoHash      \* the zero hash, and an absent CanonicalHeaders entry

Nums == 0..MaxNumber

ASSUME ChainAssumption ==
    /\ Genesis \in Hash
    /\ MaxNumber \in Nat
    /\ NoHash \notin Hash
    /\ Number \in [Hash -> Nums]
    /\ Parent \in [Hash -> Hash \cup {NoHash}]
    /\ Number[Genesis] = 0
    /\ Parent[Genesis] = NoHash
    /\ \A h \in Hash \ {Genesis} :
          /\ Parent[h] \in Hash
          /\ Number[h] = Number[Parent[h]] + 1
    /\ HashRank \in [Hash -> Nat]
    /\ \A g, h \in Hash : HashRank[g] = HashRank[h] => g = h

\* The larger of two numbers (u64::max).
MaxOf(a, b) == IF a >= b THEN a ELSE b

\* Composite key order of the (number, hash) tables Headers and HeaderTD:
\* by number, then by hash (BlockNumHash encoding).
KeyLeq(g, h) ==
    \/ Number[g] < Number[h]
    \/ Number[g] = Number[h] /\ HashRank[g] <= HashRank[h]
==============================================================================
