--------------------------- MODULE CanonicalChain ---------------------------
(***************************************************************************)
(* What the Headers stage promises the stages after it: the canonical     *)
(* headers up to its checkpoint form one chain from the genesis, each the *)
(* child of the one below, and a step either grows that chain by a linked *)
(* segment or cuts it back to a prefix (an unwind).  Headers above the    *)
(* checkpoint are the stage's own business and are not part of it.        *)
(***************************************************************************)
EXTENDS Chain

VARIABLES
    chain,  \* chain[n]: the canonical header at n, NoHash above top
    top     \* the checkpoint

Init ==
    /\ top = 0
    /\ chain = [n \in Nums |-> IF n = 0 THEN Genesis ELSE NoHash]

\* The checkpoint moves up to a higher number; the headers at or below the
\* old checkpoint stay, and each new one is the child of the one below.
Extend ==
    /\ top' \in Nums
    /\ top' > top
    /\ chain' \in [Nums -> Hash \cup {NoHash}]
    /\ \A n \in Nums : n <= top => chain'[n] = chain[n]
    /\ \A n \in Nums : top < n /\ n <= top' =>
          chain'[n] \in Hash /\ Parent[chain'[n]] = chain'[n - 1]
    /\ \A n \in Nums : n > top' => chain'[n] = NoHash

\* The checkpoint moves down to u; the headers above it are dropped.
Unwind ==
    \E u \in 0..top :
        /\ top' = u
        /\ chain' = [n \in Nums |-> IF n <= u THEN chain[n] ELSE NoHash]

Next == Extend \/ Unwind

Spec == Init /\ [][Next]_<<chain, top>>

\* The chain up to the checkpoint is linked from the genesis.
ChainLinked ==
    /\ chain[0] = Genesis
    /\ \A n \in Nums : 0 < n /\ n <= top =>
          chain[n] \in Hash /\ Parent[chain[n]] = chain[n - 1]
==============================================================================
