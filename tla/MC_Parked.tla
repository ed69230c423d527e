----------------------------- MODULE MC_Parked -----------------------------
EXTENDS ParkedPool

\* Three transaction ids and two fee levels besides None.
MCTxIds == {1, 2, 3}
MCFees == {1, 2}
==============================================================================
