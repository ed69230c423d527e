CONSTANTS
    TxIds <- MCTxIds
    Fees <- MCFees
    NoFee = NoFee
    Ordering = "basefee"
    IdWidth = 2

SPECIFICATION Spec

INVARIANT TypeOK
INVARIANT ParkedBijection
