--------------------------- MODULE MCNfeSaleDispatch ---------------------------
EXTENDS NfeSaleDispatch, TLC

CONSTANTS r1, r2

RequestSymmetry == Permutations({r1, r2})

================================================================================
