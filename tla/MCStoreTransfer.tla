--------------------------- MODULE MCStoreTransfer ---------------------------
(* StoreTransfer for TLC.                                                   *)
EXTENDS StoreTransfer, TLC

CONSTANTS k1, k2, w1, w2, w3
TwoKeys == {k1, k2}
TwoWrites == {w1, w2}
ThreeWrites == {w1, w2, w3}
=============================================================================
