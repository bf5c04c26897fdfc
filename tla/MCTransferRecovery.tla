------------------------ MODULE MCTransferRecovery ------------------------
(* TLC instances of TransferRecovery: the slots are model values.          *)
EXTENDS TransferRecovery

CONSTANTS a, b, c
=============================================================================
