------------------------- MODULE MCRecoveryResolution -------------------------
(***************************************************************************)
(* Small instances of RecoveryResolution for TLC.                          *)
(***************************************************************************)
EXTENDS RecoveryResolution

OneEach == [k \in Budgets |-> 1]

================================================================================
