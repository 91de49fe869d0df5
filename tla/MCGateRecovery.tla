---------------------------- MODULE MCGateRecovery ----------------------------
(***************************************************************************)
(* Small instances of GateRecovery for TLC.                                *)
(***************************************************************************)
EXTENDS GateRecovery, TLC

AllCommands == Requests
LeasesOnly == {"AcquireLease"}

\* Workers are interchangeable.  Only for safety runs.
WorkerSymmetry == Permutations(Workers)

================================================================================
