---------------------------- MODULE MCGateOwnership ----------------------------
(***************************************************************************)
(* Small instances of GateOwnership for TLC.                               *)
(***************************************************************************)
EXTENDS GateOwnership, TLC

AllCommands == Requests
OwnershipCommands == {"AcquireLease", "AcquirePassThrough"}

\* Workers are interchangeable: no action names one.  Only for safety runs.
WorkerSymmetry == Permutations(Workers)

================================================================================
