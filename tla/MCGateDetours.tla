----------------------------- MODULE MCGateDetours -----------------------------
(***************************************************************************)
(* Small instances of GateDetours for TLC.                                 *)
(***************************************************************************)
EXTENDS GateDetours, TLC

\* Connections that own something: the others never touch the counters.
OwnershipCommands == {"AcquireLease", "AcquirePassThrough"}

\* Workers are interchangeable: no action names one.
WorkerSymmetry == Permutations(Workers)

================================================================================
