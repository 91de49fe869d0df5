----------------------------- MODULE MCHostLease -----------------------------
(***************************************************************************)
(* Small instances of HostLease for TLC: two programs with a lease and one *)
(* with a pass-through.                                                    *)
(***************************************************************************)
EXTENDS HostLease

CONSTANTS w1, w2, w3

AllCommands == {"AcquireLease", "AcquirePassThrough", "Invalid"}

TwoLeasesAndPass == [w \in Workers |-> IF w = w3 THEN "AcquirePassThrough" ELSE "AcquireLease"]

================================================================================
