----------------------------- MODULE MCHandleTable -----------------------------
(***************************************************************************)
(* A table of a few slots whose handles collide: for TLC.                  *)
(***************************************************************************)
EXTENDS HandleTable

\* Three handles start at the last slot and wrap around, one starts where they go.
CollidingKeys == {4, 8, 12, 16}
CollidingHash == [k \in CollidingKeys |-> IF k = 16 THEN 0 ELSE TableSize - 1]

================================================================================
