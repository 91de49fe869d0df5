--------------------------- MODULE MCHandleRevocation ---------------------------
(***************************************************************************)
(* Small instances of HandleRevocation for TLC.                            *)
(***************************************************************************)
EXTENDS HandleRevocation, TLC

\* The entries are visited in any order, so nothing tells two numbers, two threads
\* or two objects of a kind apart.
RevocationSymmetry ==
    Permutations(Handles) \cup Permutations(Hids) \cup Permutations(Files)
        \cup Permutations(Events) \cup Permutations(Threads)

================================================================================
