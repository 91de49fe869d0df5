---------------------------- MODULE MCPayloadStart ----------------------------
(***************************************************************************)
(* Small instances of PayloadStart for TLC: a proxy, and two clients with  *)
(* a copy of the payload each.                                             *)
(***************************************************************************)
EXTENDS PayloadStart, TLC

CONSTANTS c1, c2, g1, g2

OwnCopies == (c1 :> g1) @@ (c2 :> g2)

================================================================================
