------------------------------- MODULE HandleMap -------------------------------
(***************************************************************************)
(* What the detours may expect of the handle table: a map from handle      *)
(* values to what is known about them.  A handle is recorded, recorded     *)
(* anew or forgotten without touching what is known of any other; a handle *)
(* that is not known yet may fail to be recorded, and is then unknown.     *)
(***************************************************************************)

CONSTANT Keys           \* the handle values

VARIABLE known          \* what the map says of each of them

Init == known = [k \in Keys |-> "Unknown"]

Remember(k, class) ==
    \/ known' = [known EXCEPT ![k] = class]
    \/ known[k] = "Unknown" /\ UNCHANGED known

Forget(k) == known' = [known EXCEPT ![k] = "Unknown"]

Next ==
    \E k \in Keys :
        \/ \E class \in {"Hid", "Other"} : Remember(k, class)
        \/ Forget(k)

Spec == Init /\ [][Next]_known

================================================================================
