------------------------------- MODULE LeaseGate -------------------------------
(***************************************************************************)
(* What the payload promises the programs that share it, with no counters, *)
(* no mutex and no pipe workers.                                           *)
(*                                                                         *)
(* Clients own leases and pass-throughs.  Steam is kept away from its HID  *)
(* controllers while somebody owns a lease and nobody owns a pass-through. *)
(* Every change of that condition is followed by exactly one visit to      *)
(* Steam (its controllers are revoked, or it is asked to look for them     *)
(* again) before the ownership can change once more.                       *)
(***************************************************************************)

CONSTANT Clients    \* everybody who may ever ask for ownership

VARIABLES
    leases,         \* the clients that own a lease
    passes,         \* the clients that own a pass-through
    steam           \* "free" or "taken": the last visit to Steam

vars == <<leases, passes, steam>>

TypeOK ==
    /\ leases \in SUBSET Clients
    /\ passes \in SUBSET Clients
    /\ steam \in {"free", "taken"}

Init ==
    /\ leases = {}
    /\ passes = {}
    /\ steam = "free"

\* Steam has to be kept away from its controllers.
Blocked == leases # {} /\ passes = {}

\* The last visit to Steam is the one the present ownership calls for.
Settled == Blocked <=> steam = "taken"

Acquire(c) ==
    /\ Settled
    /\ c \notin leases \cup passes
    /\ \/ leases' = leases \cup {c} /\ UNCHANGED passes
       \/ passes' = passes \cup {c} /\ UNCHANGED leases
    /\ UNCHANGED steam

Release(c) ==
    /\ Settled
    /\ \/ c \in leases /\ leases' = leases \ {c} /\ UNCHANGED passes
       \/ c \in passes /\ passes' = passes \ {c} /\ UNCHANGED leases
    /\ UNCHANGED steam

\* Steam's controllers are revoked, or it is asked to find them again.
Visit ==
    /\ ~Settled
    /\ steam' = IF Blocked THEN "taken" ELSE "free"
    /\ UNCHANGED <<leases, passes>>

Next ==
    \/ \E c \in Clients : Acquire(c) \/ Release(c)
    \/ Visit

Safety == Init /\ [][Next]_vars

\* A client may keep what it owns for ever; the visit it owes Steam it may not.
Spec == Safety /\ WF_vars(Visit)

================================================================================
