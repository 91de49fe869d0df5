------------------------------ MODULE GateDetours ------------------------------
(***************************************************************************)
(* GateOwnership seen by Steam's threads: every detour and every gated     *)
(* export of the proxy asks blocking() once and then either denies the     *)
(* call or lets it through.  blocking() takes no lock: it loads the two    *)
(* counters one after the other, and workers run in between.               *)
(***************************************************************************)
EXTENDS GateOwnership

CONSTANT Callers        \* Steam's threads that are inside a gated call

VARIABLES
    call,               \* where each caller is in its gated call
    seen                \* history: the values of Blocking during that call

detourVars == <<call, seen>>
gateAndCalls == <<vars, detourVars>>

\* Every variable has its type.
DetourTypeOK ==
    /\ TypeOK
    /\ call \in [Callers -> {"idle", "readLeases", "readPasses", "denied", "admitted"}]
    /\ seen \in [Callers -> SUBSET BOOLEAN]

DetourInit ==
    /\ Init
    /\ call = [c \in Callers |-> "idle"]
    /\ seen = [c \in Callers |-> {}]

InCall(c) == call[c] \in {"readLeases", "readPasses"}

\* The call is entered: from here on a denial must have had a reason.
Enter(c) ==
    /\ call[c] = "idle"
    /\ call' = [call EXCEPT ![c] = "readLeases"]
    /\ seen' = [seen EXCEPT ![c] = {Blocking}]
    /\ UNCHANGED vars

\* blocking() is a short-circuit &&: without a lease the second load is not made.
SecondLeaseSeen == leaseCount > 1
LeaseSeen == leaseCount > 0

ReadLeases(c) ==
    /\ call[c] = "readLeases"
    /\ call' = [call EXCEPT ![c] = IF LeaseSeen THEN "readPasses" ELSE "admitted"]
    /\ UNCHANGED <<vars, seen>>

ReadPasses(c) ==
    /\ call[c] = "readPasses"
    /\ call' = [call EXCEPT ![c] = IF passCount = 0 THEN "denied" ELSE "admitted"]
    /\ UNCHANGED <<vars, seen>>

\* The detour returns its error, or what the real function returns.
Return(c) ==
    /\ call[c] \in {"denied", "admitted"}
    /\ call' = [call EXCEPT ![c] = "idle"]
    /\ seen' = [seen EXCEPT ![c] = {}]
    /\ UNCHANGED vars

\* A worker's step, which every call under way may live through.
Ownership ==
    /\ Next
    /\ seen' = [c \in Callers |-> IF InCall(c) THEN seen[c] \cup {Blocking'} ELSE seen[c]]
    /\ UNCHANGED call

DetourNext ==
    \/ Ownership
    \/ \E c \in Callers : Enter(c) \/ ReadLeases(c) \/ ReadPasses(c) \/ Return(c)

DetourSafety == DetourInit /\ [][DetourNext]_gateAndCalls

-----------------------------------------------------------------------------

\* A call reaches the real function only if blocking was off at some instant of
\* that call, however the two loads interleave with the workers: once a lease is
\* answered and no claim overrides it, no later call gets through.
AdmittedOnlyWhenOpen ==
    \A c \in Callers : call[c] = "admitted" => FALSE \in seen[c]

\* The inductive invariant: what a call under way has seen ends with the present.
SeenUpToNow == \A c \in Callers : InCall(c) => Blocking \in seen[c]

DetourInductive ==
    /\ call \in [Callers -> {"idle", "readLeases", "readPasses", "denied", "admitted"}]
    /\ seen \in [Callers -> SUBSET BOOLEAN]
    /\ SeenUpToNow
    /\ AdmittedOnlyWhenOpen

================================================================================
