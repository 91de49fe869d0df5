----------------------------- MODULE GateOwnership -----------------------------
(***************************************************************************)
(* The payload's pipe workers (client_thread in the gate's lib.rs): one    *)
(* thread per connection, two process-wide counters, and the mutex         *)
(* OWNERSHIP_TRANSITION that serializes their changes.  The detours read   *)
(* the counters without that mutex; they are not part of this module.      *)
(*                                                                         *)
(* A worker is one connection's thread and is never used again, so a       *)
(* finite set of workers is a finite number of connections.  The sweep     *)
(* over Steam's handle table and the controller rescan are each one step   *)
(* here, taken while the mutex is held.  The bounded caches an acquire     *)
(* resets belong to the discovery of Steam's HID thread, not to ownership. *)
(***************************************************************************)
EXTENDS Integers, FiniteSets

CONSTANTS
    Workers,        \* the threads of all connections there will ever be
    NoWorker,       \* nobody holds the mutex
    Commands        \* the kinds of first request the clients send

Requests == {"AcquireLease", "AcquirePassThrough", "QueryStatus", "Invalid"}

ASSUME NoWorkerAssumption == NoWorker \notin Workers
ASSUME CommandsAssumption == Commands \subseteq Requests

VARIABLES
    leaseCount,     \* LEASE_COUNT
    passCount,      \* PASS_THROUGH_COUNT
    transition,     \* who holds OWNERSHIP_TRANSITION
    hooks,          \* STATE of ensure_hooks_installed
    steam,          \* what was last done to Steam's controllers
    pc,             \* where each worker is in client_thread
    request,        \* the command each worker read
    owns,           \* its `lease` and `pass_through` flags
    result          \* the ResultCode of its first response

counters == <<leaseCount, passCount>>
vars == <<leaseCount, passCount, transition, hooks, steam, pc, request, owns, result>>

Results == {"Ok", "HookInstallFailed", "InvalidRequest"}
Locations == {"read", "hooks", "acquire", "revoke", "notify", "respond", "owned",
              "release", "released", "disconnect", "done"}

\* Every variable has its type.
TypeOK ==
    /\ leaseCount \in Nat
    /\ passCount \in Nat
    /\ transition \in Workers \cup {NoWorker}
    /\ hooks \in {"untried", "installed", "failed"}
    /\ steam \in {"free", "revoked", "unswept"}
    /\ pc \in [Workers -> Locations]
    /\ request \in [Workers -> Requests \cup {"none"}]
    /\ owns \in [Workers -> {"none", "lease", "pass"}]
    /\ result \in [Workers -> Results \cup {"none"}]

Init ==
    /\ leaseCount = 0
    /\ passCount = 0
    /\ transition = NoWorker
    /\ hooks = "untried"
    /\ steam = "free"
    /\ pc = [w \in Workers |-> "read"]
    /\ request = [w \in Workers |-> "none"]
    /\ owns = [w \in Workers |-> "none"]
    /\ result = [w \in Workers |-> "none"]

\* blocking(), for a caller that holds the mutex or for an observer of one state.
Blocking == leaseCount > 0 /\ passCount = 0

-----------------------------------------------------------------------------

At(w, location) == pc[w] = location
Goto(w, location) == pc' = [pc EXCEPT ![w] = location]

\* The first ReadFile: a command, or something that is not a valid request (a
\* short read, a wrong version, a release nobody asked for, end of file).
ReadRequest(w) ==
    /\ At(w, "read")
    /\ \E command \in Commands :
        /\ request' = [request EXCEPT ![w] = command]
        /\ Goto(w, CASE command = "AcquireLease" -> "hooks"
                     [] command = "AcquirePassThrough" -> "acquire"
                     [] OTHER -> "respond")
        /\ result' = [result EXCEPT ![w] =
                        CASE command = "QueryStatus" -> "Ok"
                          [] command = "Invalid" -> "InvalidRequest"
                          [] OTHER -> "none"]
    /\ UNCHANGED <<counters, transition, hooks, steam, owns>>

\* What ensure_hooks_installed can answer: it tries once and remembers.
RetriedInstall == {"installed", "failed"}
InstallOutcomes == IF hooks = "untried" THEN {"installed", "failed"} ELSE {hooks}

EnsureHooks(w) ==
    /\ At(w, "hooks")
    /\ hooks' \in InstallOutcomes
    /\ IF hooks' = "installed"
       THEN Goto(w, "acquire") /\ UNCHANGED result
       ELSE /\ Goto(w, "respond")
            /\ result' = [result EXCEPT ![w] = "HookInstallFailed"]
    /\ UNCHANGED <<counters, transition, steam, request, owns>>

\* Takes the mutex, does `change` and keeps the mutex for `visit` (a step at
\* "revoke" or "notify"), or gives it back at once and goes on at `location`.
KeepMutex(w, visit) == transition' = w /\ Goto(w, visit)
GiveBack(w, location) == UNCHANGED transition /\ Goto(w, location)

FirstByOldCount == leaseCount = 1 /\ Blocking'
FirstBlockingLease == leaseCount' = 1 /\ Blocking'

AcquireLease(w) ==
    /\ At(w, "acquire") /\ request[w] = "AcquireLease"
    /\ transition = NoWorker
    /\ leaseCount' = leaseCount + 1
    /\ passCount' = passCount
    /\ owns' = [owns EXCEPT ![w] = "lease"]
    /\ result' = [result EXCEPT ![w] = "Ok"]
    /\ IF FirstBlockingLease THEN KeepMutex(w, "revoke") ELSE GiveBack(w, "respond")
    /\ UNCHANGED <<hooks, steam, request>>

AcquirePassThrough(w) ==
    /\ At(w, "acquire") /\ request[w] = "AcquirePassThrough"
    /\ transition = NoWorker
    /\ passCount' = passCount + 1
    /\ owns' = [owns EXCEPT ![w] = "pass"]
    /\ result' = [result EXCEPT ![w] = "Ok"]
    /\ IF Blocking THEN KeepMutex(w, "notify") ELSE GiveBack(w, "respond")
    /\ UNCHANGED <<leaseCount, hooks, steam, request>>

\* discover_and_revoke_hid_handles: when neither way of listing the process'
\* handles works it returns having swept nothing, and its caller never knows.
AfterVisit(w) == IF owns[w] = "none" THEN "released" ELSE "respond"

Revoke(w) ==
    /\ At(w, "revoke")
    /\ steam' \in {"revoked", "unswept"}
    /\ transition' = NoWorker
    /\ Goto(w, AfterVisit(w))
    /\ UNCHANGED <<counters, hooks, request, owns, result>>

NotifyKeepsMutex(w) ==
    /\ At(w, "notify")
    /\ steam' = IF Blocking THEN steam ELSE "free"
    /\ Goto(w, AfterVisit(w))
    /\ UNCHANGED <<counters, transition, hooks, request, owns, result>>

\* notify_controller_rescan: it does nothing when blocking is on.
Notify(w) ==
    /\ At(w, "notify")
    /\ steam' = IF Blocking THEN steam ELSE "free"
    /\ transition' = NoWorker
    /\ Goto(w, AfterVisit(w))
    /\ UNCHANGED <<counters, hooks, request, owns, result>>

\* The first response, and for an owner the blocking read that follows it.
Respond(w) ==
    /\ At(w, "respond")
    /\ Goto(w, IF owns[w] = "none" THEN "disconnect" ELSE "owned")
    /\ UNCHANGED <<counters, transition, hooks, steam, request, owns, result>>

\* The owner's second read ends: its release command, any other bytes, or the
\* end of file a crashed client leaves.
ReadRelease(w) ==
    /\ At(w, "owned")
    /\ Goto(w, "release")
    /\ UNCHANGED <<counters, transition, hooks, steam, request, owns, result>>

DropFromBoth(w) ==
    /\ passCount' = IF owns[w] = "pass" THEN passCount - 1 ELSE passCount
    /\ leaseCount' = leaseCount - 1

\* Only the counter this worker raised goes down.
DropOwn(w) ==
    /\ passCount' = IF owns[w] = "pass" THEN passCount - 1 ELSE passCount
    /\ leaseCount' = IF owns[w] = "pass" THEN leaseCount ELSE leaseCount - 1

\* The visit a release owes Steam; a release that leaves blocking as it was
\* owes none.
VisitOnlyUnblocking(w) ==
    IF Blocking /\ ~Blocking' THEN KeepMutex(w, "notify") ELSE GiveBack(w, "released")
VisitAfterDrop(w) ==
    IF Blocking <=> Blocking' THEN GiveBack(w, "released")
    ELSE KeepMutex(w, IF Blocking' THEN "revoke" ELSE "notify")

Release(w) ==
    /\ At(w, "release")
    /\ transition = NoWorker
    /\ DropOwn(w)
    /\ owns' = [owns EXCEPT ![w] = "none"]
    /\ VisitAfterDrop(w)
    /\ UNCHANGED <<hooks, steam, request, result>>

\* An explicit release is answered; the end of file is not.
RespondReleased(w) ==
    /\ At(w, "released")
    /\ Goto(w, "disconnect")
    /\ UNCHANGED <<counters, transition, hooks, steam, request, owns, result>>

Disconnect(w) ==
    /\ At(w, "disconnect")
    /\ Goto(w, "done")
    /\ UNCHANGED <<counters, transition, hooks, steam, request, owns, result>>

WorkerStep(w) ==
    \/ ReadRequest(w) \/ EnsureHooks(w)
    \/ AcquireLease(w) \/ AcquirePassThrough(w)
    \/ Revoke(w) \/ Notify(w)
    \/ Respond(w) \/ ReadRelease(w)
    \/ Release(w) \/ RespondReleased(w) \/ Disconnect(w)

\* Every connection there will ever be has come and gone.
AllDone == (\A w \in Workers : At(w, "done")) /\ UNCHANGED vars

Next == (\E w \in Workers : WorkerStep(w)) \/ AllDone

Safety == Init /\ [][Next]_vars

\* A runnable worker runs.  The client decides when a request comes and when an
\* owner lets go, so the two reads are not fair.
Progress(w) ==
    \/ EnsureHooks(w)
    \/ AcquireLease(w) \/ AcquirePassThrough(w)
    \/ Revoke(w) \/ Notify(w)
    \/ Respond(w) \/ Release(w) \/ RespondReleased(w) \/ Disconnect(w)

Spec == Safety /\ \A w \in Workers : WF_vars(Progress(w))

-----------------------------------------------------------------------------

LeaseOwners == {w \in Workers : owns[w] = "lease"}
PassOwners == {w \in Workers : owns[w] = "pass"}

\* Each counter is the number of workers that raised it and have not lowered it:
\* no exit path of client_thread (release, end of file, refused request) leaks or
\* repeats a decrement.
CountsMatchOwners ==
    /\ IsFiniteSet(LeaseOwners) /\ leaseCount = Cardinality(LeaseOwners)
    /\ IsFiniteSet(PassOwners) /\ passCount = Cardinality(PassOwners)

\* Whenever the mutex is free, the last thing done to Steam is the one the
\* counters call for: every edge of blocking() was followed by its visit.
SteamMatchesGate ==
    transition = NoWorker => (Blocking <=> steam # "free")

\* Nothing is denied and nothing is swept before the detours exist: the sweep
\* closes handles through the trampoline that installing them provides.
DetoursBeforeBlocking ==
    leaseCount > 0 \/ (\E w \in Workers : At(w, "revoke")) => hooks = "installed"

\* An owner of a lease that has come to its response never waits for a sweep of
\* its own: if Steam still holds its controllers although blocking is on, some
\* other worker that gave up a pass-through is about to sweep.
OwnersAnsweredAfterSweep ==
    \A w \in Workers :
        /\ owns[w] = "lease"
        /\ pc[w] \in {"respond", "owned", "release"}
        /\ Blocking
        /\ steam = "free"
        => \E v \in Workers \ {w} : v = transition /\ At(v, "revoke") /\ owns[v] = "none"

\* While a worker is sweeping or rescanning, no other worker changes ownership:
\* a slow rescan cannot be overtaken by the sweep of a later acquire.
VisitsAreNotOvertaken ==
    [][transition # NoWorker => UNCHANGED counters]_vars

\* Once the last read has ended the worker gets rid of its ownership and ends,
\* whatever the other workers do.
ReleaseCompletes ==
    \A w \in Workers : At(w, "release") ~> At(w, "done")

\* What the comment on discover_and_revoke_hid_handles says: revocation never
\* silently does nothing while a caller believes it holds a lease.
RevocationNeverSilent ==
    \A w \in Workers : owns[w] = "lease" /\ At(w, "owned") => steam # "unswept"

\* What the comment on ResultCode says: a payload whose hook installation failed
\* never serves the pipe, so no response carries that condition.
FailedInstallNeverAnswered ==
    \A w \in Workers : result[w] = "HookInstallFailed" => ~At(w, "respond")

-----------------------------------------------------------------------------
(* Why the invariants hold: what each place in client_thread implies.       *)

\* The mutex is held exactly by the worker that is visiting Steam.
MutexHeldByVisitor ==
    \A w \in Workers : transition = w <=> pc[w] \in {"revoke", "notify"}

\* A worker owns something exactly between its acquire and its release.
OwnershipFollowsPlace ==
    \A w \in Workers :
        /\ pc[w] \in {"read", "hooks", "acquire", "released", "disconnect", "done"}
           => owns[w] = "none"
        /\ pc[w] \in {"owned", "release"} => owns[w] # "none"

\* A visit is made for the edge that just happened.
VisitMatchesEdge ==
    \A w \in Workers :
        /\ At(w, "revoke") => Blocking /\ steam = "free"
        /\ At(w, "notify") => ~Blocking /\ steam # "free"

\* A sweep on the way to a lease's response is that of the only lease.
SweepingOwnerIsAlone ==
    \A w \in Workers : At(w, "revoke") /\ owns[w] = "lease" => leaseCount = 1

\* A worker about to take a lease has seen the hooks installed.
HooksSeenBeforeAcquire ==
    \A w \in Workers :
        At(w, "acquire") /\ request[w] = "AcquireLease" => hooks = "installed"

\* The inductive invariant: the properties above and what they rest on.
Inductive ==
    /\ TypeOK
    /\ CountsMatchOwners
    /\ MutexHeldByVisitor
    /\ OwnershipFollowsPlace
    /\ VisitMatchesEdge
    /\ SweepingOwnerIsAlone
    /\ HooksSeenBeforeAcquire
    /\ SteamMatchesGate
    /\ leaseCount > 0 => hooks = "installed"

-----------------------------------------------------------------------------

\* The counters and the mutex implement the promise of LeaseGate.
Gate == INSTANCE LeaseGate WITH
            Clients <- Workers,
            leases <- LeaseOwners,
            passes <- PassOwners,
            steam <- IF steam = "free" THEN "free" ELSE "taken"

GateSafety == Gate!Safety
GateSpec == Gate!Spec

================================================================================
