--------------------------- MODULE RecoveryResolution ---------------------------
(***************************************************************************)
(* How the payload finds the HID thread object of Steam that a rescan is   *)
(* addressed to, while Steam destroys that object and builds another.      *)
(*                                                                         *)
(* Any number of threads resolve at once and share two caches without a    *)
(* lock: the layout of steamclient64.dll and the address of the object.    *)
(* A freed block keeps looking like the object until the allocator hands   *)
(* it out again, so several look-alikes are told apart by which one moves. *)
(*                                                                         *)
(* An address is a model value.  Of an object only two facts are kept:     *)
(* that it passes hid_thread_is_live (it is in "alike"), and whether its   *)
(* scheduler fields changed since an observer first sampled them.          *)
(***************************************************************************)
EXTENDS Naturals, FiniteSets

CONSTANTS
    Addresses,      \* where Steam may put the object
    Nowhere,        \* the null address
    Backgrounds,    \* threads that the status replies may start
    WarmUps,        \* the thread the installation of the hooks starts
    Recoveries,     \* threads that ask Steam to rescan: pipe workers, the timer
    Limit           \* [Budgets -> Nat]: the attempts allowed between two resets

Budgets == {"layout", "thread"}
Resolvers == Backgrounds \cup WarmUps \cup Recoveries
MaybeAddress == Addresses \cup {Nowhere}

ASSUME NowhereAssumption == Nowhere \notin Addresses
ASSUME ResolversAssumption ==
    /\ IsFiniteSet(Addresses) /\ IsFiniteSet(WarmUps)
    /\ Backgrounds \cap WarmUps = {}
    /\ (Backgrounds \cup WarmUps) \cap Recoveries = {}
ASSUME LimitAssumption == Limit \in [Budgets -> Nat \ {0}]

VARIABLES
    module,         \* steamclient64.dll: "absent", "known" or "unknown" build
    running,        \* the object Steam's HID thread works on
    alike,          \* the addresses that pass hid_thread_is_live
    layout,         \* RECOVERY_LAYOUT is set
    cached,         \* HID_THREAD_ADDRESS
    attempts,       \* RECOVERY_LAYOUT_ATTEMPTS and HID_THREAD_ATTEMPTS
    resolving,      \* CAPABILITY_RESOLUTION_RUNNING
    pc,             \* where each resolver is
    got,            \* the address each resolver holds
    found,          \* the candidates of each resolver's election
    moved,          \* the addresses whose fields changed since its first sample
    stayed,         \* history: alike ever since the resolver began its sweep
    seen,           \* history: alike at some time since the resolver began
    ran,            \* history: the running object at some time since then
    steady,         \* history: since then one and the same address was alike
    sweeps          \* history: budgeted sweeps since the attempts were reset

steamVars == <<module, running, alike>>
cacheVars == <<layout, cached, attempts, resolving>>
historyVars == <<moved, stayed, seen, ran, steady>>
vars == <<steamVars, cacheVars, pc, got, found, historyVars, sweeps>>

Places == {"idle", "spawn", "layout", "snapshot", "cache", "drop", "scan", "watch",
           "store", "request", "answered"}

\* Every variable has its type.
TypeOK ==
    /\ module \in {"absent", "known", "unknown"}
    /\ running \in MaybeAddress
    /\ alike \in SUBSET Addresses
    /\ layout \in BOOLEAN
    /\ cached \in MaybeAddress
    /\ attempts \in [Budgets -> Nat]
    /\ resolving \in BOOLEAN
    /\ pc \in [Resolvers -> Places]
    /\ got \in [Resolvers -> MaybeAddress]
    /\ found \in [Resolvers -> SUBSET Addresses]
    /\ moved \in [Resolvers -> SUBSET Addresses]
    /\ stayed \in [Resolvers -> SUBSET Addresses]
    /\ seen \in [Resolvers -> SUBSET Addresses]
    /\ ran \in [Resolvers -> SUBSET MaybeAddress]
    /\ steady \in [Resolvers -> BOOLEAN]
    /\ sweeps \in [Budgets -> Nat]

Init ==
    /\ module = "absent"
    /\ running = Nowhere
    /\ alike = {}
    /\ layout = FALSE
    /\ cached = Nowhere
    /\ attempts = [k \in Budgets |-> 0]
    /\ resolving = FALSE
    /\ pc = [r \in Resolvers |-> "idle"]
    /\ got = [r \in Resolvers |-> Nowhere]
    /\ found = [r \in Resolvers |-> {}]
    /\ moved = [r \in Resolvers |-> {}]
    /\ stayed = [r \in Resolvers |-> {}]
    /\ seen = [r \in Resolvers |-> {}]
    /\ ran = [r \in Resolvers |-> {}]
    /\ steady = [r \in Resolvers |-> FALSE]
    /\ sweeps = [k \in Budgets |-> 0]

Active(r) == pc[r] \notin {"idle", "spawn", "answered"}
Searching(r) == pc[r] \in {"layout", "snapshot", "cache", "drop", "scan", "watch"}
At(r, place) == pc[r] = place
Goto(r, place) == pc' = [pc EXCEPT ![r] = place]

\* hid_thread_is_live, on whatever address the caller holds.
Valid(a) == a \in alike

\* Only recovery ignores a spent budget.
IgnoresBudget(r) == r \in Recoveries

-----------------------------------------------------------------------------
(* Steam.                                                                   *)

\* Whoever is resolving observes the change Steam makes: "fields" are the
\* addresses whose scheduler fields it writes.
Observed(fields) ==
    /\ moved' = [r \in Resolvers |->
                    IF At(r, "watch") THEN moved[r] \cup (fields \cap found[r]) ELSE moved[r]]
    /\ stayed' = [r \in Resolvers |->
                    IF At(r, "scan") THEN stayed[r] \cap alike' ELSE stayed[r]]
    /\ seen' = [r \in Resolvers |-> IF Searching(r) THEN seen[r] \cup alike' ELSE seen[r]]
    /\ ran' = [r \in Resolvers |->
                    IF r \in Recoveries /\ Active(r) THEN ran[r] \cup {running'} ELSE ran[r]]
    /\ steady' = [r \in Resolvers |-> steady[r] /\ alike' = alike]

SteamActs == UNCHANGED <<cacheVars, pc, got, found, sweeps>>

LoadModule ==
    /\ module = "absent"
    /\ module' \in {"known", "unknown"}
    /\ UNCHANGED <<running, alike, historyVars>>
    /\ SteamActs

\* A new object, in fresh memory or over a freed look-alike.
BuildThread(a) ==
    /\ module # "absent" /\ running = Nowhere
    /\ running' = a
    /\ alike' = alike \cup {a}
    /\ UNCHANGED module
    /\ Observed({a})
    /\ SteamActs

\* The block is freed with its contents in place.
DestroyThread ==
    /\ running # Nowhere
    /\ running' = Nowhere
    /\ UNCHANGED <<module, alike>>
    /\ Observed({})
    /\ SteamActs

\* The allocator hands a freed block out again; its new owner may write the bytes
\* that were the scheduler fields before or after it writes the rest.
ReuseBlock(a) ==
    /\ a \in alike \ {running}
    /\ alike' = alike \ {a}
    /\ UNCHANGED <<module, running>>
    /\ \E fields \in {{}, {a}} : Observed(fields)
    /\ SteamActs

\* The running thread schedules a discovery: deadline and counter change.
Reschedule ==
    /\ running # Nowhere
    /\ UNCHANGED steamVars
    /\ Observed({running})
    /\ SteamActs

SteamStep ==
    \/ LoadModule \/ DestroyThread \/ Reschedule
    \/ \E a \in Addresses : BuildThread(a) \/ ReuseBlock(a)

-----------------------------------------------------------------------------
(* A resolver.                                                              *)

\* The resolver starts to look, and its history starts with what is there.
Begin(r) ==
    /\ Goto(r, "layout")
    /\ got' = [got EXCEPT ![r] = Nowhere]
    /\ seen' = [seen EXCEPT ![r] = alike]
    /\ ran' = [ran EXCEPT ![r] = IF r \in Recoveries THEN {running} ELSE {}]
    /\ steady' = [steady EXCEPT ![r] = /\ r \in Recoveries
                                       /\ module = "known" /\ Cardinality(alike) = 1]
    /\ UNCHANGED <<moved, stayed, found>>

\* payload_capabilities on a reply: with no valid cached address, the one thread
\* that wins the flag starts a resolution.
AdvertisesRecovery == layout /\ Valid(cached)
PollUnguarded(b) ==
    /\ At(b, "idle") /\ ~AdvertisesRecovery
    /\ resolving' = TRUE
    /\ Goto(b, "spawn")
    /\ UNCHANGED <<steamVars, layout, cached, attempts, got, found, historyVars, sweeps>>
Poll(b) ==
    /\ At(b, "idle") /\ ~AdvertisesRecovery
    /\ ~resolving
    /\ resolving' = TRUE
    /\ Goto(b, "spawn")
    /\ UNCHANGED <<steamVars, layout, cached, attempts, got, found, historyVars, sweeps>>

Spawned(b) ==
    /\ At(b, "spawn")
    /\ Begin(b)
    /\ UNCHANGED <<steamVars, cacheVars, sweeps>>

SpawnFailsSilently(b) ==
    /\ At(b, "spawn")
    /\ Goto(b, "idle")
    /\ UNCHANGED <<steamVars, cacheVars, got, found, historyVars, sweeps>>
SpawnFails(b) ==
    /\ At(b, "spawn")
    /\ resolving' = FALSE
    /\ Goto(b, "idle")
    /\ UNCHANGED <<steamVars, layout, cached, attempts, got, found, historyVars, sweeps>>

\* The warm-up after the hooks went in, and a request for a rescan.
Start(r) ==
    /\ At(r, "idle")
    /\ Begin(r)
    /\ UNCHANGED <<steamVars, cacheVars, sweeps>>

Answer(r, a) ==
    /\ got' = [got EXCEPT ![r] = a]
    /\ Goto(r, IF a # Nowhere /\ r \in Recoveries THEN "request" ELSE "answered")

\* Only comparisons with the limit read the counter.
SpendNothing(k) == UNCHANGED attempts
Spend(k) == attempts' = [attempts EXCEPT ![k] = IF @ < Limit[k] THEN @ + 1 ELSE @]
SpentByAnybody(r, k) == attempts[k] >= Limit[k]
Spent(r, k) == ~IgnoresBudget(r) /\ attempts[k] >= Limit[k]
CountSweep(r, k) ==
    sweeps' = IF IgnoresBudget(r) THEN sweeps ELSE [sweeps EXCEPT ![k] = @ + 1]

\* runtime_recovery_layout: the cached layout, or an attempt the budget allows.
CheckLayout(r) ==
    /\ At(r, "layout")
    /\ IF layout
       THEN Goto(r, "cache") /\ UNCHANGED <<got, sweeps>>
       ELSE IF Spent(r, "layout")
            THEN Answer(r, Nowhere) /\ UNCHANGED sweeps
            ELSE Goto(r, "snapshot") /\ CountSweep(r, "layout") /\ UNCHANGED got
    /\ UNCHANGED <<steamVars, cacheVars, found, historyVars>>

\* resolve_runtime_recovery_layout: only a build it recognises is cached.
SnapshotModule(r) ==
    /\ At(r, "snapshot")
    /\ IF module = "known"
       THEN layout' = TRUE /\ Goto(r, "cache") /\ UNCHANGED <<attempts, got>>
       ELSE Spend("layout") /\ Answer(r, Nowhere) /\ UNCHANGED layout
    /\ UNCHANGED <<steamVars, cached, resolving, found, historyVars, sweeps>>

\* find_hid_thread: a cached address that still validates is the answer ...
TrustCache(r) ==
    /\ At(r, "cache")
    /\ IF cached # Nowhere THEN Answer(r, cached) ELSE Goto(r, "drop") /\ UNCHANGED got
    /\ UNCHANGED <<steamVars, cacheVars, found, historyVars, sweeps>>
CheckCache(r) ==
    /\ At(r, "cache")
    /\ IF Valid(cached) THEN Answer(r, cached) ELSE Goto(r, "drop") /\ UNCHANGED got
    /\ UNCHANGED <<steamVars, cacheVars, found, historyVars, sweeps>>

\* ... and any other is dropped, whatever somebody stored in the meantime.
DropCache(r) ==
    /\ At(r, "drop")
    /\ cached' = Nowhere
    /\ IF Spent(r, "thread")
       THEN Answer(r, Nowhere) /\ UNCHANGED <<stayed, sweeps>>
       ELSE /\ Goto(r, "scan")
            /\ stayed' = [stayed EXCEPT ![r] = alike]
            /\ CountSweep(r, "thread")
            /\ UNCHANGED got
    /\ UNCHANGED <<steamVars, layout, attempts, resolving, found, moved, seen, ran, steady>>

\* A failed search costs an attempt, a successful one gives them all back.
GiveUp(r) ==
    /\ Spend("thread")
    /\ Answer(r, Nowhere)
    /\ UNCHANGED <<layout, cached, resolving>>

\* find_live_hid_threads: everything alike throughout the sweep is found, and
\* nothing is kept that does not validate at its end.  A sole candidate is taken
\* for the object, several are watched, beginning with this first sample.
EndSweep(r) ==
    /\ At(r, "scan")
    /\ \E candidates \in SUBSET alike :
         /\ stayed[r] \subseteq candidates
         /\ IF candidates = {}
            THEN GiveUp(r) /\ UNCHANGED <<found, moved>>
            ELSE IF Cardinality(candidates) = 1
            THEN /\ got' = [got EXCEPT ![r] = CHOOSE a \in candidates : TRUE]
                 /\ Goto(r, "store")
                 /\ UNCHANGED <<cacheVars, found, moved>>
            ELSE /\ found' = [found EXCEPT ![r] = candidates]
                 /\ moved' = [moved EXCEPT ![r] = {}]
                 /\ Goto(r, "watch")
                 /\ UNCHANGED <<cacheVars, got>>
    /\ stayed' = [stayed EXCEPT ![r] = {}]
    /\ UNCHANGED <<steamVars, seen, ran, steady, sweeps>>

EndWatch(r) ==
    /\ found' = [found EXCEPT ![r] = {}]
    /\ moved' = [moved EXCEPT ![r] = {}]
    /\ UNCHANGED <<steamVars, stayed, seen, ran, steady, sweeps>>

\* elect_progressing_candidate: an observation in which exactly one has moved.
Elect(r) ==
    /\ At(r, "watch")
    /\ \E a \in moved[r] :
         /\ moved[r] = {a}
         /\ got' = [got EXCEPT ![r] = a]
    /\ Goto(r, "store")
    /\ EndWatch(r)
    /\ UNCHANGED cacheVars

\* The window closed, or a candidate could not be read.
ElectionFails(r) ==
    /\ At(r, "watch")
    /\ GiveUp(r)
    /\ EndWatch(r)

StoreAddress(r) ==
    /\ At(r, "store")
    /\ cached' = got[r]
    /\ attempts' = [attempts EXCEPT !["thread"] = 0]
    /\ sweeps' = [sweeps EXCEPT !["thread"] = 0]
    /\ Goto(r, IF r \in Recoveries THEN "request" ELSE "answered")
    /\ UNCHANGED <<steamVars, layout, resolving, got, found, historyVars>>

\* request_internal_discovery: -1.0 goes to the deadline, which others may be watching.
StoreDeadline(r) ==
    /\ At(r, "request")
    /\ Goto(r, "answered")
    /\ moved' = [q \in Resolvers |->
                    IF At(q, "watch") THEN moved[q] \cup ({got[r]} \cap found[q]) ELSE moved[q]]
    /\ UNCHANGED <<steamVars, cacheVars, got, found, stayed, seen, ran, steady, sweeps>>

Forget(r) ==
    /\ got' = [got EXCEPT ![r] = Nowhere]
    /\ seen' = [seen EXCEPT ![r] = {}]
    /\ ran' = [ran EXCEPT ![r] = {}]
    /\ steady' = [steady EXCEPT ![r] = FALSE]

\* The thread ends or its caller goes on; a background thread gives the flag back.
Finish(r) ==
    /\ At(r, "answered")
    /\ Goto(r, "idle")
    /\ resolving' = (resolving /\ r \notin Backgrounds)
    /\ Forget(r)
    /\ UNCHANGED <<steamVars, layout, cached, attempts, found, moved, stayed, sweeps>>

\* The first lease of a blocking spell resets both budgets.
ResetBudgets ==
    /\ attempts' = [k \in Budgets |-> 0]
    /\ sweeps' = [k \in Budgets |-> 0]
    /\ UNCHANGED <<steamVars, layout, cached, resolving, pc, got, found, historyVars>>

-----------------------------------------------------------------------------

Resolve(r) ==
    \/ CheckLayout(r) \/ SnapshotModule(r) \/ CheckCache(r) \/ DropCache(r)
    \/ EndSweep(r) \/ Elect(r) \/ ElectionFails(r)
    \/ StoreAddress(r) \/ StoreDeadline(r) \/ Finish(r)

Next ==
    \/ SteamStep
    \/ \E b \in Backgrounds : Poll(b) \/ Spawned(b) \/ SpawnFails(b)
    \/ \E r \in WarmUps \cup Recoveries : Start(r)
    \/ \E r \in Resolvers : Resolve(r)
    \/ ResetBudgets

\* A thread that resolves runs, and an election's window closes.  Nothing makes
\* Steam, a client or the holder of a lease do anything.
Spec ==
    /\ Init /\ [][Next]_vars
    /\ \A r \in Resolvers : WF_vars(Resolve(r))
    /\ \A b \in Backgrounds : WF_vars(Spawned(b) \/ SpawnFails(b))

-----------------------------------------------------------------------------

\* The address a resolver goes by passed validation at some time during its own
\* search: neither a lost race for the cache nor a drop of somebody else's answer
\* lets it use one from before (find_hid_thread, lib.rs:1633).
AnswerWasAlike ==
    \A r \in Resolvers : got[r] # Nowhere => got[r] \in seen[r]

\* Recovery is never refused for a reason of the past: if all through a request
\* exactly one address looked like the object of a known build, the request finds
\* it, however many polls have spent the budgets (lib.rs:1918).
RecoveryNeverRefused ==
    \A r \in Recoveries : At(r, "answered") /\ steady[r] => got[r] # Nowhere

\* Between two resets the polls cost no more sweeps than the limit, and one more
\* for each other thread that had passed the check before the counter moved.
PollsAreBounded ==
    \A k \in Budgets : sweeps[k] <= Limit[k] + Cardinality(WarmUps)

\* Replies never pile up sweeps: one background thread at most, being started or
\* at work (schedule_capability_resolution).
OneBackgroundSweep ==
    \A b, c \in Backgrounds : pc[b] # "idle" /\ pc[c] # "idle" => b = c

\* The flag that keeps other replies from resolving is always given back, also
\* when the thread could not be started.
ResolutionEnds == resolving ~> ~resolving

\* What the comment on elect_running_hid_thread says: a freed block is structurally
\* a valid object, "so only movement in the scheduler fields tells the two apart".
\* So when a HID thread of Steam's runs all through a request for a rescan, the
\* request does not go to an address that merely looks like its object.
RequestReachesRunningThread ==
    \A r \in Recoveries :
        At(r, "request") /\ Nowhere \notin ran[r] /\ got[r] \in alike => got[r] \in ran[r]

================================================================================
