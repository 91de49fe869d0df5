------------------------------ MODULE GateRecovery ------------------------------
(***************************************************************************)
(* GateOwnership with the controller rescan taken apart: the steps of      *)
(* notify_controller_rescan on the worker that holds the mutex, and the    *)
(* timer thread that asks Steam for a second discovery 2.2 s after the     *)
(* first.  The timer thread does not take the ownership mutex: it reads    *)
(* the two counters of blocking() one after the other.                     *)
(*                                                                         *)
(* Whether Steam's HID thread is found by a request is a free choice; the  *)
(* passing of time is the deadline turning from "pending" to "due".        *)
(***************************************************************************)
EXTENDS GateOwnership

VARIABLES
    phase,          \* the notifying worker inside notify_controller_rescan
    timerStarted,   \* RESCAN_TIMER_STARTED
    timer,          \* where the timer thread is in rescan_timer_loop
    deadline,       \* the deadline under RESCAN_TIMER's mutex
    asked,          \* Steam's discovery deadline is -1.0 and not yet noticed
    owed            \* history: a first request still lacks its second

recoveryVars == <<phase, timerStarted, timer, deadline, asked, owed>>
gateAndTimer == <<vars, recoveryVars>>

\* Every variable has its type.
RecoveryTypeOK ==
    /\ TypeOK
    /\ phase \in {"start", "schedule", "sleep", "return"}
    /\ timerStarted \in BOOLEAN
    /\ timer \in {"none", "check", "wait", "timedWait", "readLeases", "readPasses",
                  "request"}
    /\ deadline \in {"none", "pending", "due"}
    /\ asked \in BOOLEAN
    /\ owed \in BOOLEAN

RecoveryInit ==
    /\ Init
    /\ phase = "start"
    /\ timerStarted = FALSE
    /\ timer = "none"
    /\ deadline = "none"
    /\ asked = FALSE
    /\ owed = FALSE

\* request_internal_discovery: stores -1.0 unless Steam's HID thread is not found.
RequestDiscovery(found) == asked' = (asked \/ found)

-----------------------------------------------------------------------------
(* The worker that holds the ownership mutex.                               *)

\* The blocking check, SDL's refresh and the first request.  With no HID thread
\* to ask, the window broadcast is all there will be.
FirstRequest(w) ==
    /\ At(w, "notify") /\ phase = "start"
    /\ IF Blocking
       THEN phase' = "return" /\ UNCHANGED <<asked, owed>>
       ELSE \E found \in BOOLEAN :
              /\ RequestDiscovery(found)
              /\ phase' = IF found THEN "schedule" ELSE "return"
              /\ owed' = found
    /\ UNCHANGED <<vars, timerStarted, timer, deadline>>

\* Storing a new deadline wakes the timer thread out of either wait.
ArmSilently ==
    /\ deadline' = "pending"
    /\ UNCHANGED timer
Arm ==
    /\ deadline' = "pending"
    /\ timer' = IF timer \in {"wait", "timedWait"} THEN "check" ELSE timer

\* schedule_second_discovery.  The thread starts before the deadline is stored,
\* and when it cannot be started the flag is cleared and nothing is armed.
StartTimer(w) ==
    /\ At(w, "notify") /\ phase = "schedule" /\ ~timerStarted
    /\ timerStarted' = TRUE
    /\ timer' = "check"
    /\ deadline' = "pending"
    /\ phase' = "return"
    /\ UNCHANGED <<vars, asked, owed>>

RefusedAndForgotten(w) ==
    /\ At(w, "notify") /\ phase = "schedule" /\ ~timerStarted
    /\ phase' = "return"
    /\ UNCHANGED <<vars, timerStarted, timer, deadline, asked, owed>>
TimerThreadRefused(w) ==
    /\ At(w, "notify") /\ phase = "schedule" /\ ~timerStarted
    /\ phase' = "sleep"
    /\ UNCHANGED <<vars, timerStarted, timer, deadline, asked, owed>>

ArmTimer(w) ==
    /\ At(w, "notify") /\ phase = "schedule" /\ timerStarted
    /\ Arm
    /\ phase' = "return"
    /\ UNCHANGED <<vars, timerStarted, asked, owed>>

\* No timer thread: the worker sleeps for the delay and asks again itself.
SecondRequestOnWorker(w) ==
    /\ At(w, "notify") /\ phase = "sleep"
    /\ phase' = "return"
    /\ owed' = FALSE
    /\ IF Blocking THEN UNCHANGED asked ELSE \E found \in BOOLEAN : RequestDiscovery(found)
    /\ UNCHANGED <<vars, timerStarted, timer, deadline>>

FinishWhenNoticed(w) ==
    /\ phase = "return" /\ ~asked
    /\ Notify(w)
    /\ phase' = "start"
    /\ UNCHANGED <<timerStarted, timer, deadline, asked, owed>>
FinishNotify(w) ==
    /\ phase = "return"
    /\ Notify(w)
    /\ phase' = "start"
    /\ UNCHANGED <<timerStarted, timer, deadline, asked, owed>>

OtherWorkerStep(w) ==
    /\ \/ ReadRequest(w) \/ EnsureHooks(w)
       \/ AcquireLease(w) \/ AcquirePassThrough(w)
       \/ Revoke(w)
       \/ Respond(w) \/ ReadRelease(w)
       \/ Release(w) \/ RespondReleased(w) \/ Disconnect(w)
    /\ UNCHANGED recoveryVars

NotifyStep(w) ==
    \/ FirstRequest(w)
    \/ StartTimer(w) \/ TimerThreadRefused(w) \/ ArmTimer(w)
    \/ SecondRequestOnWorker(w)
    \/ FinishNotify(w)

-----------------------------------------------------------------------------
(* The timer thread.                                                        *)

\* One round of the loop, under the timer's own mutex.
TimerCheck ==
    /\ timer = "check"
    /\ timer' = CASE deadline = "none" -> "wait"
                  [] deadline = "pending" -> "timedWait"
                  [] deadline = "due" -> "readLeases"
    /\ deadline' = IF deadline = "due" THEN "none" ELSE deadline
    /\ UNCHANGED <<vars, phase, timerStarted, asked, owed>>

DeadlinePasses ==
    /\ deadline = "pending"
    /\ deadline' = "due"
    /\ UNCHANGED <<vars, phase, timerStarted, timer, asked, owed>>

TimedWaitEnds ==
    /\ timer = "timedWait" /\ deadline = "due"
    /\ timer' = "check"
    /\ UNCHANGED <<vars, phase, timerStarted, deadline, asked, owed>>

\* blocking(): LEASE_COUNT first, then, only if that was positive, PASS_THROUGH_COUNT.
TimerReadsLeases ==
    /\ timer = "readLeases"
    /\ timer' = IF leaseCount > 0 THEN "readPasses" ELSE "request"
    /\ UNCHANGED <<vars, phase, timerStarted, deadline, asked, owed>>

TimerReadsPasses ==
    /\ timer = "readPasses"
    /\ timer' = IF passCount = 0 THEN "check" ELSE "request"
    /\ UNCHANGED <<vars, phase, timerStarted, deadline, asked, owed>>

\* The request itself, after a search that can take seconds.
TimerRequests ==
    /\ timer = "request"
    /\ timer' = "check"
    /\ owed' = FALSE
    /\ \E found \in BOOLEAN : RequestDiscovery(found)
    /\ UNCHANGED <<vars, phase, timerStarted, deadline>>

TimerStep ==
    \/ TimerCheck \/ TimedWaitEnds
    \/ TimerReadsLeases \/ TimerReadsPasses \/ TimerRequests

\* Steam's HID thread notices the request and schedules its discovery.
SteamNoticesRequest ==
    /\ asked
    /\ asked' = FALSE
    /\ UNCHANGED <<vars, phase, timerStarted, timer, deadline, owed>>

-----------------------------------------------------------------------------

RecoveryDone ==
    /\ AllDone
    /\ UNCHANGED recoveryVars

RecoveryNext ==
    \/ \E w \in Workers : OtherWorkerStep(w) \/ NotifyStep(w)
    \/ TimerStep
    \/ DeadlinePasses
    \/ SteamNoticesRequest
    \/ RecoveryDone

RecoverySafety == RecoveryInit /\ [][RecoveryNext]_gateAndTimer

\* Runnable threads run and time passes; nothing makes a client send or Steam
\* look at its deadline.
RecoveryProgress(w) ==
    \/ NotifyStep(w)
    \/ Progress(w) /\ ~At(w, "notify") /\ UNCHANGED recoveryVars

RecoverySpec ==
    /\ RecoverySafety
    /\ \A w \in Workers : WF_gateAndTimer(RecoveryProgress(w))
    /\ WF_gateAndTimer(TimerStep)
    /\ WF_gateAndTimer(DeadlinePasses)

-----------------------------------------------------------------------------

\* What the comment in rescan_timer_loop relies on: a second discovery is dropped
\* only because blocking is on, and the release that turns it off starts recovery
\* over.  So one that is still owed is armed, or being carried out, or blocking is
\* on, or a worker is about to notify Steam afresh.
SecondDiscoveryNeverLost ==
    owed => \/ deadline # "none"
            \/ timer \in {"readLeases", "readPasses", "request"}
            \/ Blocking
            \/ \E w \in Workers : At(w, "notify") /\ phase # "return"

\* The second discovery that a release owes is eventually asked for, unless a new
\* lease turns blocking on again.
SecondDiscoveryHappens == owed ~> ~owed \/ Blocking

\* What the comment in rescan_timer_loop says: Steam is never asked to rediscover
\* controllers while blocking is active.
NeverRediscoverWhileBlocking == [][~asked /\ asked' => ~Blocking]_gateAndTimer

-----------------------------------------------------------------------------
(* Why the invariant holds as long as no client overrides a lease.          *)

\* Nobody asks for a pass-through, so nobody owns one.
NoOverride ==
    /\ passCount = 0
    /\ \A w \in Workers : request[w] # "AcquirePassThrough" /\ owns[w] # "pass"

\* A deadline is armed only with the one thread that serves it
\* (RESCAN_TIMER_STARTED is set once and the thread never ends).
DeadlineIsServed ==
    /\ timerStarted <=> timer # "none"
    /\ deadline # "none" => timerStarted

\* notify_controller_rescan is left only as a whole.
PhaseIsTheVisitors == phase # "start" => \E w \in Workers : At(w, "notify")

\* A deadline taken for a lease that was seen is not missed once that lease is gone:
\* its release has begun recovery anew.
TakenForBlocking ==
    timer = "readPasses" /\ owed =>
        \/ deadline # "none"
        \/ Blocking
        \/ \E w \in Workers : At(w, "notify") /\ phase # "return"

================================================================================
