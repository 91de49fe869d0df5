-------------------------------- MODULE Launcher --------------------------------
(***************************************************************************)
(* A program run under a lease: the command line launcher and run_wrapped, *)
(* the suspended start, the job object that holds the process tree, every  *)
(* way a step of the launch can fail, the abort of a tree that can no longer*)
(* be watched, the release, and the fail-open start without a lease.       *)
(*                                                                         *)
(* The caller is the launcher or a user of the library (or of the C ABI),  *)
(* which starts the program itself when the call fails.  Connecting to the  *)
(* payload and the release handshake are HostLease's; here they succeed or  *)
(* fail.                                                                    *)
(***************************************************************************)
EXTENDS CommandLine, FiniteSets

CONSTANTS
    CommandLines,       \* the argument vectors the launcher may be started with
    LibraryCommands,    \* the commands a library caller may pass
    CallerEnvironment,  \* the entries of the caller's environment
    MaxKids             \* bound on the live descendants of a root

Launches == {"wrapped", "unleased"}
Callers == {"launcher", "library"}
Codes == {"zero", "nonzero", "aborted"}

ASSUME MaxKidsAssumption == MaxKids \in Nat
ASSUME WordsAssumption == CommandLines \cup LibraryCommands \subseteq Seq(Seq(Characters))
ASSUME EnvironmentAssumption ==
    /\ CallerEnvironment \in Seq(Range(CallerEnvironment))
    /\ \A i \in DOMAIN CallerEnvironment : CallerEnvironment[i].name \in Seq(STRING)

VARIABLES
    caller, args,       \* who calls, and with what
    place,              \* where the calling thread is
    launch,             \* which launch launch_and_wait works on
    lease,              \* the lease: none, held, lost with Steam, released
    root,               \* the root process of each launch
    status,             \* the exit status of each root
    kids,               \* the live descendants of each root
    doomed,             \* the trees, or roots, that have been terminated
    argv, environment,  \* what each root was started with
    launched,           \* what launch_and_wait returned
    result,             \* what the caller got
    ran,                \* history: who executed the program
    uncontained         \* history: every way to end an unwatched tree failed

input == <<caller, args>>
tree == <<root, status, kids, doomed>>
started == <<argv, environment>>
history == <<ran, uncontained>>
vars == <<input, place, launch, lease, tree, started, launched, result, history>>

\* What the launcher makes of its arguments, and the words a program finds when it is
\* started with a command.
Invocation == [a \in CommandLines |-> Parse(a)]
RunCommands == LibraryCommands \cup {Invocation[a].command : a \in CommandLines}
Delivered == [c \in {v \in RunCommands : ValidCommand(v)} |-> ToArgv(Joined(c))]

Command == IF caller = "launcher" THEN Invocation[args].command ELSE args

Places == {"call", "acquire", "create", "job", "assign", "resume", "stop", "abort",
           "limits", "rootOnly", "lastWait", "poll", "exitCode", "release", "answer",
           "done"}

\* Every variable has its type.
TypeOK ==
    /\ caller \in Callers
    /\ args \in CommandLines \cup LibraryCommands
    /\ place \in Places
    /\ launch \in Launches
    /\ lease \in {"none", "held", "lost", "released"}
    /\ root \in [Launches -> {"none", "suspended", "running", "exited"}]
    /\ status \in [Launches -> {"active"} \cup Codes]
    /\ kids \in [Launches -> 0..MaxKids]
    /\ doomed \in [Launches -> SUBSET {"root", "kids"}]
    /\ launched \in {"none", "error"} \cup Codes
    /\ result \in {"none", "error", "usage", "diagnostic"} \cup Codes
    /\ ran \in SUBSET (Launches \cup {"caller"})
    /\ uncontained \in BOOLEAN

Init ==
    /\ \/ caller = "launcher" /\ args \in CommandLines
       \/ caller = "library" /\ args \in LibraryCommands
    /\ place = "call" /\ launch = "wrapped" /\ lease = "none"
    /\ root = [l \in Launches |-> "none"]
    /\ status = [l \in Launches |-> "active"]
    /\ kids = [l \in Launches |-> 0]
    /\ doomed = [l \in Launches |-> {}]
    /\ argv = [l \in Launches |-> <<>>]
    /\ environment = [l \in Launches |-> <<>>]
    /\ launched = "none" /\ result = "none"
    /\ ran = {} /\ uncontained = FALSE

Become(s) == root' = [root EXCEPT ![launch] = s]
Doom(parts) == doomed' = [doomed EXCEPT ![launch] = @ \cup parts]
Return(value, next) == launched' = value /\ place' = next

-----------------------------------------------------------------------------
(* The call, and the lease.                                                 *)

\* main and parse: only a command that survives the options runs.
Call ==
    /\ place = "call"
    /\ IF caller = "launcher" /\ Invocation[args].mode # "run"
       THEN place' = "done" /\ result' = Invocation[args].mode
       ELSE place' = "acquire" /\ UNCHANGED result
    /\ UNCHANGED <<input, launch, lease, tree, started, launched, history>>

\* run_wrapped checks the command before it looks for Steam.
Acquire ==
    /\ place = "acquire"
    /\ \/ /\ ValidCommand(Command)
          /\ lease' = "held" /\ place' = "create"
          /\ UNCHANGED launched
       \/ Return("error", "answer") /\ UNCHANGED lease
    /\ UNCHANGED <<input, launch, tree, started, result, history>>

\* Steam ends while the program runs, and takes the lease with it.
SteamEnds ==
    /\ lease = "held"
    /\ lease' = "lost"
    /\ UNCHANGED <<input, place, launch, tree, started, launched, result, history>>

\* The release handshake, after which the pipe is closed whatever it gave.
ReleaseAfterSuccessOnly ==
    /\ place = "release"
    /\ lease' = IF launched = "error" THEN lease ELSE "released"
    /\ place' = "answer"
    /\ UNCHANGED <<input, launch, tree, started, launched, result, history>>
Release ==
    /\ place = "release"
    /\ lease' = "released"
    /\ place' = "answer"
    /\ UNCHANGED <<input, launch, tree, started, launched, result, history>>

-----------------------------------------------------------------------------
(* launch_and_wait.                                                         *)

\* Where the function returns to.
Leave == IF launch = "wrapped" THEN "release" ELSE "answer"

\* The environment's snapshot and CreateProcessW, with the thread suspended.
Create ==
    /\ place = "create"
    /\ \/ /\ NamesFile(Command[1])
          /\ Become("suspended")
          /\ argv' = [argv EXCEPT ![launch] = Delivered[Command]]
          /\ environment' = [environment EXCEPT ![launch] =
                IF launch = "wrapped" THEN LeasedEnvironmentBlock(CallerEnvironment)
                ELSE CallerEnvironment]
          /\ place' = "job"
          /\ UNCHANGED launched
       \/ Return("error", Leave) /\ UNCHANGED <<root, started>>
    /\ UNCHANGED <<input, launch, lease, status, kids, doomed, result, history>>

\* The job object, and the suspended root's assignment to it.
CreateJob ==
    /\ place = "job"
    /\ place' \in {"assign", "stop"}
    /\ UNCHANGED <<input, launch, lease, tree, started, launched, result, history>>
AssignJob ==
    /\ place = "assign"
    /\ place' \in {"resume", "stop"}
    /\ UNCHANGED <<input, launch, lease, tree, started, launched, result, history>>

Resume ==
    /\ place = "resume"
    /\ \/ /\ Become("running")
          /\ ran' = ran \cup {launch}
          /\ place' = "poll"
       \/ /\ place' = "stop"
          /\ UNCHANGED <<root, ran>>
    /\ UNCHANGED <<input, launch, lease, status, kids, doomed, started, launched, result,
                   uncontained>>

\* TerminateJobObject or abort_unstarted_process: the suspended root goes, unless
\* it cannot be terminated at all.  The wait for it is bounded, and decides nothing.
StopUnstarted ==
    /\ place = "stop"
    /\ Doom({"root"}) \/ UNCHANGED doomed
    /\ Return("error", Leave)
    /\ UNCHANGED <<input, launch, lease, root, status, kids, started, result, history>>

\* QueryInformationJobObject: the tree is gone when nothing in it is active.
ActiveProcesses == kids[launch] + (IF root[launch] = "exited" THEN 0 ELSE 1)
TreeIsActive == ActiveProcesses > 0
PollTree ==
    /\ place = "poll" /\ ~TreeIsActive
    /\ place' = "exitCode"
    /\ UNCHANGED <<input, launch, lease, tree, started, launched, result, history>>

\* A query that fails after the start: the tree cannot be watched any more, and is
\* terminated: through the job, ...
ReturnTheError ==
    /\ place = "poll"
    /\ Return("error", Leave)
    /\ UNCHANGED <<input, launch, lease, tree, started, result, history>>
QueryFails ==
    /\ place = "poll"
    /\ place' = "abort"
    /\ UNCHANGED <<input, launch, lease, tree, started, launched, result, history>>
TerminateJob ==
    /\ place = "abort"
    /\ \/ Doom({"root", "kids"}) /\ place' = "lastWait"
       \/ UNCHANGED doomed /\ place' = "limits"
    /\ UNCHANGED <<input, launch, lease, root, status, kids, started, launched, result, history>>

\* ... through the job's last handle, which is closed next, ...
LimitJob ==
    /\ place = "limits"
    /\ \/ Doom({"root", "kids"}) /\ place' = "lastWait"
       \/ UNCHANGED doomed /\ place' = "rootOnly"
    /\ UNCHANGED <<input, launch, lease, root, status, kids, started, launched, result, history>>

\* ... or, failing that, its root alone.
TerminateRoot ==
    /\ place = "rootOnly"
    /\ uncontained' = TRUE
    /\ Doom({"root"}) \/ UNCHANGED doomed
    /\ place' = "lastWait"
    /\ UNCHANGED <<input, launch, lease, root, status, kids, started, launched, result, ran>>

\* Five seconds for the root, then a synthetic exit code.
WaitForTheRoot ==
    /\ place = "lastWait" /\ root[launch] = "exited"
    /\ Return("aborted", Leave)
    /\ UNCHANGED <<input, launch, lease, tree, started, result, history>>
LastWait ==
    /\ place = "lastWait"
    /\ Return("aborted", Leave)
    /\ UNCHANGED <<input, launch, lease, tree, started, result, history>>

\* GetExitCodeProcess on the root.
UnreadableIsZero ==
    /\ place = "exitCode"
    /\ Return(status[launch], Leave) \/ Return("zero", Leave)
    /\ UNCHANGED <<input, launch, lease, tree, started, result, history>>
ReadExitCode ==
    /\ place = "exitCode"
    /\ Return(status[launch], Leave) \/ Return("aborted", Leave)
    /\ UNCHANGED <<input, launch, lease, tree, started, result, history>>

-----------------------------------------------------------------------------
(* The answer: a failed wrapped run is started again without a lease.       *)

\* A run that was started is reported with its exit code, whatever became of the
\* release handshake (run_wrapped, sil_client_run_wrapped).
ReportRun ==
    /\ place = "answer" /\ launched # "error"
    /\ result' = launched /\ place' = "done"
    /\ UNCHANGED <<input, launch, lease, tree, started, launched, history>>

\* The launcher starts the command again, without a lease, or not at all.
StartUnleased ==
    /\ place = "answer" /\ launched = "error" /\ launch = "wrapped"
    /\ caller = "launcher"
    /\ launch' = "unleased"
    /\ IF ValidCommand(Command) THEN Return("none", "create") ELSE UNCHANGED <<launched, place>>
    /\ UNCHANGED <<input, lease, tree, started, result, history>>

\* An error of the library's call makes its user start the program.
LibraryCallFails ==
    /\ place = "answer" /\ launched = "error" /\ caller = "library"
    /\ result' = "error" /\ place' = "done"
    /\ ran' = ran \cup {"caller"}
    /\ UNCHANGED <<input, launch, lease, tree, started, launched, uncontained>>

\* The start without a lease failed as well.
ReportFailure ==
    /\ place = "answer" /\ launched = "error" /\ launch = "unleased"
    /\ result' = "nonzero" /\ place' = "done"
    /\ UNCHANGED <<input, launch, lease, tree, started, launched, history>>

-----------------------------------------------------------------------------
(* The wrapped program: it spawns, its members exit, or are terminated.     *)

Spawn(l) ==
    /\ kids[l] > 0 \/ (root[l] = "running" /\ "root" \notin doomed[l])
    /\ "kids" \notin doomed[l] /\ kids[l] < MaxKids
    /\ kids' = [kids EXCEPT ![l] = @ + 1]
    /\ UNCHANGED <<input, place, launch, lease, root, status, doomed, started, launched,
                   result, history>>

KidExits(l) ==
    /\ kids[l] > 0
    /\ kids' = [kids EXCEPT ![l] = @ - 1]
    /\ UNCHANGED <<input, place, launch, lease, root, status, doomed, started, launched,
                   result, history>>

RootExits(l) ==
    /\ \/ root[l] = "running" /\ status' \in {[status EXCEPT ![l] = c] : c \in {"zero", "nonzero"}}
       \/ /\ root[l] \in {"suspended", "running"} /\ "root" \in doomed[l]
          /\ status' = [status EXCEPT ![l] = "aborted"]
    /\ root' = [root EXCEPT ![l] = "exited"]
    /\ UNCHANGED <<input, place, launch, lease, kids, doomed, started, launched, result,
                   history>>

-----------------------------------------------------------------------------

LauncherStep ==
    \/ Call \/ Acquire \/ Create \/ CreateJob \/ AssignJob \/ Resume \/ StopUnstarted
    \/ PollTree \/ TerminateJob \/ LimitJob \/ TerminateRoot \/ LastWait
    \/ ReadExitCode \/ Release
    \/ ReportRun \/ StartUnleased \/ LibraryCallFails \/ ReportFailure

Next ==
    \/ LauncherStep \/ QueryFails \/ SteamEnds
    \/ \E l \in Launches : Spawn(l) \/ KidExits(l) \/ RootExits(l)

\* The launcher's thread runs; the program may run for ever.
Spec == Init /\ [][Next]_vars /\ WF_vars(LauncherStep)

-----------------------------------------------------------------------------

\* The program runs at most once, however the launch fails and whoever starts it
\* again: an error of run_wrapped means that it never ran (Client::run_wrapped).
RunsAtMostOnce == Cardinality(ran) <= 1

\* What is left of a tree has been terminated.
OnlyDoomedRemain(l) ==
    /\ root[l] = "running" => "root" \in doomed[l]
    /\ kids[l] > 0 => "kids" \in doomed[l]

\* The tree of a wrapped run runs under the lease or the lease died with Steam; what
\* is left without it has been terminated, or nothing could terminate it
\* (launch_and_wait).
TreeRunsUnderLease ==
    \/ lease \in {"held", "lost"} \/ uncontained
    \/ OnlyDoomedRemain("wrapped")

\* When the call returns the lease is gone, on every path (run_wrapped), and no part of
\* a tree still runs that has not been terminated, but for an uncontained one.
NothingOutlivesTheCall ==
    place = "done" =>
        /\ lease \in {"none", "released"}
        /\ uncontained \/ \A l \in Launches : OnlyDoomedRemain(l)

\* A tree never goes on without the lease unwatched: neither while the lease is being
\* released nor after the call.
LeaseCoversTree == TreeRunsUnderLease /\ NothingOutlivesTheCall

\* A program gets, word for word, the command that follows the launcher's separator,
\* blanks, quotes and backslashes included, and never runs beside a diagnostic
\* (parse, quote_argument).
CommandArrives ==
    \A l \in Launches : root[l] # "none" =>
        IF caller = "library" THEN argv[l] = args
        ELSE \E i \in DOMAIN args :
                /\ args[i] = Option("--")
                /\ argv[l] = SubSeq(args, i + 1, Len(args))
                /\ \A j \in 1..(i - 1) : \A w \in {"--", "--help", "--status", "--rescan"} :
                      args[j] = Option(w) => j > 1 /\ args[j - 1] \in {Option(v) : v \in Valued}

\* Windows finds a variable by its name in any spelling.
ExclusionSpellings == {"S", "s"} \X {"D", "d"} \X {"L", "l"}

\* A program sees the controllers Steam hides exactly when it runs under a lease, however
\* the exclusion is spelled and however often it stands there, and everything else of its
\* caller's environment in any case (leased_environment_block).
EnvironmentFollowsLease ==
    \A l \in Launches : root[l] # "none" =>
        \A i \in DOMAIN CallerEnvironment :
            LET entry == CallerEnvironment[i]
            IN entry \in Range(environment[l])
                  <=> entry.name \notin ExclusionSpellings \/ l # "wrapped"

\* Every program is started with the words and the environment it was meant to get.
StartedAsAsked == CommandArrives /\ EnvironmentFollowsLease

\* Success is reported only for a program whose root ended by itself, with success
\* (launch_and_wait, main).
SuccessIsReal ==
    place = "done" /\ result = "zero" =>
        \E l \in Launches : l \in ran /\ root[l] = "exited" /\ status[l] = "zero"

\* Nothing but a program that goes on running keeps the launcher: every failure is
\* answered, and once the tree has ended so does the run, and with it the lease.
RunEnds ==
    /\ place \notin {"call", "poll", "done"} ~> place \in {"poll", "done"}
    /\ place = "poll" /\ ~TreeIsActive ~> place = "done" /\ lease # "held"

================================================================================
