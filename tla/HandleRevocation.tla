---------------------------- MODULE HandleRevocation ----------------------------
(***************************************************************************)
(* The sweep that takes Steam's HID handles away, against the threads of   *)
(* Steam that open, use and close handles meanwhile.                       *)
(*                                                                         *)
(* A handle is a number the kernel gives out again as soon as it is        *)
(* closed; an object is what it stands for, and is opened once.  Steam     *)
(* uses its handles legally: it closes an object once, after its last use. *)
(* But it holds a number, so once the sweep has closed that number Steam   *)
(* may be using some other object's.                                       *)
(*                                                                         *)
(* The table of classifications is the map that HandleTable implements.    *)
(* Listing the handles succeeds here (GateOwnership has the case where it  *)
(* does not).  Every other call the sweep makes of the kernel may fail: the *)
(* duplicate, the query of its type, the probe, the close.                  *)
(***************************************************************************)
EXTENDS Naturals, FiniteSets

CONSTANTS
    Handles,        \* the numbers the kernel gives out
    Hids,           \* objects behind HID device paths
    Files,          \* other objects of type File
    Events,         \* objects of any other type
    Threads,        \* Steam's threads
    NoHandle,       \* Steam does not hold the object
    NoObject        \* the number is free

Objects == Hids \cup Files \cup Events

ASSUME ObjectsAssumption ==
    /\ NoHandle \notin Handles /\ NoObject \notin Objects
    /\ Hids \cap Files = {} /\ Hids \cap Events = {} /\ Files \cap Events = {}

VARIABLES
    slot,           \* the process' handle table in the kernel
    held,           \* the number by which Steam holds each object
    opened,         \* the objects opened so far
    known,          \* HANDLE_TABLE
    blocking,       \* blocking()
    worker,         \* where the pipe worker is in its sweep
    listed,         \* the enumerated handles, with what they stood for
    todo,           \* the entries still to be visited
    fileType,       \* file_type_index
    current,        \* the entry being visited
    pinned,         \* what its duplicate stands for
    failed,         \* history: the entries for which a call of this sweep failed
    pc,             \* where each thread of Steam is in a detour
    target,         \* the object it means
    number          \* the handle it passes or was given

kernelVars == <<slot, held, opened>>
sweepVars == <<worker, listed, todo, fileType, current, pinned, failed>>
threadVars == <<pc, target, number>>
vars == <<kernelVars, known, blocking, sweepVars, threadVars>>

Map == INSTANCE HandleMap WITH Keys <- Handles

TypeIndex(o) == IF o \in Events THEN "Event" ELSE "File"
Class(o) == IF o \in Hids THEN "Hid" ELSE "Other"

\* What probing an object may say: the kernel's queries fail, and then it is "Other".
Probed(o) == {Class(o), "Other"}

\* Every variable has its type.
TypeOK ==
    /\ slot \in [Handles -> Objects \cup {NoObject}]
    /\ held \in [Objects -> Handles \cup {NoHandle}]
    /\ opened \subseteq Objects
    /\ known \in [Handles -> {"Unknown", "Hid", "Other"}]
    /\ blocking \in BOOLEAN
    /\ worker \in {"idle", "list", "next", "classify", "verify", "forget", "close", "answered"}
    /\ listed \in [Handles -> Objects \cup {NoObject}]
    /\ todo \subseteq Handles
    /\ fileType \in {"none", "File", "Event"}
    /\ current \in Handles \cup {NoHandle}
    /\ pinned \in Objects \cup {NoObject}
    /\ failed \subseteq Handles
    /\ pc \in [Threads -> {"idle", "create", "remember", "lookup", "probe",
                           "recordHid", "recordOther", "denied", "passed",
                           "forget", "close"}]
    /\ target \in [Threads -> Objects \cup {NoObject}]
    /\ number \in [Threads -> Handles \cup {NoHandle}]

\* The hooks exist; whatever Steam opened before them is not in the table.
Init ==
    /\ slot \in [Handles -> Objects \cup {NoObject}]
    /\ \A h, g \in Handles : h # g /\ slot[h] = slot[g] => slot[h] = NoObject
    /\ opened = {slot[h] : h \in Handles} \ {NoObject}
    /\ held = [o \in Objects |->
                 IF o \in opened THEN CHOOSE h \in Handles : slot[h] = o ELSE NoHandle]
    /\ Map!Init
    /\ blocking = FALSE
    /\ worker = "idle"
    /\ listed = [h \in Handles |-> NoObject]
    /\ todo = {}
    /\ fileType = "none"
    /\ current = NoHandle
    /\ pinned = NoObject
    /\ failed = {}
    /\ pc = [t \in Threads |-> "idle"]
    /\ target = [t \in Threads |-> NoObject]
    /\ number = [t \in Threads |-> NoHandle]

-----------------------------------------------------------------------------
(* HANDLE_CLOSE_BARRIER: the detour of NtClose reads, the sweep writes.      *)

Closers == {t \in Threads : pc[t] \in {"forget", "close"}}
SweepHoldsBarrier == worker \in {"forget", "close"}

-----------------------------------------------------------------------------
(* Steam's threads inside the detours.                                       *)

Idle(t) == pc[t] = "idle"
Busy == {target[t] : t \in {u \in Threads : ~Idle(u)}}

Proceed(t, location, o, h) ==
    /\ pc' = [pc EXCEPT ![t] = location]
    /\ target' = [target EXCEPT ![t] = o]
    /\ number' = [number EXCEPT ![t] = h]

Finish(t) == Proceed(t, "idle", NoObject, NoHandle)

\* An open by a HID path is denied while blocking; any other open is not checked.
CheckOpen(t, o) ==
    /\ Idle(t)
    /\ o \notin opened /\ o \notin Busy
    /\ o \in Hids => ~blocking
    /\ Proceed(t, "create", o, NoHandle)
    /\ UNCHANGED <<kernelVars, known, blocking, sweepVars>>

\* The trampoline: any free number can be given out.
Create(t) ==
    /\ pc[t] = "create"
    /\ \E h \in Handles :
        /\ slot[h] = NoObject
        /\ slot' = [slot EXCEPT ![h] = target[t]]
        /\ opened' = opened \cup {target[t]}
        /\ IF target[t] \in Hids
           THEN /\ Proceed(t, "remember", target[t], h)
                /\ UNCHANGED held
           ELSE /\ Finish(t)
                /\ held' = [held EXCEPT ![target[t]] = h]
    /\ UNCHANGED <<known, blocking, sweepVars>>

CreateFails(t) ==
    /\ pc[t] = "create"
    /\ Finish(t)
    /\ UNCHANGED <<kernelVars, known, blocking, sweepVars>>

\* Only a handle opened by a HID path is recorded.
RememberOpened(t) ==
    /\ pc[t] = "remember"
    /\ Map!Remember(number[t], "Hid")
    /\ held' = [held EXCEPT ![target[t]] = number[t]]
    /\ Finish(t)
    /\ UNCHANGED <<slot, opened, blocking, sweepVars>>

\* should_deny.  Without blocking the call passes and leaves no trace.
BeginIo(t, o) ==
    /\ Idle(t)
    /\ held[o] # NoHandle
    /\ blocking
    /\ Proceed(t, "lookup", o, held[o])
    /\ UNCHANGED <<kernelVars, known, blocking, sweepVars>>

Verdict(class) == IF class = "Hid" THEN "denied" ELSE "passed"

Lookup(t) ==
    /\ pc[t] = "lookup"
    /\ Proceed(t, IF known[number[t]] = "Unknown" THEN "probe"
                  ELSE Verdict(known[number[t]]),
               target[t], number[t])
    /\ UNCHANGED <<kernelVars, known, blocking, sweepVars>>

\* probe_handle asks the kernel about the number; a closed one is "Other".
Probe(t) ==
    /\ pc[t] = "probe"
    /\ \E class \in Probed(slot[number[t]]) :
        Proceed(t, IF class = "Hid" THEN "recordHid" ELSE "recordOther",
                target[t], number[t])
    /\ UNCHANGED <<kernelVars, known, blocking, sweepVars>>

Record(t) ==
    /\ pc[t] \in {"recordHid", "recordOther"}
    /\ LET class == IF pc[t] = "recordHid" THEN "Hid" ELSE "Other" IN
        /\ Map!Remember(number[t], class)
        /\ Proceed(t, Verdict(class), target[t], number[t])
    /\ UNCHANGED <<kernelVars, blocking, sweepVars>>

EndIo(t) ==
    /\ pc[t] \in {"denied", "passed"}
    /\ Finish(t)
    /\ UNCHANGED <<kernelVars, known, blocking, sweepVars>>

\* nt_close_detour, which holds the barrier for reading to its end.
BeginClose(t, o) ==
    /\ Idle(t)
    /\ held[o] # NoHandle /\ o \notin Busy
    /\ ~SweepHoldsBarrier
    /\ held' = [held EXCEPT ![o] = NoHandle]
    /\ Proceed(t, "forget", o, held[o])
    /\ UNCHANGED <<slot, opened, known, blocking, sweepVars>>

CloseForgets(t) ==
    /\ pc[t] = "forget"
    /\ Map!Forget(number[t])
    /\ Proceed(t, "close", target[t], number[t])
    /\ UNCHANGED <<kernelVars, blocking, sweepVars>>

\* The trampoline closes whatever the number stands for by now.
CloseHandle(t) ==
    /\ pc[t] = "close"
    /\ slot' = [slot EXCEPT ![number[t]] = NoObject]
    /\ Finish(t)
    /\ UNCHANGED <<held, opened, known, blocking, sweepVars>>

ThreadStep(t) ==
    \/ \E o \in Objects : CheckOpen(t, o) \/ BeginIo(t, o) \/ BeginClose(t, o)
    \/ Create(t) \/ CreateFails(t) \/ RememberOpened(t)
    \/ Lookup(t) \/ Probe(t) \/ Record(t) \/ EndIo(t)
    \/ CloseForgets(t) \/ CloseHandle(t)

-----------------------------------------------------------------------------
(* The pipe worker: the first blocking lease, its sweep, its release.        *)

Acquire ==
    /\ worker = "idle"
    /\ blocking' = TRUE
    /\ worker' = "list"
    /\ UNCHANGED <<kernelVars, known, listed, todo, fileType, current, pinned, failed,
                   threadVars>>

ListHandles ==
    /\ worker = "list"
    /\ listed' = slot
    /\ todo' = {h \in Handles : slot[h] # NoObject}
    /\ fileType' = "none"
    /\ failed' = {}
    /\ worker' = "next"
    /\ UNCHANGED <<kernelVars, known, blocking, current, pinned, threadVars>>

PinOrGiveUp(h) ==
    /\ worker = "next" /\ h \in todo
    /\ Closers = {}
    /\ \/ /\ todo' = {} /\ failed' = failed \cup {h}
          /\ UNCHANGED <<worker, current, pinned>>
       \/ /\ slot[h] # NoObject
          /\ worker' = "classify" /\ current' = h /\ pinned' = slot[h]
          /\ todo' = todo \ {h} /\ UNCHANGED failed
    /\ UNCHANGED <<kernelVars, known, blocking, listed, fileType, threadVars>>

\* DuplicateHandle under the barrier pins what the number stands for now.  It fails for
\* a number that is free and may fail for any other; the sweep passes on to the next
\* entry.  CompareObjectHandles cannot tell the two apart in there.
Pin(h) ==
    /\ worker = "next" /\ h \in todo
    /\ Closers = {}
    /\ todo' = todo \ {h}
    /\ \/ /\ failed' = failed \cup {h}
          /\ UNCHANGED <<worker, current, pinned>>
       \/ /\ slot[h] # NoObject
          /\ worker' = "classify" /\ current' = h /\ pinned' = slot[h]
          /\ UNCHANGED failed
    /\ UNCHANGED <<kernelVars, known, blocking, listed, fileType, threadVars>>

\* On to the rest of this entry's visit, or, its duplicate closed, to the next entry.
Visit(step) == worker' = step /\ UNCHANGED <<current, pinned>>
NextEntry == worker' = "next" /\ current' = NoHandle /\ pinned' = NoObject

\* The first File found tells which of the listed type numbers means File; until then
\* is_file_object asks for each object's type, and says no if it is not told.
Classify ==
    /\ worker = "classify"
    /\ LET index == TypeIndex(listed[current]) IN
        \/ /\ fileType = "none"
           /\ NextEntry
           /\ failed' = IF TypeIndex(pinned) = "File" THEN failed \cup {current} ELSE failed
           /\ UNCHANGED fileType
        \/ /\ fileType = "none" /\ TypeIndex(pinned) = "File"
           /\ Visit("verify")
           /\ fileType' = index /\ UNCHANGED failed
        \/ /\ fileType # "none"
           /\ IF fileType = index THEN Visit("verify") ELSE NextEntry
           /\ UNCHANGED <<fileType, failed>>
    /\ UNCHANGED <<kernelVars, known, blocking, listed, todo, threadVars>>

VerifyNothing ==
    /\ worker = "verify"
    /\ Closers = {}
    /\ Map!Remember(current, Class(pinned))
    /\ IF pinned \in Hids THEN Visit("forget") ELSE NextEntry
    /\ UNCHANGED <<kernelVars, blocking, listed, todo, fileType, failed, threadVars>>

\* Probes the duplicate, then takes the barrier again: the number may have been
\* recycled since.
Verify ==
    /\ worker = "verify"
    /\ Closers = {}
    /\ \/ /\ slot[current] # pinned
          /\ NextEntry /\ UNCHANGED <<known, failed>>
       \/ \E class \in Probed(pinned) :
             /\ slot[current] = pinned
             /\ Map!Remember(current, class)
             /\ IF class = "Hid" THEN Visit("forget") ELSE NextEntry
             /\ failed' = IF class = Class(pinned) THEN failed ELSE failed \cup {current}
    /\ UNCHANGED <<kernelVars, blocking, listed, todo, fileType, threadVars>>

SweepForgets ==
    /\ worker = "forget"
    /\ Map!Forget(current)
    /\ Visit("close")
    /\ UNCHANGED <<kernelVars, blocking, listed, todo, fileType, failed, threadVars>>

\* A handle whose close fails has left the table all the same.
SweepCloses ==
    /\ worker = "close"
    /\ \/ slot' = [slot EXCEPT ![current] = NoObject] /\ UNCHANGED failed
       \/ failed' = failed \cup {current} /\ UNCHANGED slot
    /\ NextEntry
    /\ UNCHANGED <<held, opened, known, blocking, listed, todo, fileType, threadVars>>

Answer ==
    /\ worker = "next" /\ todo = {}
    /\ worker' = "answered"
    /\ UNCHANGED <<kernelVars, known, blocking, listed, todo, fileType, current, pinned,
                   failed, threadVars>>

Release ==
    /\ worker = "answered"
    /\ worker' = "idle"
    /\ blocking' = FALSE
    /\ listed' = [h \in Handles |-> NoObject]
    /\ fileType' = "none"
    /\ failed' = {}
    /\ UNCHANGED <<kernelVars, known, todo, current, pinned, threadVars>>

WorkerStep ==
    \/ Acquire \/ ListHandles
    \/ \E h \in Handles : Pin(h)
    \/ Classify \/ Verify \/ SweepForgets \/ SweepCloses
    \/ Answer \/ Release

Next == WorkerStep \/ \E t \in Threads : ThreadStep(t)

Spec == Init /\ [][Next]_vars

-----------------------------------------------------------------------------

\* What the sweep is about to close is the very object it classified as HID,
\* although it classified it without the barrier and numbers are recycled.
SweepClosesWhatItProbed ==
    SweepHoldsBarrier => slot[current] = pinned /\ pinned \in Hids

\* Why: while the sweep holds the barrier nobody is closing a handle, and what is
\* open keeps its number.
SweepInductive ==
    /\ slot = [h \in Handles |-> slot[h]]
    /\ pc = [t \in Threads |-> pc[t]]
    /\ worker \in {"classify", "verify", "forget", "close"} => current \in Handles
    /\ SweepHoldsBarrier => Closers = {}
    /\ SweepClosesWhatItProbed

\* A HID handle that was listed survives the sweep only if one of the kernel's calls for
\* this very entry failed, as long as the sweep learned the right type number: no entry's
\* failure, and no number recycled meanwhile, costs another entry its close.
ListedHidsAreClosed ==
    worker = "answered" /\ fileType # "Event" =>
        \A h \in Handles : listed[h] \in Hids /\ slot[h] = listed[h] => h \in failed

\* What the comment on discover_and_revoke_hid_handles says: revocation never
\* silently does nothing and leaves Steam its controllers' handles.
ListedHidsAreAlwaysClosed ==
    worker = "answered" => \A h \in Handles : listed[h] \in Hids => slot[h] # listed[h]

\* What the README says of closing: that it is necessary, because an open handle
\* stops the application from opening the controller.
NoHidOpenUnderLease ==
    worker = "answered" => \A h \in Handles : slot[h] \notin Hids

\* What the README says of the I/O hooks: only HID handles complete as disconnected.
OnlyHidsAreDenied ==
    \A t \in Threads : pc[t] = "denied" => target[t] \in Hids

================================================================================
