------------------------------ MODULE PayloadStart ------------------------------
(***************************************************************************)
(* How the payload comes to life inside Steam, and how clients reach it:   *)
(* process attach, the pin, the worker thread, the forwarding table of a   *)
(* proxy, the loop that serves the control pipe, and connect_or_inject,    *)
(* which loads the payload by a remote thread when nobody answers.         *)
(*                                                                         *)
(* An image is a file the loader can map; two files of one name are two    *)
(* images.  DllMain runs under the loader lock and is one step.  The pipe   *)
(* is named after Steam's process, so any image's server answers for it.   *)
(***************************************************************************)
EXTENDS Naturals, FiniteSets

CONSTANTS
    Proxies,        \* the files Steam loads for itself, under a system DLL's name
    Payloads,       \* the files clients inject, all of the payload's own name
    Clients,
    PayloadPath,    \* [Clients -> Payloads]: ClientOptions::payload_path
    Required,       \* the exports a vector cannot degrade without
    Optional,       \* the others
    MaxFailures     \* PIPE_CREATE_MAX_FAILURES

Images == Proxies \cup Payloads
Exports == Required \cup Optional

ASSUME ImagesAssumption == Proxies \cap Payloads = {}
ASSUME PathAssumption == PayloadPath \in [Clients -> Payloads]
ASSUME ExportsAssumption == Required # {} /\ Required \cap Optional = {}
ASSUME MaxFailuresAssumption == MaxFailures \in Nat \ {0}

VARIABLES
    present,        \* what the real system DLL exports on this machine
    loaded,         \* the images somebody in Steam holds a reference to
    pinned,         \* the images the loader will never unmap
    self,           \* the images whose SELF_MODULE is recorded
    stage,          \* where each image's server_thread is
    module,         \* what load_system32_module returned
    slots,          \* the exports whose target slot is filled
    ready,          \* FORWARDING_READY
    failures,       \* pipe_failures of each server
    streak,         \* history: consecutive failures of the pipe's creation
    client,         \* where each client is in connect_or_inject
    thread,         \* the remote thread of each client
    paths,          \* the clients whose path string is allocated in Steam
    overlap,        \* history: a client found no payload while another's
                    \* injection was under way
    missed          \* history: the clients that did not see a payload that was there

imageVars == <<loaded, pinned, self, stage, module, slots, ready, failures, streak>>
clientVars == <<client, thread, paths, overlap, missed>>
vars == <<present, imageVars, clientVars>>

Stages == {"none", "entered", "load", "required", "optional", "publish", "create",
           "listening", "accepted", "retired"}
Places == {"probe", "resident", "file", "inject", "wait", "connect", "connected", "failed"}

\* Every variable has its type.
TypeOK ==
    /\ present \in SUBSET Exports
    /\ loaded \in SUBSET Images
    /\ pinned \in SUBSET Images
    /\ self \in SUBSET Images
    /\ stage \in [Images -> Stages]
    /\ module \in [Images -> {"none", "real", "self"}]
    /\ slots \in [Images -> SUBSET Exports]
    /\ ready \in SUBSET Images
    /\ failures \in [Images -> 0..MaxFailures]
    /\ streak \in [Images -> 0..MaxFailures]
    /\ client \in [Clients -> Places]
    /\ thread \in [Clients -> {"none", "running", "loaded", "failed"}]
    /\ paths \in SUBSET Clients
    /\ overlap \in BOOLEAN
    /\ missed \in SUBSET Clients

Init ==
    /\ present \in SUBSET Exports
    /\ loaded = {} /\ pinned = {} /\ self = {} /\ ready = {}
    /\ stage = [i \in Images |-> "none"]
    /\ module = [i \in Images |-> "none"]
    /\ slots = [i \in Images |-> {}]
    /\ failures = [i \in Images |-> 0]
    /\ streak = [i \in Images |-> 0]
    /\ client = [c \in Clients |-> "probe"]
    /\ thread = [c \in Clients |-> "none"]
    /\ paths = {}
    /\ overlap = FALSE
    /\ missed = {}

Mapped(i) == i \in loaded \cup pinned

-----------------------------------------------------------------------------
(* The loader.                                                              *)

\* DllMain: the handle is recorded first.  Without a pin there is no worker, and a
\* worker that cannot be created leaves the image mapped and idle.
AttachAnyway(i) ==
    /\ self' = self \cup {i}
    /\ \E pinOk \in BOOLEAN, workerOk \in BOOLEAN :
         /\ pinned' = IF pinOk THEN pinned \cup {i} ELSE pinned
         /\ stage' = IF workerOk THEN [stage EXCEPT ![i] = "entered"] ELSE stage
Attach(i) ==
    /\ self' = self \cup {i}
    /\ \E pinOk \in BOOLEAN, workerOk \in BOOLEAN :
         /\ pinned' = IF pinOk THEN pinned \cup {i} ELSE pinned
         /\ stage' = IF pinOk /\ workerOk THEN [stage EXCEPT ![i] = "entered"] ELSE stage

\* LoadLibrary: process attach happens only when the file was not mapped.
Load(i) ==
    /\ loaded' = loaded \cup {i}
    /\ IF Mapped(i) THEN UNCHANGED <<pinned, self, stage>> ELSE Attach(i)
    /\ UNCHANGED <<module, slots, ready, failures, streak>>

SteamLoadsProxy(i) ==
    /\ i \in Proxies \ loaded
    /\ Load(i)
    /\ UNCHANGED <<present, clientVars>>

\* SDL may unload XInput right after resolving its exports.
SteamUnloadsProxy(i) ==
    /\ i \in Proxies \cap loaded
    /\ loaded' = loaded \ {i}
    /\ self' = IF i \in pinned THEN self ELSE self \ {i}
    /\ UNCHANGED <<present, pinned, stage, module, slots, ready, failures, streak, clientVars>>

-----------------------------------------------------------------------------
(* server_thread.                                                           *)

GoTo(i, s) == stage' = [stage EXCEPT ![i] = s]

\* Only a proxy's name starts the forwarding (classify_vector).
EnterWorker(i) ==
    /\ stage[i] = "entered"
    /\ GoTo(i, IF i \in Proxies THEN "load" ELSE "create")
    /\ UNCHANGED <<present, loaded, pinned, self, module, slots, ready, failures, streak,
                   clientVars>>

\* load_system32_module: what the loader hands back may be this very image, and
\* is taken for it as long as the own handle is unknown.
AcceptsModule(i, m) == m # "none" /\ i \in self /\ m # "self"
LoadRealModule(i) ==
    /\ stage[i] = "load"
    /\ \E m \in {"none", "real", "self"} :
         IF AcceptsModule(i, m)
         THEN module' = [module EXCEPT ![i] = m] /\ GoTo(i, "required")
         ELSE UNCHANGED module /\ GoTo(i, "create")
    /\ UNCHANGED <<present, loaded, pinned, self, slots, ready, failures, streak, clientVars>>

\* cache_exports: what the module exports is cached, the rest stays null.
CacheExports(i, exports, next) ==
    /\ slots' = [slots EXCEPT ![i] = @ \cup (exports \cap present)]
    /\ GoTo(i, next)
    /\ UNCHANGED <<present, loaded, pinned, self, module, ready, failures, streak, clientVars>>
CacheRequired(i) == stage[i] = "required" /\ CacheExports(i, Required, "optional")
CacheOptional(i) == stage[i] = "optional" /\ CacheExports(i, Optional, "publish")

PublishWhateverIsThere(i) ==
    /\ stage[i] = "publish"
    /\ ready' = ready \cup {i}
    /\ GoTo(i, "create")
    /\ UNCHANGED <<present, loaded, pinned, self, module, slots, failures, streak, clientVars>>
\* initialize_forwarding releases the bootstrap block only for a complete table.
PublishForwarding(i) ==
    /\ stage[i] = "publish"
    /\ ready' = IF Required \subseteq slots[i] THEN ready \cup {i} ELSE ready
    /\ GoTo(i, "create")
    /\ UNCHANGED <<present, loaded, pinned, self, module, slots, failures, streak, clientVars>>

\* CreateNamedPipeW: a failure is tolerated until too many come in a row.
PipeCreatedKeepingFailures(i) ==
    /\ stage[i] = "create"
    /\ streak' = [streak EXCEPT ![i] = 0]
    /\ GoTo(i, "listening")
    /\ UNCHANGED <<present, loaded, pinned, self, module, slots, ready, failures, clientVars>>
PipeCreated(i) ==
    /\ stage[i] = "create"
    /\ failures' = [failures EXCEPT ![i] = 0]
    /\ streak' = [streak EXCEPT ![i] = 0]
    /\ GoTo(i, "listening")
    /\ UNCHANGED <<present, loaded, pinned, self, module, slots, ready, clientVars>>

PipeCreationFails(i) ==
    /\ stage[i] = "create"
    /\ failures' = [failures EXCEPT ![i] = @ + 1]
    /\ streak' = [streak EXCEPT ![i] = @ + 1]
    /\ IF failures'[i] >= MaxFailures THEN GoTo(i, "retired") ELSE UNCHANGED stage
    /\ UNCHANGED <<present, loaded, pinned, self, module, slots, ready, clientVars>>

\* ConnectNamedPipe fails: the instance is closed and the loop goes on.
ConnectFails(i) ==
    /\ stage[i] = "listening"
    /\ GoTo(i, "create")
    /\ UNCHANGED <<present, loaded, pinned, self, module, slots, ready, failures, streak,
                   clientVars>>

\* The connection gets its thread, or is closed because there is none to be had.
NoThreadNoServer(i) ==
    /\ stage[i] = "accepted"
    /\ GoTo(i, "accepted")
    /\ UNCHANGED <<present, loaded, pinned, self, module, slots, ready, failures, streak,
                   clientVars>>
HandOver(i) ==
    /\ stage[i] = "accepted"
    /\ GoTo(i, "create")
    /\ UNCHANGED <<present, loaded, pinned, self, module, slots, ready, failures, streak,
                   clientVars>>

ServerStep(i) ==
    \/ EnterWorker(i) \/ LoadRealModule(i)
    \/ CacheRequired(i) \/ CacheOptional(i) \/ PublishForwarding(i)
    \/ PipeCreated(i) \/ PipeCreationFails(i) \/ HandOver(i)

-----------------------------------------------------------------------------
(* connect_or_inject.                                                       *)

Move(c, place) == client' = [client EXCEPT ![c] = place]
Waiting(c) == client[c] \in {"probe", "connect"}

\* connect_pipe reaches an instance that waits for a client ...
Connect(c) ==
    /\ Waiting(c)
    /\ \E i \in Images :
         /\ stage[i] = "listening"
         /\ GoTo(i, "accepted")
    /\ Move(c, "connected")
    /\ UNCHANGED <<present, loaded, pinned, self, module, slots, ready, failures, streak,
                   thread, paths, overlap, missed>>

\* ... or its deadline passes, however short the moment without an instance was.
ConnectTimesOut(c) ==
    /\ Waiting(c)
    /\ Move(c, IF client[c] = "probe" THEN "resident" ELSE "failed")
    /\ UNCHANGED <<present, imageVars, thread, paths, overlap, missed>>

\* Any other error, or a server that is not Steam, ends it at once.
ConnectRefused(c) ==
    /\ Waiting(c)
    /\ Move(c, "failed")
    /\ UNCHANGED <<present, imageVars, thread, paths, overlap, missed>>

\* Between the residency check and the end of the remote thread.
Injecting(d) == client[d] \in {"file", "inject"} \/ thread[d] = "running"

AssumeAbsent(c) ==
    /\ client[c] = "resident"
    /\ Move(c, "file")
    /\ overlap' = (overlap \/ \E d \in Clients \ {c} : Injecting(d))
    /\ UNCHANGED <<present, imageVars, thread, paths, missed>>

\* remote_module says that a payload of this name is there.  Where none is, or where the
\* snapshot of the modules fails, the loader's list never stands still for it, or the
\* name is no Unicode and nobody asks, the client goes on to inject its own.
CheckResidency(c) ==
    /\ client[c] = "resident"
    /\ LET resident == \E i \in Payloads : Mapped(i) IN
        \/ /\ resident
           /\ Move(c, "connect")
           /\ UNCHANGED <<overlap, missed>>
        \/ /\ Move(c, "file")
           /\ missed' = IF resident THEN missed \cup {c} ELSE missed
           /\ overlap' = (overlap \/ \E d \in Clients \ {c} : Injecting(d))
    /\ UNCHANGED <<present, imageVars, thread, paths>>

CheckFile(c) ==
    /\ client[c] = "file"
    /\ client' \in {[client EXCEPT ![c] = "inject"], [client EXCEPT ![c] = "failed"]}
    /\ UNCHANGED <<present, imageVars, thread, paths, overlap, missed>>

\* inject_payload, up to the remote thread: nothing was started if a step fails,
\* and the string is given back.
Inject(c) ==
    /\ client[c] = "inject"
    /\ \/ /\ thread' = [thread EXCEPT ![c] = "running"]
          /\ paths' = paths \cup {c}
          /\ Move(c, "wait")
       \/ /\ Move(c, "failed")
          /\ UNCHANGED <<thread, paths>>
    /\ UNCHANGED <<present, imageVars, overlap, missed>>

\* The remote thread in LoadLibraryW, which reads the string when it runs.
RemoteThreadRuns(c) ==
    /\ thread[c] = "running"
    /\ thread' = [thread EXCEPT ![c] = "loaded"]
    /\ Load(PayloadPath[c])
    /\ UNCHANGED <<present, client, paths, overlap, missed>>
RemoteThreadFails(c) ==
    /\ thread[c] = "running"
    /\ thread' = [thread EXCEPT ![c] = "failed"]
    /\ UNCHANGED <<present, imageVars, client, paths, overlap, missed>>

\* The wait saw the thread end: the string goes, and the exit code tells, which may
\* be unreadable or, a truncated address, zero.
WaitEnds(c) ==
    /\ client[c] = "wait" /\ thread[c] \in {"loaded", "failed"}
    /\ paths' = paths \ {c}
    /\ thread' = [thread EXCEPT ![c] = "none"]
    /\ \/ thread[c] = "loaded" /\ Move(c, "connect")
       \/ Move(c, "failed")
    /\ UNCHANGED <<present, imageVars, overlap, missed>>

\* Ten seconds passed, or the wait failed: the thread may still read the string.
FreeAfterTimeout(c) ==
    /\ client[c] = "wait"
    /\ paths' = paths \ {c}
    /\ Move(c, "failed")
    /\ UNCHANGED <<present, imageVars, thread, overlap, missed>>
WaitGivesUp(c) ==
    /\ client[c] = "wait"
    /\ Move(c, "failed")
    /\ UNCHANGED <<present, imageVars, thread, paths, overlap, missed>>

ClientStep(c) ==
    \/ Connect(c) \/ ConnectTimesOut(c) \/ ConnectRefused(c)
    \/ CheckResidency(c) \/ CheckFile(c) \/ Inject(c)
    \/ WaitEnds(c) \/ WaitGivesUp(c)

-----------------------------------------------------------------------------

Next ==
    \/ \E i \in Images : SteamLoadsProxy(i) \/ SteamUnloadsProxy(i)
    \/ \E i \in Images : ServerStep(i) \/ ConnectFails(i)
    \/ \E c \in Clients : ClientStep(c) \/ RemoteThreadRuns(c) \/ RemoteThreadFails(c)

\* Steam's threads run and timeouts expire; nobody has to connect.
Spec ==
    /\ Init /\ [][Next]_vars
    /\ \A i \in Images : WF_vars(ServerStep(i))
    /\ \A c \in Clients : WF_vars(ClientStep(c))

-----------------------------------------------------------------------------

\* Code that runs stays mapped, though Steam unloads the DLL it believes to be
\* XInput as soon as it has looked up its exports (DllMain).
WorkerNeverUnmapped ==
    \A i \in Images : stage[i] \notin {"none", "retired"} => Mapped(i)

\* A proxy whose bootstrap block is released forwards to the real system DLL, never
\* to itself, and to every export Steam cannot do without (initialize_forwarding).
ReadyIsComplete ==
    \A i \in ready : module[i] = "real" /\ Required \subseteq slots[i]

\* The server of a pinned image, which nothing can start again, gives up only after
\* that many failures in a row (server_thread).
RetiresOnlyWhenPersistent ==
    \A i \in Images : stage[i] = "retired" => streak[i] = MaxFailures

\* The string a remote LoadLibraryW reads is never given back under it.
PathOutlivesReader ==
    \A c \in Clients : thread[c] = "running" => c \in paths

\* A second image of the payload, with counters and detours of its own, takes two
\* injections that overlapped, or a client of one of the two images that did not see the
\* payload which was there.  A payload that is seen but momentarily without a pipe is
\* never loaded twice (connect_or_inject).
SecondImageHasACause ==
    \A i, j \in Payloads : Mapped(i) /\ Mapped(j) /\ i # j =>
        overlap \/ \E c \in missed : PayloadPath[c] \in {i, j}

\* No connection, however it goes, costs the server its loop.
ServerComesBack ==
    \A i \in Images : stage[i] = "accepted" ~> stage[i] \in {"listening", "retired"}

================================================================================
