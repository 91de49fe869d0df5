--------------------------- MODULE PayloadStartProofs ---------------------------
(***************************************************************************)
(* The safety of the payload's start, for any files, clients, exports and  *)
(* failure budget: code that runs stays mapped, a released bootstrap block  *)
(* has a complete table behind it, the server gives up only after failures  *)
(* in a row, and a payload that is seen is not loaded a second time.        *)
(*                                                                         *)
(* Each property has its own reason to be inductive, and its own lemma with *)
(* one step per action; types and the pin serve all of them.                *)
(***************************************************************************)
EXTENDS PayloadStart, TLAPS

\* A worker exists only in an image that was pinned before.
WorkersArePinned == \A i \in Images : stage[i] # "none" => i \in pinned

\* The counter is the streak, and the budget is spent exactly in retirement.
FailuresAreInARow ==
    \A i \in Images :
        /\ failures[i] = streak[i]
        /\ IF stage[i] = "retired" THEN failures[i] = MaxFailures ELSE failures[i] < MaxFailures

\* The steps of the forwarding come in their order, and none comes again.
ForwardingInOrder ==
    \A i \in Images :
        /\ stage[i] \in {"required", "optional", "publish"} => module[i] = "real"
        /\ i \in ready => stage[i] \in {"create", "listening", "accepted", "retired"}

\* Without an overlap one client injects at a time, and while it does no payload is
\* mapped, unless it did not see it.
OneInjectionAtATime ==
    ~overlap =>
        /\ \A c, d \in Clients : Injecting(c) /\ Injecting(d) => c = d
        /\ \A c \in Clients, i \in Payloads : Injecting(c) => c \in missed \/ ~Mapped(i)

\* A client that has not injected yet has no remote thread.
ThreadsHaveInjectors ==
    \A c \in Clients : thread[c] # "none" => client[c] \in {"wait", "failed"}

\* The base of every lemma below: what is where, and who is pinned.
Base == TypeOK /\ WorkersArePinned /\ FailuresAreInARow

-----------------------------------------------------------------------------

(* The loader: a first mapping attaches, a later one only counts.            *)
LEMMA LoadKeepsBase ==
    ASSUME Base, NEW i \in Images, Load(i)
    PROVE  /\ loaded' \in SUBSET Images /\ pinned' \in SUBSET Images
           /\ self' \in SUBSET Images /\ stage' \in [Images -> Stages]
           /\ WorkersArePinned'
           /\ loaded' = loaded \cup {i} /\ pinned \subseteq pinned'
           /\ pinned' \subseteq pinned \cup {i}
           /\ \A j \in Images : stage[j] # "none" => stage'[j] = stage[j]
           /\ \A j \in Images : stage'[j] \in {stage[j], "entered"}
<1>1. CASE Mapped(i)
  BY <1>1 DEF Load, Base, TypeOK, WorkersArePinned
<1>2. CASE ~Mapped(i)
  <2>1. stage[i] = "none"
    BY <1>2 DEF Base, WorkersArePinned, Mapped
  <2>2. PICK pinOk \in BOOLEAN, workerOk \in BOOLEAN :
           /\ pinned' = IF pinOk THEN pinned \cup {i} ELSE pinned
           /\ stage' = IF pinOk /\ workerOk THEN [stage EXCEPT ![i] = "entered"] ELSE stage
    BY <1>2 DEF Load, Attach
  <2>3. loaded' = loaded \cup {i} /\ self' = self \cup {i}
    BY <1>2 DEF Load, Attach
  <2> QED
    BY <2>1, <2>2, <2>3 DEF Base, TypeOK, WorkersArePinned, Stages
<1> QED
  BY <1>1, <1>2

(* Types, the pin and the budget are kept by every step.                     *)
LEMMA BaseIsInductive ==
    ASSUME Base, [Next]_vars
    PROVE  Base'
<1> USE DEF Base, TypeOK, WorkersArePinned, FailuresAreInARow, imageVars, clientVars, GoTo,
            Move, Stages, Places
<1>1. ASSUME NEW i \in Images, SteamLoadsProxy(i) PROVE Base'
  <2>1. Load(i) /\ UNCHANGED <<present, clientVars>>
    BY <1>1 DEF SteamLoadsProxy
  <2>2. UNCHANGED <<module, slots, ready, failures, streak>>
    BY <2>1 DEF Load
  <2> QED
    BY <2>1, <2>2, LoadKeepsBase
<1>2. ASSUME NEW i \in Images, SteamUnloadsProxy(i) PROVE Base'
  BY <1>2 DEF SteamUnloadsProxy
<1>3. ASSUME NEW i \in Images, EnterWorker(i) PROVE Base'
  BY <1>3 DEF EnterWorker
<1>4. ASSUME NEW i \in Images, LoadRealModule(i) PROVE Base'
  BY <1>4 DEF LoadRealModule, AcceptsModule
<1>5. ASSUME NEW i \in Images, CacheRequired(i) PROVE Base'
  BY <1>5 DEF CacheRequired, CacheExports
<1>6. ASSUME NEW i \in Images, CacheOptional(i) PROVE Base'
  BY <1>6 DEF CacheOptional, CacheExports
<1>7. ASSUME NEW i \in Images, PublishForwarding(i) PROVE Base'
  BY <1>7 DEF PublishForwarding
<1>8. ASSUME NEW i \in Images, PipeCreated(i) PROVE Base'
  BY <1>8, MaxFailuresAssumption DEF PipeCreated
<1>9. ASSUME NEW i \in Images, PipeCreationFails(i) PROVE Base'
  BY <1>9, MaxFailuresAssumption DEF PipeCreationFails
<1>10. ASSUME NEW i \in Images, ConnectFails(i) \/ HandOver(i) PROVE Base'
  BY <1>10 DEF ConnectFails, HandOver
<1>11. ASSUME NEW c \in Clients, Connect(c) PROVE Base'
  BY <1>11 DEF Connect
<1>12. ASSUME NEW c \in Clients, ConnectTimesOut(c) \/ ConnectRefused(c) PROVE Base'
  BY <1>12 DEF ConnectTimesOut, ConnectRefused
<1>13. ASSUME NEW c \in Clients, CheckResidency(c) PROVE Base'
  BY <1>13 DEF CheckResidency
<1>14. ASSUME NEW c \in Clients, CheckFile(c) PROVE Base'
  BY <1>14 DEF CheckFile
<1>15. ASSUME NEW c \in Clients, Inject(c) PROVE Base'
  BY <1>15 DEF Inject
<1>16. ASSUME NEW c \in Clients, WaitEnds(c) \/ WaitGivesUp(c) PROVE Base'
  BY <1>16 DEF WaitEnds, WaitGivesUp
<1>17. ASSUME NEW c \in Clients, RemoteThreadRuns(c) PROVE Base'
  <2>1. PayloadPath[c] \in Images /\ Load(PayloadPath[c])
    BY <1>17, PathAssumption DEF RemoteThreadRuns, Images
  <2>2. UNCHANGED <<present, client, paths, overlap, missed, module, slots, ready, failures,
                    streak>>
    BY <1>17 DEF RemoteThreadRuns, Load
  <2>3. thread' = [thread EXCEPT ![c] = "loaded"]
    BY <1>17 DEF RemoteThreadRuns
  <2> QED
    BY <2>1, <2>2, <2>3, LoadKeepsBase
<1>18. ASSUME NEW c \in Clients, RemoteThreadFails(c) PROVE Base'
  BY <1>18 DEF RemoteThreadFails
<1>19. CASE UNCHANGED vars
  BY <1>19 DEF vars
<1> QED
  BY <1>1, <1>2, <1>3, <1>4, <1>5, <1>6, <1>7, <1>8, <1>9, <1>10, <1>11, <1>12, <1>13,
     <1>14, <1>15, <1>16, <1>17, <1>18, <1>19 DEF Next, ServerStep, ClientStep

(* The base holds all along.                                                 *)
LEMMA BaseHolds == Spec => []Base
<1>1. Init => Base
  <2> SUFFICES ASSUME Init PROVE Base
    OBVIOUS
  <2>1. TypeOK
    <3>1. 0 \in 0..MaxFailures
      BY MaxFailuresAssumption
    <3>2. failures \in [Images -> 0..MaxFailures] /\ streak \in [Images -> 0..MaxFailures]
      BY <3>1 DEF Init
    <3>3. slots \in [Images -> SUBSET Exports]
      BY DEF Init
    <3> QED
      BY <3>2, <3>3 DEF Init, TypeOK, Stages, Places
  <2>2. WorkersArePinned
    BY DEF Init, WorkersArePinned
  <2>3. FailuresAreInARow
    BY MaxFailuresAssumption DEF Init, FailuresAreInARow
  <2> QED
    BY <2>1, <2>2, <2>3 DEF Base
<1>2. Base /\ [Next]_vars => Base'
  BY BaseIsInductive
<1> QED
  BY <1>1, <1>2, PTL DEF Spec

-----------------------------------------------------------------------------

(* Code that runs stays mapped: the pin precedes the worker.                 *)
THEOREM WorkersStayMapped == Spec => []WorkerNeverUnmapped
<1>1. Base => WorkerNeverUnmapped
  BY DEF Base, WorkersArePinned, WorkerNeverUnmapped, Mapped
<1> QED
  BY <1>1, BaseHolds, PTL

(* Every variable has its type; in particular no failure counter passes the  *)
(* budget.                                                                   *)
THEOREM TypeCorrect == Spec => []TypeOK
<1>1. Base => TypeOK
  BY DEF Base
<1> QED
  BY <1>1, BaseHolds, PTL

(* The server retires only after the whole budget of failures in a row.      *)
THEOREM RetirementIsPersistent == Spec => []RetiresOnlyWhenPersistent
<1>1. Base => RetiresOnlyWhenPersistent
  BY DEF Base, FailuresAreInARow, RetiresOnlyWhenPersistent
<1> QED
  BY <1>1, BaseHolds, PTL

-----------------------------------------------------------------------------

(* The forwarding: only its own steps touch the module, the slots and the    *)
(* release of the bootstrap block.                                           *)
Forwarding == ForwardingInOrder /\ ReadyIsComplete

LEMMA ForwardingIsInductive ==
    ASSUME Base, Forwarding, [Next]_vars
    PROVE  Forwarding'
<1> USE DEF Base, TypeOK, Forwarding, ForwardingInOrder, ReadyIsComplete, imageVars,
            clientVars, GoTo
<1>1. ASSUME NEW i \in Images, Load(i) PROVE Forwarding'
  <2>1. UNCHANGED <<module, slots, ready>>
    BY <1>1 DEF Load
  <2>2. \A j \in Images : stage'[j] \in {stage[j], "entered"}
    BY <1>1, LoadKeepsBase
  <2>3. \A j \in Images : stage[j] # "none" => stage'[j] = stage[j]
    BY <1>1, LoadKeepsBase
  <2> QED
    BY <2>1, <2>2, <2>3
<1>2. ASSUME NEW i \in Images, EnterWorker(i) PROVE Forwarding'
  BY <1>2 DEF EnterWorker
<1>3. ASSUME NEW i \in Images, LoadRealModule(i) PROVE Forwarding'
  BY <1>3 DEF LoadRealModule, AcceptsModule
<1>4. ASSUME NEW i \in Images, CacheRequired(i) PROVE Forwarding'
  BY <1>4 DEF CacheRequired, CacheExports
<1>5. ASSUME NEW i \in Images, CacheOptional(i) PROVE Forwarding'
  BY <1>5 DEF CacheOptional, CacheExports
<1>6. ASSUME NEW i \in Images, PublishForwarding(i) PROVE Forwarding'
  BY <1>6 DEF PublishForwarding
<1>7. ASSUME NEW i \in Images, PipeCreated(i) \/ PipeCreationFails(i) PROVE Forwarding'
  BY <1>7 DEF PipeCreated, PipeCreationFails
<1>8. ASSUME NEW i \in Images, ConnectFails(i) \/ HandOver(i) PROVE Forwarding'
  BY <1>8 DEF ConnectFails, HandOver
<1>9. ASSUME NEW c \in Clients, Connect(c) PROVE Forwarding'
  BY <1>9 DEF Connect
<1>10. ASSUME NEW c \in Clients, ClientStep(c), ~Connect(c) PROVE Forwarding'
  BY <1>10 DEF ClientStep, ConnectTimesOut, ConnectRefused, CheckResidency, CheckFile,
               Inject, WaitEnds, WaitGivesUp
<1>11. ASSUME NEW i \in Images, SteamUnloadsProxy(i) PROVE Forwarding'
  BY <1>11 DEF SteamUnloadsProxy
<1>12. ASSUME NEW c \in Clients, RemoteThreadFails(c) PROVE Forwarding'
  BY <1>12 DEF RemoteThreadFails
<1>13. ASSUME NEW c \in Clients, RemoteThreadRuns(c) PROVE Forwarding'
  BY <1>13, <1>1, PathAssumption DEF RemoteThreadRuns, Images
<1>14. CASE UNCHANGED vars
  BY <1>14 DEF vars
<1> QED
  BY <1>1, <1>2, <1>3, <1>4, <1>5, <1>6, <1>7, <1>8, <1>9, <1>10, <1>11, <1>12, <1>13,
     <1>14 DEF Next, ServerStep, SteamLoadsProxy

(* A released bootstrap block has the real DLL and all it needs behind it.   *)
THEOREM ReadyTablesAreComplete == Spec => []ReadyIsComplete
<1>1. Init => Forwarding
  BY DEF Init, Forwarding, ForwardingInOrder, ReadyIsComplete
<1>2. Base /\ Forwarding /\ [Next]_vars => Forwarding'
  BY ForwardingIsInductive
<1>3. Forwarding => ReadyIsComplete
  BY DEF Forwarding
<1> QED
  BY <1>1, <1>2, <1>3, BaseHolds, PTL DEF Spec

-----------------------------------------------------------------------------

(* The injections: a client has its thread only after it injected, the       *)
(* thread its string, and one client at a time injects unless two found the  *)
(* payload absent together, or one did not see it.                           *)
Injections ==
    /\ ThreadsHaveInjectors
    /\ PathOutlivesReader
    /\ OneInjectionAtATime
    /\ SecondImageHasACause

(* A step that leaves the clients alone keeps it, if no payload appears.     *)
LEMMA InjectionsNeedClients ==
    ASSUME Injections, UNCHANGED clientVars,
           \A j \in Payloads : Mapped(j)' => Mapped(j)
    PROVE  Injections'
  BY DEF Injections, ThreadsHaveInjectors, PathOutlivesReader, OneInjectionAtATime,
         SecondImageHasACause, Injecting, clientVars

LEMMA InjectionsAreInductive ==
    ASSUME Base, Injections, [Next]_vars
    PROVE  Injections'
<1> USE DEF Base, TypeOK, Injections, ThreadsHaveInjectors, PathOutlivesReader,
            OneInjectionAtATime, SecondImageHasACause, Injecting, Places
<1>1. ASSUME NEW c \in Clients, RemoteThreadRuns(c) PROVE Injections'
  <2>1. /\ thread[c] = "running" /\ thread' = [thread EXCEPT ![c] = "loaded"]
        /\ UNCHANGED <<client, paths, overlap, missed>>
    BY <1>1 DEF RemoteThreadRuns
  <2>2. PayloadPath[c] \in Payloads /\ PayloadPath[c] \in Images
    BY PathAssumption DEF Images
  <2>3. \A j \in Payloads : Mapped(j)' => Mapped(j) \/ j = PayloadPath[c]
    BY <1>1, <2>2, LoadKeepsBase DEF RemoteThreadRuns, Mapped
  <2>4. ThreadsHaveInjectors' /\ PathOutlivesReader'
    BY <2>1
  <2>5. ~overlap => /\ \A d \in Clients : Injecting(d) => c = d
                    /\ c \in missed \/ \A j \in Payloads : ~Mapped(j)
    BY <2>1
  <2>6. ~overlap => \A d \in Clients : ~Injecting(d)'
    BY <2>1, <2>5
  <2>7. OneInjectionAtATime'
    BY <2>1, <2>6
  <2>8. SecondImageHasACause'
    BY <2>1, <2>3, <2>5
  <2> QED
    BY <2>4, <2>7, <2>8
<1>2. ASSUME NEW c \in Clients, CheckResidency(c) PROVE Injections'
  <2>1. /\ client[c] = "resident" /\ UNCHANGED <<imageVars, thread, paths>>
        /\ client' \in {[client EXCEPT ![c] = "connect"], [client EXCEPT ![c] = "file"]}
        /\ overlap => overlap'
        /\ missed \subseteq missed'
    BY <1>2 DEF CheckResidency, Move
  <2>2. \A j \in Payloads : Mapped(j)' = Mapped(j)
    BY <2>1 DEF Mapped, imageVars
  <2>3. ThreadsHaveInjectors' /\ PathOutlivesReader' /\ SecondImageHasACause'
    BY <2>1, <2>2
  <2>4. \A d \in Clients \ {c} : Injecting(d)' = Injecting(d)
    BY <2>1
  <2>5. CASE client' = [client EXCEPT ![c] = "connect"]
    <3>1. UNCHANGED <<overlap, missed>> /\ ~Injecting(c)'
      BY <1>2, <2>1, <2>5 DEF CheckResidency, Move
    <3> QED
      BY <2>2, <2>3, <2>4, <3>1
  <2>6. CASE client' = [client EXCEPT ![c] = "file"]
    <3>1. /\ overlap' = (overlap \/ \E d \in Clients \ {c} : Injecting(d))
          /\ (\E i \in Payloads : Mapped(i)) => c \in missed'
      BY <1>2, <2>1, <2>6 DEF CheckResidency, Move
    <3> QED
      BY <2>1, <2>2, <2>3, <2>4, <3>1
  <2> QED
    BY <2>1, <2>5, <2>6
<1>3. ASSUME NEW c \in Clients,
             ClientStep(c) \/ RemoteThreadFails(c), ~CheckResidency(c)
      PROVE  Injections'
  <2>1. /\ overlap' = overlap /\ missed' = missed
        /\ \A j \in Payloads : Mapped(j)' = Mapped(j)
    BY <1>3 DEF ClientStep, Connect, ConnectTimesOut, ConnectRefused, CheckFile, Inject,
                WaitEnds, WaitGivesUp, RemoteThreadFails, Mapped, imageVars
  <2>2. \A d \in Clients : Injecting(d)' => Injecting(d)
    BY <1>3 DEF ClientStep, Connect, ConnectTimesOut, ConnectRefused, CheckFile, Inject,
                WaitEnds, WaitGivesUp, RemoteThreadFails, Move, Waiting
  <2>3. ThreadsHaveInjectors' /\ PathOutlivesReader'
    BY <1>3 DEF ClientStep, Connect, ConnectTimesOut, ConnectRefused, CheckFile, Inject,
                WaitEnds, WaitGivesUp, RemoteThreadFails, Move, Waiting
  <2> QED
    BY <2>1, <2>2, <2>3
<1>4. ASSUME NEW i \in Images, ServerStep(i) \/ ConnectFails(i) PROVE Injections'
  <2>1. UNCHANGED <<clientVars, loaded, pinned>>
    BY <1>4 DEF ServerStep, EnterWorker, LoadRealModule, CacheRequired, CacheOptional,
                CacheExports, PublishForwarding, PipeCreated, PipeCreationFails, HandOver,
                ConnectFails
  <2> QED
    BY <2>1, InjectionsNeedClients DEF Mapped
<1>5. ASSUME NEW i \in Images, SteamLoadsProxy(i) PROVE Injections'
  <2>1. /\ i \in Proxies /\ Load(i) /\ UNCHANGED clientVars
    BY <1>5 DEF SteamLoadsProxy
  <2>2. \A j \in Payloads : Mapped(j)' => Mapped(j)
    BY <2>1, LoadKeepsBase, ImagesAssumption DEF Mapped
  <2> QED
    BY <2>1, <2>2, InjectionsNeedClients
<1>6. ASSUME NEW i \in Images, SteamUnloadsProxy(i) PROVE Injections'
  <2>1. UNCHANGED clientVars /\ \A j \in Payloads : Mapped(j)' => Mapped(j)
    BY <1>6 DEF SteamUnloadsProxy, Mapped
  <2> QED
    BY <2>1, InjectionsNeedClients
<1>7. CASE UNCHANGED vars
  BY <1>7, InjectionsNeedClients DEF vars, imageVars, Mapped
<1> QED
  BY <1>1, <1>2, <1>3, <1>4, <1>5, <1>6, <1>7 DEF Next

(* The injections' invariant, from which both properties of them follow.     *)
LEMMA InjectionsHold == Spec => []Injections
<1>1. Init => Injections
  BY DEF Init, Injections, ThreadsHaveInjectors, PathOutlivesReader, OneInjectionAtATime,
         SecondImageHasACause, Injecting, Mapped
<1>2. Base /\ Injections /\ [Next]_vars => Injections'
  BY InjectionsAreInductive
<1> QED
  BY <1>1, <1>2, BaseHolds, PTL DEF Spec

(* The string a remote LoadLibraryW reads is never given back under it.      *)
THEOREM PathsOutliveReaders == Spec => []PathOutlivesReader
<1>1. Injections => PathOutlivesReader
  BY DEF Injections
<1> QED
  BY <1>1, InjectionsHold, PTL

(* A payload that is resident is loaded a second time only when two          *)
(* injections overlapped or a client of one of the two images had missed the *)
(* payload that was there.                                                   *)
THEOREM ResidentPayloadsAreKept == Spec => []SecondImageHasACause
<1>1. Injections => SecondImageHasACause
  BY DEF Injections
<1> QED
  BY <1>1, InjectionsHold, PTL

================================================================================
