-------------------------- MODULE GateOwnershipProofs --------------------------
(***************************************************************************)
(* What GateOwnership guarantees for any set of connections, finite or     *)
(* not: the inductive invariant, the safety properties it implies, and     *)
(* that the counters and the mutex implement LeaseGate.  Then what the      *)
(* threads beside the pipe workers rely on: the gated calls of Steam        *)
(* (GateDetours), and the timer of the second discovery (GateRecovery).     *)
(* Last, the clients and the payload together (HostLease): the composition  *)
(* implements the payload's ownership, so that every theorem about that     *)
(* holds of it, and a client's belief in its lease is right.                *)
(***************************************************************************)
EXTENDS GateDetours, GateRecovery, HostLease, FiniteSetTheorems, TLAPS

(* What a worker's ownership flag does to the two sets of owners.           *)
LEMMA OwnersChange ==
    ASSUME NEW w \in Workers, NEW kind \in {"none", "lease", "pass"},
           TypeOK, owns' = [owns EXCEPT ![w] = kind]
    PROVE  /\ LeaseOwners' = IF kind = "lease" THEN LeaseOwners \cup {w}
                             ELSE LeaseOwners \ {w}
           /\ PassOwners' = IF kind = "pass" THEN PassOwners \cup {w}
                            ELSE PassOwners \ {w}
BY DEF TypeOK, LeaseOwners, PassOwners

(* The owners stay who they are when no flag changes.                       *)
LEMMA OwnersKept ==
    ASSUME UNCHANGED owns
    PROVE  LeaseOwners' = LeaseOwners /\ PassOwners' = PassOwners
BY DEF LeaseOwners, PassOwners

(* A positive counter means somebody owns, a zero counter that nobody does. *)
LEMMA CountersSeeOwners ==
    ASSUME CountsMatchOwners, TypeOK
    PROVE  /\ leaseCount > 0 <=> LeaseOwners # {}
           /\ passCount > 0 <=> PassOwners # {}
<1>1. leaseCount = 0 <=> LeaseOwners = {}
  BY FS_EmptySet DEF CountsMatchOwners
<1>2. passCount = 0 <=> PassOwners = {}
  BY FS_EmptySet DEF CountsMatchOwners
<1> QED
  BY <1>1, <1>2 DEF TypeOK

LEMMA InitInductive == Init => Inductive
<1> SUFFICES ASSUME Init PROVE Inductive
  OBVIOUS
<1>1. TypeOK
  BY DEF Init, TypeOK, Locations
<1>2. LeaseOwners = {} /\ PassOwners = {}
  BY DEF Init, LeaseOwners, PassOwners
<1>3. CountsMatchOwners
  BY <1>2, FS_EmptySet DEF Init, CountsMatchOwners
<1>4. /\ MutexHeldByVisitor /\ OwnershipFollowsPlace /\ VisitMatchesEdge
      /\ SweepingOwnerIsAlone /\ HooksSeenBeforeAcquire /\ SteamMatchesGate
      /\ leaseCount > 0 => hooks = "installed"
  BY NoWorkerAssumption
     DEF Init, MutexHeldByVisitor, OwnershipFollowsPlace, VisitMatchesEdge,
         SweepingOwnerIsAlone, HooksSeenBeforeAcquire, SteamMatchesGate, At, Blocking
<1> QED
  BY <1>1, <1>3, <1>4 DEF Inductive

(* The steps that leave the counters, the flags and the mutex alone: only a *)
(* worker's place, its request, its answer and the state of the hooks move. *)
LEMMA QuietStep ==
    ASSUME NEW w \in Workers, Inductive,
           \/ ReadRequest(w) \/ EnsureHooks(w) \/ Respond(w)
           \/ ReadRelease(w) \/ RespondReleased(w) \/ Disconnect(w)
    PROVE  Inductive'
<1> USE DEF Inductive
<1>1. UNCHANGED <<counters, transition, steam, owns>>
  BY DEF ReadRequest, EnsureHooks, Respond, ReadRelease, RespondReleased, Disconnect
<1>2. TypeOK'
  BY CommandsAssumption
     DEF TypeOK, Locations, Results, Requests, At, Goto, ReadRequest, EnsureHooks,
         InstallOutcomes, Respond, ReadRelease, RespondReleased, Disconnect, counters
<1>3. CountsMatchOwners'
  BY <1>1, OwnersKept DEF CountsMatchOwners, counters
<1>4. hooks = "installed" => hooks' = "installed"
  BY DEF ReadRequest, EnsureHooks, InstallOutcomes, Respond, ReadRelease,
         RespondReleased, Disconnect
<1>5. /\ \A v \in Workers \ {w} : pc'[v] = pc[v] /\ request'[v] = request[v]
      /\ pc[w] \in {"read", "hooks", "respond", "owned", "released", "disconnect"}
      /\ pc'[w] \notin {"read", "revoke", "notify"}
      /\ pc'[w] = "acquire" /\ request'[w] = "AcquireLease" => hooks' = "installed"
      /\ pc'[w] \in {"hooks", "acquire", "released", "disconnect", "done"}
         => owns[w] = "none"
      /\ pc'[w] \in {"owned", "release"} => owns[w] # "none"
  <2> USE DEF TypeOK, At, Goto, OwnershipFollowsPlace
  <2>1. CASE ReadRequest(w)
    BY <2>1, CommandsAssumption DEF ReadRequest, Requests
  <2>2. CASE EnsureHooks(w)
    BY <2>2 DEF EnsureHooks
  <2>3. CASE Respond(w) \/ ReadRelease(w) \/ RespondReleased(w) \/ Disconnect(w)
    BY <2>3 DEF Respond, ReadRelease, RespondReleased, Disconnect
  <2> QED
    BY <2>1, <2>2, <2>3
<1>6. Blocking' = Blocking
  BY <1>1 DEF Blocking, counters
<1>7. MutexHeldByVisitor' /\ OwnershipFollowsPlace'
  BY <1>1, <1>5 DEF MutexHeldByVisitor, OwnershipFollowsPlace
<1>8. VisitMatchesEdge' /\ SweepingOwnerIsAlone' /\ SteamMatchesGate'
  BY <1>1, <1>5, <1>6
     DEF VisitMatchesEdge, SweepingOwnerIsAlone, SteamMatchesGate, At, counters
<1>9. HooksSeenBeforeAcquire' /\ (leaseCount' > 0 => hooks' = "installed")
  BY <1>1, <1>4, <1>5 DEF HooksSeenBeforeAcquire, At, counters
<1> QED
  BY <1>2, <1>3, <1>7, <1>8, <1>9

(* Taking ownership: the counter goes up with the set of its owners, and an *)
(* edge of blocking keeps the mutex for the visit it calls for.             *)
LEMMA AcquireStep ==
    ASSUME NEW w \in Workers, Inductive, AcquireLease(w) \/ AcquirePassThrough(w)
    PROVE  Inductive'
<1> USE DEF Inductive
<1>0. /\ pc[w] = "acquire" /\ owns[w] = "none" /\ transition = NoWorker
      /\ UNCHANGED <<hooks, steam, request>>
      /\ w \notin LeaseOwners /\ w \notin PassOwners
  BY DEF AcquireLease, AcquirePassThrough, At, OwnershipFollowsPlace, LeaseOwners,
         PassOwners
<1>1. PICK visits \in BOOLEAN :
        /\ transition' = IF visits THEN w ELSE transition
        /\ pc' = [pc EXCEPT ![w] = IF ~visits THEN "respond"
                                   ELSE IF Blocking' THEN "revoke" ELSE "notify"]
        /\ visits <=> (Blocking # Blocking')
        /\ visits /\ Blocking' => leaseCount' = 1
  <2>1. CASE AcquireLease(w)
    <3>1. Blocking => leaseCount' # 1
      BY <2>1 DEF AcquireLease, Blocking, TypeOK
    <3>2. FirstBlockingLease <=> (Blocking # Blocking')
      BY <2>1, <3>1 DEF AcquireLease, FirstBlockingLease, Blocking, TypeOK
    <3>3. FirstBlockingLease => Blocking' /\ leaseCount' = 1
      BY DEF FirstBlockingLease
    <3>4. FirstBlockingLease \in BOOLEAN
      BY DEF FirstBlockingLease
    <3> QED
      BY <2>1, <3>2, <3>3, <3>4 DEF AcquireLease, KeepMutex, GiveBack, Goto
  <2>2. CASE AcquirePassThrough(w)
    <3>1. ~Blocking'
      BY <2>2 DEF AcquirePassThrough, Blocking, TypeOK
    <3>2. Blocking \in BOOLEAN /\ Blocking' \in BOOLEAN
      BY DEF Blocking
    <3>3. /\ transition' = IF Blocking THEN w ELSE transition
          /\ pc' = [pc EXCEPT ![w] = IF ~Blocking THEN "respond" ELSE "notify"]
      BY <2>2 DEF AcquirePassThrough, KeepMutex, GiveBack, Goto
    <3>4. CASE Blocking
      BY <3>1, <3>2, <3>3, <3>4
    <3>5. CASE ~Blocking
      BY <3>1, <3>2, <3>3, <3>5
    <3> QED
      BY <3>4, <3>5
  <2> QED
    BY <2>1, <2>2
<1>2. PICK kind \in {"lease", "pass"} :
        /\ owns' = [owns EXCEPT ![w] = kind]
        /\ leaseCount' = IF kind = "lease" THEN leaseCount + 1 ELSE leaseCount
        /\ passCount' = IF kind = "pass" THEN passCount + 1 ELSE passCount
  BY DEF AcquireLease, AcquirePassThrough
<1>3. TypeOK'
  <2>1. leaseCount' \in Nat /\ passCount' \in Nat
    BY <1>2 DEF TypeOK
  <2>2. pc' \in [Workers -> Locations] /\ transition' \in Workers \cup {NoWorker}
    BY <1>1 DEF TypeOK, Locations
  <2>3. /\ owns' \in [Workers -> {"none", "lease", "pass"}]
        /\ result' \in [Workers -> Results \cup {"none"}]
    BY <1>2 DEF AcquireLease, AcquirePassThrough, TypeOK, Results
  <2> QED
    BY <1>0, <2>1, <2>2, <2>3 DEF TypeOK
<1>4. CountsMatchOwners'
  <2>1. /\ LeaseOwners' = IF kind = "lease" THEN LeaseOwners \cup {w} ELSE LeaseOwners
        /\ PassOwners' = IF kind = "pass" THEN PassOwners \cup {w} ELSE PassOwners
    <3>1. /\ LeaseOwners' = IF kind = "lease" THEN LeaseOwners \cup {w}
                             ELSE LeaseOwners \ {w}
          /\ PassOwners' = IF kind = "pass" THEN PassOwners \cup {w}
                            ELSE PassOwners \ {w}
      BY <1>2, OwnersChange
    <3> QED
      BY <1>0, <3>1
  <2>2. /\ IsFiniteSet(LeaseOwners \cup {w})
        /\ Cardinality(LeaseOwners \cup {w}) = leaseCount + 1
    BY <1>0, FS_AddElement DEF CountsMatchOwners
  <2>3. /\ IsFiniteSet(PassOwners \cup {w})
        /\ Cardinality(PassOwners \cup {w}) = passCount + 1
    BY <1>0, FS_AddElement DEF CountsMatchOwners
  <2> QED
    BY <1>2, <2>1, <2>2, <2>3 DEF CountsMatchOwners
<1>5. \A v \in Workers : pc[v] \notin {"revoke", "notify"}
  BY <1>0, NoWorkerAssumption DEF MutexHeldByVisitor
<1>6. \A v \in Workers \ {w} : pc'[v] = pc[v] /\ owns'[v] = owns[v]
  BY <1>1, <1>2 DEF TypeOK
<1>7. /\ pc'[w] = IF ~visits THEN "respond" ELSE IF Blocking' THEN "revoke" ELSE "notify"
      /\ owns'[w] = kind
  BY <1>1, <1>2 DEF TypeOK
<1>8. MutexHeldByVisitor'
  BY <1>0, <1>1, <1>5, <1>6, <1>7, NoWorkerAssumption DEF MutexHeldByVisitor
<1>9. OwnershipFollowsPlace'
  BY <1>6, <1>7 DEF OwnershipFollowsPlace
<1>10. Blocking <=> steam # "free"
  BY <1>0 DEF SteamMatchesGate
<1>11. Blocking \in BOOLEAN /\ Blocking' \in BOOLEAN
  BY DEF Blocking
<1>12. VisitMatchesEdge'
  BY <1>0, <1>1, <1>5, <1>6, <1>7, <1>10, <1>11 DEF VisitMatchesEdge, At
<1>13. SweepingOwnerIsAlone'
  BY <1>1, <1>5, <1>6, <1>7 DEF SweepingOwnerIsAlone, At
<1>14. HooksSeenBeforeAcquire'
  BY <1>0, <1>6, <1>7 DEF HooksSeenBeforeAcquire, At
<1>15. SteamMatchesGate'
  BY <1>0, <1>1, <1>10, <1>11, NoWorkerAssumption DEF SteamMatchesGate
<1>16. leaseCount' > 0 => hooks' = "installed"
  BY <1>0, <1>2 DEF AcquireLease, AcquirePassThrough, HooksSeenBeforeAcquire, At
<1> QED
  BY <1>3, <1>4, <1>8, <1>9, <1>12, <1>13, <1>14, <1>15, <1>16

(* Giving it up: only the counter that was raised goes down.                *)
LEMMA ReleaseStep ==
    ASSUME NEW w \in Workers, Inductive, Release(w)
    PROVE  Inductive'
<1> USE DEF Inductive
<1>0. /\ pc[w] = "release" /\ owns[w] \in {"lease", "pass"} /\ transition = NoWorker
      /\ UNCHANGED <<hooks, steam, request, result>>
      /\ owns' = [owns EXCEPT ![w] = "none"]
  BY DEF Release, At, OwnershipFollowsPlace, TypeOK
<1>1. /\ owns[w] = "pass" => passCount > 0
      /\ owns[w] = "lease" => leaseCount > 0
  BY CountersSeeOwners DEF LeaseOwners, PassOwners
<1>2. TypeOK' /\ leaseCount' \in Nat /\ passCount' \in Nat
  <2>1. leaseCount' \in Nat /\ passCount' \in Nat
    BY <1>0, <1>1 DEF Release, DropOwn, TypeOK
  <2>2. pc' \in [Workers -> Locations] /\ transition' \in Workers \cup {NoWorker}
    BY DEF Release, VisitAfterDrop, KeepMutex, GiveBack, Goto, TypeOK, Locations
  <2> QED
    BY <1>0, <2>1, <2>2 DEF TypeOK
<1>3. CountsMatchOwners'
  <2>1. LeaseOwners' = LeaseOwners \ {w} /\ PassOwners' = PassOwners \ {w}
    BY <1>0, OwnersChange
  <2>2. /\ IsFiniteSet(LeaseOwners \ {w})
        /\ Cardinality(LeaseOwners \ {w}) =
             IF owns[w] = "lease" THEN leaseCount - 1 ELSE leaseCount
    BY FS_RemoveElement DEF CountsMatchOwners, LeaseOwners
  <2>3. /\ IsFiniteSet(PassOwners \ {w})
        /\ Cardinality(PassOwners \ {w}) =
             IF owns[w] = "pass" THEN passCount - 1 ELSE passCount
    BY FS_RemoveElement DEF CountsMatchOwners, PassOwners
  <2> QED
    BY <1>0, <2>1, <2>2, <2>3 DEF CountsMatchOwners, Release, DropOwn
<1>4. Blocking \in BOOLEAN /\ Blocking' \in BOOLEAN
  BY DEF Blocking
<1>5. PICK visits \in BOOLEAN :
        /\ visits <=> (Blocking # Blocking')
        /\ transition' = IF visits THEN w ELSE transition
        /\ pc' = [pc EXCEPT ![w] = IF ~visits THEN "released"
                                   ELSE IF Blocking' THEN "revoke" ELSE "notify"]
  BY <1>0, <1>4 DEF Release, VisitAfterDrop, KeepMutex, GiveBack, Goto
<1>6. /\ \A v \in Workers : pc[v] \notin {"revoke", "notify"}
      /\ \A v \in Workers \ {w} : pc'[v] = pc[v] /\ owns'[v] = owns[v]
      /\ pc'[w] = IF ~visits THEN "released" ELSE IF Blocking' THEN "revoke" ELSE "notify"
      /\ owns'[w] = "none"
  BY <1>0, <1>5, NoWorkerAssumption DEF MutexHeldByVisitor, TypeOK
<1>7. MutexHeldByVisitor' /\ OwnershipFollowsPlace'
  BY <1>0, <1>5, <1>6, NoWorkerAssumption DEF MutexHeldByVisitor, OwnershipFollowsPlace
<1>8. Blocking <=> steam # "free"
  BY <1>0 DEF SteamMatchesGate
<1>9. VisitMatchesEdge' /\ SteamMatchesGate'
  BY <1>0, <1>4, <1>5, <1>6, <1>8, NoWorkerAssumption
     DEF VisitMatchesEdge, SteamMatchesGate, At
<1>10. SweepingOwnerIsAlone' /\ HooksSeenBeforeAcquire'
  BY <1>0, <1>6 DEF SweepingOwnerIsAlone, HooksSeenBeforeAcquire, At
<1>11. leaseCount' > 0 => hooks' = "installed"
  BY <1>0, <1>1 DEF Release, DropOwn, TypeOK
<1> QED
  BY <1>2, <1>3, <1>7, <1>9, <1>10, <1>11

(* A visit brings Steam in line with the counters and gives the mutex back. *)
LEMMA VisitStep ==
    ASSUME NEW w \in Workers, Inductive, Revoke(w) \/ Notify(w)
    PROVE  Inductive'
<1> USE DEF Inductive
<1>0. /\ UNCHANGED <<counters, hooks, request, owns, result>>
      /\ pc' = [pc EXCEPT ![w] = AfterVisit(w)]
      /\ transition = w /\ transition' = NoWorker
      /\ pc[w] \in {"revoke", "notify"}
      /\ steam' \in {"free", "revoked", "unswept"}
      /\ Blocking <=> steam' # "free"
  BY DEF Revoke, Notify, Goto, At, MutexHeldByVisitor, VisitMatchesEdge
<1>1. TypeOK'
  BY <1>0 DEF TypeOK, AfterVisit, Locations, counters
<1>2. CountsMatchOwners' /\ Blocking' = Blocking
  BY <1>0, OwnersKept DEF CountsMatchOwners, counters, Blocking
<1>3. /\ \A v \in Workers \ {w} : pc'[v] = pc[v] /\ pc[v] \notin {"revoke", "notify"}
      /\ pc'[w] = IF owns[w] = "none" THEN "released" ELSE "respond"
  BY <1>0 DEF MutexHeldByVisitor, AfterVisit, TypeOK
<1>4. MutexHeldByVisitor' /\ OwnershipFollowsPlace'
  BY <1>0, <1>3, NoWorkerAssumption DEF MutexHeldByVisitor, OwnershipFollowsPlace
<1>5. VisitMatchesEdge' /\ SweepingOwnerIsAlone' /\ HooksSeenBeforeAcquire'
  BY <1>0, <1>3 DEF VisitMatchesEdge, SweepingOwnerIsAlone, HooksSeenBeforeAcquire, At
<1>6. SteamMatchesGate' /\ (leaseCount' > 0 => hooks' = "installed")
  BY <1>0, <1>2 DEF SteamMatchesGate, counters
<1> QED
  BY <1>1, <1>2, <1>4, <1>5, <1>6

LEMMA NextInductive == Inductive /\ [Next]_vars => Inductive'
<1> SUFFICES ASSUME Inductive, [Next]_vars PROVE Inductive'
  OBVIOUS
<1>1. CASE UNCHANGED vars
  <2>1. LeaseOwners' = LeaseOwners /\ PassOwners' = PassOwners
    BY <1>1, OwnersKept DEF vars
  <2> QED
    BY <1>1, <2>1
       DEF vars, Inductive, TypeOK, CountsMatchOwners, MutexHeldByVisitor, At,
           OwnershipFollowsPlace, VisitMatchesEdge, SweepingOwnerIsAlone,
           HooksSeenBeforeAcquire, SteamMatchesGate, Blocking
<1>2. ASSUME NEW w \in Workers, WorkerStep(w) PROVE Inductive'
  BY <1>2, QuietStep, AcquireStep, ReleaseStep, VisitStep DEF WorkerStep
<1> QED
  BY <1>1, <1>2 DEF Next, AllDone

(* The invariant on which everything else rests holds in every run of the   *)
(* pipe workers.                                                            *)
THEOREM InductiveHolds == Safety => []Inductive
BY InitInductive, NextInductive, PTL DEF Safety

(* Every variable keeps its type; the counters never go below zero, however *)
(* many clients crash or send something that is not a release.              *)
THEOREM TypeCorrect == Safety => []TypeOK
<1>1. Inductive => TypeOK
  BY DEF Inductive
<1> QED
  BY <1>1, InductiveHolds, PTL

(* LEASE_COUNT and PASS_THROUGH_COUNT are exactly the numbers of workers    *)
(* that own a lease and a pass-through.                                     *)
THEOREM CountsAreOwners == Safety => []CountsMatchOwners
<1>1. Inductive => CountsMatchOwners
  BY DEF Inductive
<1> QED
  BY <1>1, InductiveHolds, PTL

(* Whenever no worker holds OWNERSHIP_TRANSITION, what was last done to     *)
(* Steam is what blocking() calls for.                                      *)
THEOREM SteamFollowsGate == Safety => []SteamMatchesGate
<1>1. Inductive => SteamMatchesGate
  BY DEF Inductive
<1> QED
  BY <1>1, InductiveHolds, PTL

(* No lease is counted and no sweep runs before ensure_hooks_installed has  *)
(* succeeded.                                                               *)
THEOREM DetoursComeFirst == Safety => []DetoursBeforeBlocking
<1>1. Inductive => DetoursBeforeBlocking
  BY DEF Inductive, DetoursBeforeBlocking, VisitMatchesEdge, Blocking
<1> QED
  BY <1>1, InductiveHolds, PTL

(* An owner at its response waits for nobody's sweep but that of a released *)
(* pass-through.                                                            *)
THEOREM OwnersAreAnsweredAfterSweep == Safety => []OwnersAnsweredAfterSweep
<1>1. Inductive => OwnersAnsweredAfterSweep
  <2> SUFFICES ASSUME Inductive, NEW w \in Workers, owns[w] = "lease",
                      pc[w] \in {"respond", "owned", "release"},
                      Blocking, steam = "free"
               PROVE  \E v \in Workers \ {w} : /\ v = transition
                                               /\ At(v, "revoke")
                                               /\ owns[v] = "none"
    BY DEF OwnersAnsweredAfterSweep
  <2> USE DEF Inductive
  <2>1. PICK v \in Workers : transition = v
    BY DEF SteamMatchesGate, TypeOK
  <2>2. pc[v] = "revoke"
    BY <2>1 DEF MutexHeldByVisitor, VisitMatchesEdge, At
  <2>3. owns[v] # "lease"
    <3>1. SUFFICES ASSUME owns[v] = "lease" PROVE FALSE
      OBVIOUS
    <3>2. Cardinality(LeaseOwners) = 1 /\ IsFiniteSet(LeaseOwners)
      BY <2>2, <3>1 DEF SweepingOwnerIsAlone, CountsMatchOwners, At
    <3>3. \E x : LeaseOwners = {x}
      BY <3>2, FS_Singleton
    <3>4. w \in LeaseOwners /\ v \in LeaseOwners /\ v # w
      BY <2>2, <3>1 DEF LeaseOwners
    <3> QED
      BY <3>3, <3>4
  <2>4. owns[v] # "pass"
    <3>1. SUFFICES ASSUME owns[v] = "pass" PROVE FALSE
      OBVIOUS
    <3>2. PassOwners # {}
      BY <3>1 DEF PassOwners
    <3> QED
      BY <3>2, CountersSeeOwners DEF Blocking
  <2> QED
    BY <2>1, <2>2, <2>3, <2>4 DEF TypeOK, At
<1> QED
  BY <1>1, InductiveHolds, PTL

(* No ownership changes while a worker sweeps Steam's handles or asks it to *)
(* rescan: those run under the mutex, and every change takes it.            *)
THEOREM VisitsAreUndisturbed == Safety => VisitsAreNotOvertaken
<1>1. [Next]_vars => [transition # NoWorker => UNCHANGED counters]_vars
  BY DEF Next, WorkerStep, AllDone, ReadRequest, EnsureHooks, AcquireLease,
         AcquirePassThrough, Revoke, Notify, Respond, ReadRelease, Release,
         RespondReleased, Disconnect, vars, counters
<1> QED
  BY <1>1, PTL DEF Safety, VisitsAreNotOvertaken

-----------------------------------------------------------------------------
(* The implementation of LeaseGate.                                         *)

(* The counters say of themselves what the sets of owners say.              *)
LEMMA BlockingIsBlocked == Inductive => (Gate!Blocked <=> Blocking)
BY CountersSeeOwners DEF Inductive, Gate!Blocked, Blocking, TypeOK

(* With the mutex free, Steam is settled.                                   *)
LEMMA FreeMutexIsSettled ==
    ASSUME Inductive, transition = NoWorker
    PROVE  Gate!Settled
BY BlockingIsBlocked DEF Gate!Settled, Inductive, SteamMatchesGate

LEMMA InitImplements == Init => Gate!Init
BY DEF Init, Gate!Init, LeaseOwners, PassOwners

LEMMA StepImplements ==
    ASSUME Inductive, Inductive', [Next]_vars
    PROVE  [Gate!Next]_(Gate!vars)
<1> USE DEF Inductive
<1>1. CASE UNCHANGED <<owns, steam>>
  BY <1>1, OwnersKept DEF Gate!vars
<1>2. ASSUME NEW w \in Workers,
             \/ ReadRequest(w) \/ EnsureHooks(w) \/ Respond(w)
             \/ ReadRelease(w) \/ RespondReleased(w) \/ Disconnect(w)
      PROVE  UNCHANGED <<owns, steam>>
  BY <1>2 DEF ReadRequest, EnsureHooks, Respond, ReadRelease, RespondReleased,
              Disconnect
<1>3. ASSUME NEW w \in Workers, AcquireLease(w) \/ AcquirePassThrough(w)
      PROVE  Gate!Acquire(w)
  <2>1. PICK kind \in {"lease", "pass"} : owns' = [owns EXCEPT ![w] = kind]
    BY <1>3 DEF AcquireLease, AcquirePassThrough
  <2>2. /\ LeaseOwners' = IF kind = "lease" THEN LeaseOwners \cup {w}
                          ELSE LeaseOwners \ {w}
        /\ PassOwners' = IF kind = "pass" THEN PassOwners \cup {w}
                         ELSE PassOwners \ {w}
    BY <2>1, OwnersChange
  <2>3. w \notin LeaseOwners /\ w \notin PassOwners
    BY <1>3 DEF AcquireLease, AcquirePassThrough, At, OwnershipFollowsPlace,
                LeaseOwners, PassOwners
  <2>4. Gate!Settled /\ UNCHANGED steam
    BY <1>3, FreeMutexIsSettled DEF AcquireLease, AcquirePassThrough
  <2> QED
    BY <2>2, <2>3, <2>4 DEF Gate!Acquire
<1>4. ASSUME NEW w \in Workers, Release(w)
      PROVE  Gate!Release(w)
  <2>1. LeaseOwners' = LeaseOwners \ {w} /\ PassOwners' = PassOwners \ {w}
    BY <1>4, OwnersChange DEF Release
  <2>2. \/ w \in LeaseOwners /\ w \notin PassOwners
        \/ w \in PassOwners /\ w \notin LeaseOwners
    BY <1>4 DEF Release, At, OwnershipFollowsPlace, TypeOK, LeaseOwners, PassOwners
  <2>3. Gate!Settled /\ UNCHANGED steam
    BY <1>4, FreeMutexIsSettled DEF Release
  <2> QED
    BY <2>1, <2>2, <2>3 DEF Gate!Release
<1>5. ASSUME NEW w \in Workers, Revoke(w) \/ Notify(w)
      PROVE  Gate!Visit
  <2>1. LeaseOwners' = LeaseOwners /\ PassOwners' = PassOwners
    BY <1>5, OwnersKept DEF Revoke, Notify
  <2>2. /\ Blocking <=> steam = "free"
        /\ Blocking <=> steam' # "free"
    BY <1>5 DEF Revoke, Notify, VisitMatchesEdge, At
  <2>3. Blocking \in BOOLEAN
    BY DEF Blocking
  <2> QED
    BY <2>1, <2>2, <2>3, BlockingIsBlocked DEF Gate!Visit, Gate!Settled
<1>6. CASE UNCHANGED vars
  BY <1>1, <1>6 DEF vars
<1> QED
  BY <1>1, <1>2, <1>3, <1>4, <1>5, <1>6
     DEF Next, AllDone, WorkerStep, Gate!Next

(* Counters, mutex and workers implement the promise of LeaseGate: nothing  *)
(* is acquired or released while a visit to Steam is owed, and every visit  *)
(* is the one the ownership calls for.                                      *)
THEOREM ImplementsLeaseGate == Safety => GateSafety
<1>1. Inductive /\ Inductive' /\ [Next]_vars => [Gate!Next]_(Gate!vars)
  BY StepImplements
<1> QED
  BY <1>1, InitImplements, InductiveHolds, PTL DEF Safety, GateSafety, Gate!Safety

-----------------------------------------------------------------------------
(* The gated calls of Steam's threads.                                       *)

(* Whatever the workers do, a call that has begun has seen the present value *)
(* of blocking, and an admitted one has seen it off.                         *)
LEMMA DetoursInductive ==
    DetourInductive /\ [DetourNext]_gateAndCalls => DetourInductive'
<1> SUFFICES ASSUME DetourInductive, [DetourNext]_gateAndCalls PROVE DetourInductive'
  OBVIOUS
<1> USE DEF DetourInductive
<1>0. Blocking \in BOOLEAN /\ Blocking' \in BOOLEAN
  BY DEF Blocking
<1>1. CASE UNCHANGED gateAndCalls
  BY <1>1 DEF gateAndCalls, vars, counters, detourVars, SeenUpToNow, AdmittedOnlyWhenOpen,
              InCall, Blocking
<1>2. CASE Ownership
  <2>1. seen' \in [Callers -> SUBSET BOOLEAN]
    BY <1>0, <1>2 DEF Ownership
  <2>2. SeenUpToNow'
    BY <1>2 DEF Ownership, SeenUpToNow, InCall
  <2>3. AdmittedOnlyWhenOpen'
    BY <1>2 DEF Ownership, AdmittedOnlyWhenOpen, InCall
  <2> QED
    BY <1>2, <2>1, <2>2, <2>3 DEF Ownership
<1>3. ASSUME NEW c \in Callers, Enter(c) PROVE DetourInductive'
  <2>1. Blocking' = Blocking
    BY <1>3 DEF Enter, vars, counters, Blocking
  <2>2. seen' \in [Callers -> SUBSET BOOLEAN]
    BY <1>0, <1>3 DEF Enter
  <2>3. SeenUpToNow'
    BY <1>3, <2>1 DEF Enter, SeenUpToNow, InCall
  <2>4. AdmittedOnlyWhenOpen'
    BY <1>3 DEF Enter, AdmittedOnlyWhenOpen
  <2> QED
    BY <1>3, <2>2, <2>3, <2>4 DEF Enter
<1>4. ASSUME NEW c \in Callers, ReadLeases(c) PROVE DetourInductive'
  <2>1. Blocking' = Blocking
    BY <1>4 DEF ReadLeases, vars, counters, Blocking
  <2>2. SeenUpToNow'
    BY <1>4, <2>1 DEF ReadLeases, SeenUpToNow, InCall
  <2>3. ~LeaseSeen => FALSE \in seen[c]
    BY <1>4 DEF ReadLeases, SeenUpToNow, InCall, LeaseSeen, Blocking
  <2>4. AdmittedOnlyWhenOpen'
    BY <1>4, <2>3 DEF ReadLeases, AdmittedOnlyWhenOpen
  <2> QED
    BY <1>4, <2>2, <2>4 DEF ReadLeases
<1>5. ASSUME NEW c \in Callers, ReadPasses(c) PROVE DetourInductive'
  <2>1. Blocking' = Blocking
    BY <1>5 DEF ReadPasses, vars, counters, Blocking
  <2>2. SeenUpToNow'
    BY <1>5, <2>1 DEF ReadPasses, SeenUpToNow, InCall
  <2>3. passCount # 0 => FALSE \in seen[c]
    BY <1>5 DEF ReadPasses, SeenUpToNow, InCall, Blocking
  <2>4. AdmittedOnlyWhenOpen'
    BY <1>5, <2>3 DEF ReadPasses, AdmittedOnlyWhenOpen
  <2> QED
    BY <1>5, <2>2, <2>4 DEF ReadPasses
<1>6. ASSUME NEW c \in Callers, Return(c) PROVE DetourInductive'
  <2>1. Blocking' = Blocking
    BY <1>6 DEF Return, vars, counters, Blocking
  <2>2. SeenUpToNow' /\ AdmittedOnlyWhenOpen'
    BY <1>6, <2>1 DEF Return, SeenUpToNow, AdmittedOnlyWhenOpen, InCall
  <2> QED
    BY <1>6, <2>2 DEF Return
<1> QED
  BY <1>1, <1>2, <1>3, <1>4, <1>5, <1>6 DEF DetourNext

(* A gated call reaches the real function only if blocking was off at some    *)
(* instant of that call.                                                      *)
THEOREM AdmissionsAreJustified == DetourSafety => []AdmittedOnlyWhenOpen
<1>1. DetourInit => DetourInductive
  BY DEF DetourInit, DetourInductive, SeenUpToNow, AdmittedOnlyWhenOpen, InCall
<1>2. DetourInductive => AdmittedOnlyWhenOpen
  BY DEF DetourInductive
<1> QED
  BY <1>1, <1>2, DetoursInductive, PTL DEF DetourSafety

(* The gated calls only look on: every theorem about the ownership of the      *)
(* payload holds beside them.                                                  *)
THEOREM DetoursObserveOwnership == DetourSafety => Safety
<1>1. DetourInit => Init
  BY DEF DetourInit
<1>2. [DetourNext]_gateAndCalls => [Next]_vars
  BY DEF DetourNext, Ownership, Enter, ReadLeases, ReadPasses, Return, gateAndCalls
<1> QED
  BY <1>1, <1>2, PTL DEF DetourSafety, Safety

(* Every variable has its type.                                                *)
THEOREM DetourTypeCorrect == DetourSafety => []DetourTypeOK
<1>1. DetourInit => DetourInductive
  BY DEF DetourInit, DetourInductive, SeenUpToNow, AdmittedOnlyWhenOpen, InCall
<1>2. Inductive /\ DetourInductive => DetourTypeOK
  BY DEF Inductive, DetourInductive, DetourTypeOK
<1> QED
  BY <1>1, <1>2, DetoursInductive, DetoursObserveOwnership, InductiveHolds,
     PTL DEF DetourSafety

-----------------------------------------------------------------------------
(* The rescan and its timer thread.                                          *)

RecoveryInductive ==
    /\ phase \in {"start", "schedule", "sleep", "return"}
    /\ timerStarted \in BOOLEAN
    /\ timer \in {"none", "check", "wait", "timedWait", "readLeases", "readPasses",
                  "request"}
    /\ deadline \in {"none", "pending", "due"}
    /\ asked \in BOOLEAN /\ owed \in BOOLEAN
    /\ DeadlineIsServed
    /\ PhaseIsTheVisitors

(* The steps that the rescan adds leave the counters and the workers alone,  *)
(* and its last one is the visit GateOwnership knows.                        *)
LEMMA RecoveryStepsAreOwnership == [RecoveryNext]_gateAndTimer => [Next]_vars
<1> SUFFICES ASSUME [RecoveryNext]_gateAndTimer PROVE [Next]_vars
  OBVIOUS
<1>1. CASE UNCHANGED gateAndTimer
  BY <1>1 DEF gateAndTimer
<1>2. ASSUME NEW w \in Workers, OtherWorkerStep(w) PROVE Next
  BY <1>2 DEF OtherWorkerStep, Next, WorkerStep
<1>3. ASSUME NEW w \in Workers, NotifyStep(w) PROVE [Next]_vars
  <2>1. CASE FinishNotify(w)
    BY <2>1 DEF FinishNotify, Next, WorkerStep
  <2> QED
    BY <1>3, <2>1 DEF NotifyStep, FirstRequest, StartTimer, TimerThreadRefused, ArmTimer,
                      SecondRequestOnWorker
<1>4. CASE TimerStep \/ DeadlinePasses \/ SteamNoticesRequest
  BY <1>4 DEF TimerStep, TimerCheck, TimedWaitEnds, TimerReadsLeases, TimerReadsPasses,
              TimerRequests, DeadlinePasses, SteamNoticesRequest
<1>5. CASE RecoveryDone
  BY <1>5 DEF RecoveryDone, AllDone
<1> QED
  BY <1>1, <1>2, <1>3, <1>4, <1>5 DEF RecoveryNext

(* The rescan only adds steps: every theorem about the ownership of the       *)
(* payload holds with it.                                                     *)
THEOREM RecoveryImplementsOwnership == RecoverySafety => Safety
<1>1. RecoveryInit => Init
  BY DEF RecoveryInit
<1> QED
  BY <1>1, RecoveryStepsAreOwnership, PTL DEF RecoverySafety, Safety

(* A worker that is not at its visit moves itself only, and a worker at its   *)
(* visit does nothing but the visit.                                         *)
LEMMA OthersLeaveVisitor ==
    ASSUME Inductive, NEW w \in Workers, OtherWorkerStep(w)
    PROVE  /\ UNCHANGED recoveryVars
           /\ ~At(w, "notify")
           /\ \A v \in Workers : At(v, "notify") => At(v, "notify")'
<1>1. /\ ~At(w, "notify")
      /\ \E place : Goto(w, place)
  BY DEF OtherWorkerStep, ReadRequest, EnsureHooks, AcquireLease, AcquirePassThrough, Revoke,
         Respond, ReadRelease, Release, RespondReleased, Disconnect, At, KeepMutex, GiveBack,
         VisitAfterDrop
<1>2. \A v \in Workers \ {w} : pc'[v] = pc[v]
  BY <1>1 DEF Goto, Inductive, TypeOK
<1> QED
  BY <1>1, <1>2 DEF At, OtherWorkerStep

(* The timer's deadline is stored with the thread that serves it in place,    *)
(* and only a worker at its visit is inside notify_controller_rescan.         *)
LEMMA RecoveryKeepsInductive ==
    ASSUME Inductive, RecoveryInductive, [RecoveryNext]_gateAndTimer
    PROVE  RecoveryInductive'
<1> USE DEF RecoveryInductive, DeadlineIsServed
<1>1. CASE UNCHANGED gateAndTimer
  BY <1>1 DEF gateAndTimer, vars, recoveryVars, PhaseIsTheVisitors, At
<1>2. ASSUME NEW w \in Workers, OtherWorkerStep(w) PROVE RecoveryInductive'
  BY <1>2, OthersLeaveVisitor DEF recoveryVars, PhaseIsTheVisitors
<1>3. ASSUME UNCHANGED vars, phase' # "start" => \E w \in Workers : At(w, "notify")
      PROVE  PhaseIsTheVisitors'
  BY <1>3 DEF PhaseIsTheVisitors, vars, At
<1>4. ASSUME NEW w \in Workers, NotifyStep(w) PROVE RecoveryInductive'
  <2>1. CASE FirstRequest(w)
    <3>1. PhaseIsTheVisitors'
      BY <1>3, <2>1 DEF FirstRequest
    <3>2. asked' \in BOOLEAN /\ owed' \in BOOLEAN
      BY <2>1 DEF FirstRequest, RequestDiscovery
    <3>3. phase' \in {"schedule", "return"} /\ UNCHANGED <<timerStarted, timer, deadline>>
      BY <2>1 DEF FirstRequest
    <3> QED
      BY <3>1, <3>2, <3>3
  <2>2. CASE StartTimer(w) \/ TimerThreadRefused(w) \/ ArmTimer(w)
    <3>1. PhaseIsTheVisitors'
      BY <1>3, <2>2 DEF StartTimer, TimerThreadRefused, ArmTimer
    <3>2. CASE StartTimer(w)
      BY <3>1, <3>2 DEF StartTimer
    <3>3. CASE TimerThreadRefused(w)
      BY <3>1, <3>3 DEF TimerThreadRefused
    <3>4. CASE ArmTimer(w)
      BY <3>1, <3>4 DEF ArmTimer, Arm
    <3> QED
      BY <2>2, <3>2, <3>3, <3>4
  <2>3. CASE SecondRequestOnWorker(w)
    <3>1. PhaseIsTheVisitors'
      BY <1>3, <2>3 DEF SecondRequestOnWorker
    <3>2. asked' \in BOOLEAN /\ owed' \in BOOLEAN
      BY <2>3 DEF SecondRequestOnWorker, RequestDiscovery
    <3> QED
      BY <2>3, <3>1, <3>2 DEF SecondRequestOnWorker
  <2>4. CASE FinishNotify(w)
    BY <2>4 DEF FinishNotify, PhaseIsTheVisitors
  <2> QED
    BY <1>4, <2>1, <2>2, <2>3, <2>4 DEF NotifyStep
<1>5. CASE TimerStep
  <2>1. UNCHANGED <<vars, phase>>
    BY <1>5 DEF TimerStep, TimerCheck, TimedWaitEnds, TimerReadsLeases, TimerReadsPasses,
                TimerRequests
  <2>2. PhaseIsTheVisitors'
    BY <1>3, <2>1 DEF PhaseIsTheVisitors
  <2>3. CASE TimerCheck
    BY <2>2, <2>3 DEF TimerCheck
  <2>4. CASE TimedWaitEnds \/ TimerReadsLeases \/ TimerReadsPasses
    BY <2>2, <2>4 DEF TimedWaitEnds, TimerReadsLeases, TimerReadsPasses
  <2>5. CASE TimerRequests
    <3>1. asked' \in BOOLEAN /\ owed' \in BOOLEAN
      BY <2>5 DEF TimerRequests, RequestDiscovery
    <3> QED
      BY <2>2, <2>5, <3>1 DEF TimerRequests
  <2> QED
    BY <1>5, <2>3, <2>4, <2>5 DEF TimerStep
<1>6. CASE DeadlinePasses \/ SteamNoticesRequest
  <2>1. PhaseIsTheVisitors'
    BY <1>3, <1>6 DEF DeadlinePasses, SteamNoticesRequest, PhaseIsTheVisitors
  <2>2. CASE DeadlinePasses
    BY <2>1, <2>2 DEF DeadlinePasses
  <2>3. CASE SteamNoticesRequest
    BY <2>1, <2>3 DEF SteamNoticesRequest
  <2> QED
    BY <1>6, <2>2, <2>3
<1>7. CASE RecoveryDone
  BY <1>3, <1>7 DEF RecoveryDone, AllDone, recoveryVars, PhaseIsTheVisitors
<1> QED
  BY <1>1, <1>2, <1>4, <1>5, <1>6, <1>7 DEF RecoveryNext

LEMMA RecoveryInductiveHolds == RecoverySafety => []RecoveryInductive
<1>1. RecoveryInit => RecoveryInductive
  BY DEF RecoveryInit, RecoveryInductive, DeadlineIsServed, PhaseIsTheVisitors
<1>2. Inductive /\ RecoveryInductive /\ [RecoveryNext]_gateAndTimer => RecoveryInductive'
  BY RecoveryKeepsInductive
<1> QED
  BY <1>1, <1>2, RecoveryImplementsOwnership, InductiveHolds, PTL DEF RecoverySafety

(* Every variable has its type.                                              *)
THEOREM RecoveryTypeCorrect == RecoverySafety => []RecoveryTypeOK
<1>1. Inductive /\ RecoveryInductive => RecoveryTypeOK
  BY DEF Inductive, RecoveryInductive, RecoveryTypeOK
<1> QED
  BY <1>1, RecoveryInductiveHolds, RecoveryImplementsOwnership, InductiveHolds, PTL

(* An armed deadline always has its thread, also when an earlier attempt to   *)
(* start that thread was refused (schedule_second_discovery).                 *)
THEOREM ArmedDeadlineIsServed == RecoverySafety => []DeadlineIsServed
<1>1. RecoveryInductive => DeadlineIsServed
  BY DEF RecoveryInductive
<1> QED
  BY <1>1, RecoveryInductiveHolds, PTL

-----------------------------------------------------------------------------
(* The second discovery, where no client overrides a lease.                   *)

(* A worker's step brings no pass-through into being.                         *)
LEMMA NobodyOverrides ==
    ASSUME "AcquirePassThrough" \notin Commands, Inductive, NoOverride, [Next]_vars
    PROVE  NoOverride'
<1>1. CASE UNCHANGED vars
  BY <1>1 DEF vars, NoOverride
<1>2. ASSUME NEW w \in Workers, WorkerStep(w) PROVE NoOverride'
  <2> USE DEF NoOverride, Inductive, TypeOK
  <2>1. CASE ReadRequest(w)
    BY <2>1 DEF ReadRequest, counters
  <2>2. CASE AcquireLease(w)
    BY <2>2 DEF AcquireLease
  <2>3. CASE AcquirePassThrough(w)
    BY <2>3 DEF AcquirePassThrough
  <2>4. CASE Release(w)
    BY <2>4 DEF Release, DropOwn
  <2>5. CASE EnsureHooks(w) \/ Revoke(w) \/ Notify(w) \/ Respond(w) \/ ReadRelease(w)
             \/ RespondReleased(w) \/ Disconnect(w)
    BY <2>5 DEF EnsureHooks, Revoke, Notify, Respond, ReadRelease, RespondReleased,
                Disconnect, counters
  <2> QED
    BY <1>2, <2>1, <2>2, <2>3, <2>4, <2>5 DEF WorkerStep
<1> QED
  BY <1>1, <1>2 DEF Next, AllDone

\* What takes the place of a deadline that is not armed: blocking is on, or its end
\* has brought a worker that will ask Steam afresh.
Excused == Blocking \/ \E w \in Workers : At(w, "notify") /\ phase # "return"

(* The excuse outlives every step but the last of the visit it names: the     *)
(* release that ends blocking is on its way to a visit of its own.            *)
LEMMA ExcuseOutlivesSteps ==
    ASSUME Inductive, RecoveryInductive, NoOverride, Excused,
           NEW w \in Workers, OtherWorkerStep(w)
    PROVE  Excused'
<1>1. CASE \E v \in Workers : At(v, "notify") /\ phase # "return"
  BY <1>1, OthersLeaveVisitor DEF Excused, recoveryVars
<1>2. CASE Blocking /\ ~Blocking'
  <2> USE DEF OtherWorkerStep
  <2>1. leaseCount > 0 /\ passCount = 0 /\ ~(leaseCount' > 0 /\ passCount' = 0)
    BY <1>2 DEF Blocking
  <2>2. CASE UNCHANGED counters
    BY <2>1, <2>2 DEF counters
  <2>3. CASE AcquireLease(w)
    BY <2>1, <2>3 DEF AcquireLease, Inductive, TypeOK
  <2>4. CASE AcquirePassThrough(w)
    BY <2>4 DEF AcquirePassThrough, NoOverride
  <2>5. CASE Release(w)
    <3>1. At(w, "notify")'
      BY <1>2, <2>5 DEF Release, VisitAfterDrop, KeepMutex, Goto, At, Inductive, TypeOK,
                        Blocking
    <3>2. \A v \in Workers : ~At(v, "notify")
      BY <2>5, NoWorkerAssumption DEF Release, Inductive, MutexHeldByVisitor, At
    <3>3. phase' = "start"
      BY <3>2 DEF RecoveryInductive, PhaseIsTheVisitors, recoveryVars
    <3> QED
      BY <3>1, <3>3 DEF Excused
  <2> QED
    BY <2>2, <2>3, <2>4, <2>5 DEF ReadRequest, EnsureHooks, Revoke, Respond, ReadRelease,
                                  RespondReleased, Disconnect
<1> QED
  BY <1>1, <1>2 DEF Excused

(* Every step keeps a second discovery that is owed from being lost.          *)
LEMMA OwedIsKept ==
    ASSUME Inductive, RecoveryInductive, NoOverride, TakenForBlocking,
           SecondDiscoveryNeverLost, [RecoveryNext]_gateAndTimer
    PROVE  TakenForBlocking' /\ SecondDiscoveryNeverLost'
<1> DEFINE Taken == timer \in {"readLeases", "readPasses", "request"}
<1>0. /\ timer = "readPasses" /\ owed => deadline # "none" \/ Excused
      /\ owed => deadline # "none" \/ Taken \/ Excused
  BY DEF TakenForBlocking, SecondDiscoveryNeverLost, Excused
<1>1. SUFFICES /\ timer' = "readPasses" /\ owed' => deadline' # "none" \/ Excused'
               /\ owed' => deadline' # "none" \/ Taken' \/ Excused'
  BY DEF TakenForBlocking, SecondDiscoveryNeverLost, Excused
<1>2. CASE UNCHANGED gateAndTimer
  <2>1. Excused' <=> Excused
    BY <1>2 DEF gateAndTimer, vars, recoveryVars, Excused, Blocking, At
  <2> QED
    BY <1>0, <1>2, <2>1 DEF gateAndTimer, recoveryVars
<1>3. ASSUME NEW w \in Workers, OtherWorkerStep(w)
      PROVE  /\ timer' = "readPasses" /\ owed' => deadline' # "none" \/ Excused'
             /\ owed' => deadline' # "none" \/ Taken' \/ Excused'
  <2>1. UNCHANGED recoveryVars
    BY <1>3 DEF OtherWorkerStep
  <2>2. Excused => Excused'
    BY <1>3, ExcuseOutlivesSteps
  <2> QED
    BY <1>0, <2>1, <2>2 DEF recoveryVars
<1>4. ASSUME UNCHANGED <<vars, phase>> PROVE Excused' <=> Excused
  BY <1>4 DEF vars, Excused, Blocking, At
<1>5. ASSUME NEW w \in Workers, NotifyStep(w)
      PROVE  /\ timer' = "readPasses" /\ owed' => deadline' # "none" \/ Excused'
             /\ owed' => deadline' # "none" \/ Taken' \/ Excused'
  <2>1. CASE FirstRequest(w)
    <3>1. Blocking' = Blocking /\ At(w, "notify")'
      BY <2>1 DEF FirstRequest, vars, Blocking, At
    <3>2. Blocking \/ ~owed' \/ phase' # "return"
      BY <2>1 DEF FirstRequest
    <3> QED
      BY <3>1, <3>2 DEF Excused
  <2>2. CASE StartTimer(w) \/ ArmTimer(w)
    BY <2>2 DEF StartTimer, ArmTimer, Arm
  <2>3. CASE TimerThreadRefused(w)
    BY <2>3 DEF TimerThreadRefused, Excused, At, vars
  <2>4. CASE SecondRequestOnWorker(w)
    BY <2>4 DEF SecondRequestOnWorker
  <2>5. CASE FinishNotify(w)
    <3>1. \A v \in Workers : ~(At(v, "notify") /\ phase # "return")
      BY <2>5 DEF FinishNotify
    <3>2. Excused => Excused'
      BY <2>5, <3>1 DEF FinishNotify, Notify, Excused, Blocking, counters
    <3> QED
      BY <1>0, <2>5, <3>2 DEF FinishNotify
  <2> QED
    BY <1>5, <2>1, <2>2, <2>3, <2>4, <2>5 DEF NotifyStep
<1>6. CASE TimerStep
  <2>1. Excused' <=> Excused
    BY <1>4, <1>6 DEF TimerStep, TimerCheck, TimedWaitEnds, TimerReadsLeases,
                      TimerReadsPasses, TimerRequests
  <2>2. CASE TimerCheck
    BY <1>0, <2>1, <2>2 DEF TimerCheck, RecoveryInductive
  <2>3. CASE TimedWaitEnds \/ TimerRequests
    BY <1>0, <2>1, <2>3 DEF TimedWaitEnds, TimerRequests
  <2>4. CASE TimerReadsLeases
    <3>1. leaseCount > 0 => Excused
      BY DEF Excused, Blocking, NoOverride
    <3> QED
      BY <1>0, <2>1, <2>4, <3>1 DEF TimerReadsLeases
  <2>5. CASE TimerReadsPasses
    BY <1>0, <2>1, <2>5 DEF TimerReadsPasses
  <2> QED
    BY <1>6, <2>2, <2>3, <2>4, <2>5 DEF TimerStep
<1>7. CASE DeadlinePasses \/ SteamNoticesRequest \/ RecoveryDone
  <2>1. Excused' <=> Excused
    BY <1>4, <1>7 DEF DeadlinePasses, SteamNoticesRequest, RecoveryDone, AllDone, recoveryVars
  <2> QED
    BY <1>0, <1>7, <2>1 DEF DeadlinePasses, SteamNoticesRequest, RecoveryDone, recoveryVars
<1> QED
  BY <1>2, <1>3, <1>5, <1>6, <1>7 DEF RecoveryNext

(* As long as no client overrides a lease, a second discovery that a release   *)
(* owes is never lost, although the timer thread reads the two counters        *)
(* without the mutex (rescan_timer_loop).  MCSecondDiscoveryLost shows that     *)
(* the hypothesis is needed.                                                   *)
THEOREM SecondDiscoveryIsKept ==
    ASSUME "AcquirePassThrough" \notin Commands
    PROVE  RecoverySafety => []SecondDiscoveryNeverLost
<1>1. RecoveryInit => NoOverride /\ TakenForBlocking /\ SecondDiscoveryNeverLost
  BY DEF RecoveryInit, Init, NoOverride, TakenForBlocking, SecondDiscoveryNeverLost
<1>2. Inductive /\ NoOverride /\ [RecoveryNext]_gateAndTimer => NoOverride'
  BY NobodyOverrides, RecoveryStepsAreOwnership
<1>3. /\ Inductive /\ RecoveryInductive /\ NoOverride
      /\ TakenForBlocking /\ SecondDiscoveryNeverLost /\ [RecoveryNext]_gateAndTimer
      => TakenForBlocking' /\ SecondDiscoveryNeverLost'
  BY OwedIsKept
<1> QED
  BY <1>1, <1>2, <1>3, RecoveryInductiveHolds, RecoveryImplementsOwnership, InductiveHolds,
     PTL DEF RecoverySafety

-----------------------------------------------------------------------------
(* The clients and the payload together.                                     *)

Kind(c) == IF IsLease(c) THEN "lease" ELSE "pass"

\* What a worker has done for its own client's request.
WorkerServesRole ==
    \A c \in Workers :
        /\ owns[c] \in {"none", Kind(c)}
        /\ owns[c] # "none" => result[c] = "Ok"
        /\ pc[c] \in {"hooks", "acquire"} => request[c] = Role[c]
        /\ pc[c] = "respond" /\ result[c] = "Ok" => owns[c] # "none"

Over == {"disconnect", "done"}

\* What a client may conclude about its worker from where it is itself.
ClientKnowsWorker ==
    \A c \in Workers :
        /\ open[c] <=> host[c] \in {"connected", "asking", "holding", "releasing"}
        /\ host[c] = "connected" => wire[c] = "none" /\ answer[c] = "none" /\ pc[c] = "read"
        /\ host[c] = "asking" =>
              /\ wire[c] = "request"
              /\ pc[c] \notin {"release", "released"}
              /\ pc[c] \in {"revoke", "notify"} => owns[c] # "none"
              /\ pc[c] \notin {"owned"} \cup Over => answer[c] = "none"
              /\ answer[c] = "granted" => pc[c] = "owned"
              /\ answer[c] = "refused" => pc[c] \in Over
              /\ answer[c] \notin ReleaseAnswers
        /\ host[c] = "holding" =>
              wire[c] = "request" /\ pc[c] = "owned" /\ answer[c] = "none"
        /\ host[c] = "releasing" =>
              /\ wire[c] = "release"
              /\ pc[c] \in {"owned", "release", "revoke", "notify", "released"} \cup Over
              /\ pc[c] \in {"revoke", "notify"} => owns[c] = "none"
              /\ answer[c] # "none" => pc[c] \in Over
        /\ host[c] \in {"firstPass", "secondPass"} \/ outcome[c] # "none" => pc[c] \in Over
        /\ host[c] = "ended" /\ IsLease(c) => abrupt \/ pc[c] \in Over

\* A rescan ends a blocking spell: that of the lease just released, or that of the
\* leases a new pass-through overrides.
NotifierUnblocked ==
    \A w \in Workers : At(w, "notify") =>
        IF owns[w] = "none" THEN IsLease(w) ELSE leaseCount > 0

\* The last client to let go is the one that remembers: an answer that tells of other
\* leases was filled in while there were some.
SomebodyRemembers ==
    TargetIsSteam /\ unasked =>
        \/ leaseCount > 0
        \/ \E c \in Workers : IsLease(c)
             /\ \/ host[c] = "firstPass"
                \/ host[c] = "releasing" /\ answer[c] # "othersLeft"
        \/ abrupt

Belief ==
    HostTypeOK /\ WorkerServesRole /\ ClientKnowsWorker /\ NotifierUnblocked /\ SomebodyRemembers

\* With what the mutex and the counters guarantee by themselves.
HostInductive == Inductive /\ Belief

-----------------------------------------------------------------------------

(* Whatever the clients do, the payload's workers do what GateOwnership says. *)
LEMMA HostStepImplements == [HostNext]_allVars => [Next]_vars
BY DEF HostNext, PayloadStep, PayloadReads, PayloadOwns, PayloadRevokes, PayloadNotifies,
       PayloadAnswers, PayloadReadsRelease, PayloadConfirms, PayloadDisconnects,
       ClientStep, Ask, TakeAnswer, AskRelease, TakeReleased, RescanPass, Drop, ExchangeFails,
       Crash, Close, HostDone, allVars, hostVars, Next, WorkerStep

(* The composition is an implementation of the payload's ownership.           *)
THEOREM HostImplementsOwnership == HostSpec => Safety
<1>1. HostInit => Init
  BY DEF HostInit
<1> QED
  BY <1>1, HostStepImplements, PTL DEF HostSpec, Safety

(* So the invariant of the payload's ownership holds of it.                   *)
LEMMA OwnershipHolds == HostSpec => []Inductive
BY HostImplementsOwnership, InductiveHolds, PTL

(* A positive count is somebody's.                                            *)
LEMMA OwnerIsCounted ==
    ASSUME Inductive, NEW w \in Workers
    PROVE  /\ owns[w] = "lease" => leaseCount > 0
           /\ owns[w] = "pass" => passCount > 0
BY CountersSeeOwners DEF Inductive, LeaseOwners, PassOwners

(* A connection's first read, the hooks and the first response.                *)
LEMMA ServingKeepsBelief ==
    ASSUME HostInductive, Inductive', NEW w \in Workers,
           \/ PayloadReads(w) \/ (EnsureHooks(w) /\ UNCHANGED hostVars)
           \/ PayloadAnswers(w) \/ PayloadReadsRelease(w)
           \/ PayloadConfirms(w) \/ PayloadDisconnects(w)
    PROVE  Belief'
<1> USE DEF HostInductive, Belief, HostTypeOK, WorkerServesRole, ClientKnowsWorker,
            NotifierUnblocked, SomebodyRemembers, Kind, Over, IsLease, ReleaseAnswers,
            hostVars, At
<1> USE RoleAssumption
<1>0. TypeOK /\ TypeOK' /\ OwnershipFollowsPlace /\ MutexHeldByVisitor
  BY DEF Inductive
<1>1. CASE PayloadReads(w)
  <2>1. HostTypeOK'
    BY <1>1, <1>0 DEF PayloadReads, ReadRequest, counters, TypeOK, Locations, Goto,
           OwnershipFollowsPlace
  <2>2. WorkerServesRole'
    BY <1>1, <1>0 DEF PayloadReads, ReadRequest, counters, TypeOK, Locations, Goto,
           OwnershipFollowsPlace
  <2>3. ClientKnowsWorker'
    BY <1>1, <1>0 DEF PayloadReads, ReadRequest, counters, TypeOK, Locations, Goto,
           OwnershipFollowsPlace
  <2>4. NotifierUnblocked'
    BY <1>1, <1>0 DEF PayloadReads, ReadRequest, counters, TypeOK, Locations, Goto,
           OwnershipFollowsPlace
  <2>5. SomebodyRemembers'
    BY <1>1, <1>0 DEF PayloadReads, ReadRequest, counters, TypeOK, Locations, Goto,
           OwnershipFollowsPlace
  <2> QED
    BY <2>1, <2>2, <2>3, <2>4, <2>5
<1>2. CASE EnsureHooks(w) /\ UNCHANGED hostVars
  <2>1. HostTypeOK'
    BY <1>2, <1>0 DEF EnsureHooks, counters, TypeOK, Locations, Goto
  <2>2. WorkerServesRole'
    <3>1. UNCHANGED <<owns, request>> /\ owns[w] = "none"
      BY <1>2, <1>0 DEF EnsureHooks, OwnershipFollowsPlace
    <3>2. \/ pc' = [pc EXCEPT ![w] = "acquire"] /\ UNCHANGED result
          \/ /\ pc' = [pc EXCEPT ![w] = "respond"]
             /\ result' = [result EXCEPT ![w] = "HookInstallFailed"]
      BY <1>2 DEF EnsureHooks, Goto
    <3> QED
      BY <1>2, <1>0, <3>1, <3>2 DEF EnsureHooks, TypeOK
  <2>3. ClientKnowsWorker'
    BY <1>2, <1>0 DEF EnsureHooks, counters, TypeOK, Locations, Goto
  <2>4. NotifierUnblocked'
    BY <1>2, <1>0 DEF EnsureHooks, counters, TypeOK, Locations, Goto
  <2>5. SomebodyRemembers'
    BY <1>2, <1>0 DEF EnsureHooks, counters, TypeOK, Locations, Goto
  <2> QED
    BY <2>1, <2>2, <2>3, <2>4, <2>5
<1>3. CASE PayloadAnswers(w)
  <2>1. HostTypeOK'
    BY <1>3, <1>0 DEF PayloadAnswers, Respond, Deliver, counters, TypeOK, Locations, Goto,
           OwnershipFollowsPlace
  <2>2. WorkerServesRole'
    BY <1>3, <1>0 DEF PayloadAnswers, Respond, Deliver, counters, TypeOK, Locations, Goto,
           OwnershipFollowsPlace
  <2>3. ClientKnowsWorker'
    BY <1>3, <1>0 DEF PayloadAnswers, Respond, Deliver, counters, TypeOK, Locations, Goto,
           OwnershipFollowsPlace
  <2>4. NotifierUnblocked'
    BY <1>3, <1>0 DEF PayloadAnswers, Respond, Deliver, counters, TypeOK, Locations, Goto,
           OwnershipFollowsPlace
  <2>5. SomebodyRemembers'
    BY <1>3, <1>0 DEF PayloadAnswers, Respond, Deliver, counters, TypeOK, Locations, Goto,
           OwnershipFollowsPlace
  <2> QED
    BY <2>1, <2>2, <2>3, <2>4, <2>5
<1>4. CASE PayloadReadsRelease(w)
  <2>1. HostTypeOK'
    BY <1>4, <1>0 DEF PayloadReadsRelease, ReadRelease, counters, TypeOK, Locations, Goto,
           OwnershipFollowsPlace
  <2>2. WorkerServesRole'
    BY <1>4, <1>0 DEF PayloadReadsRelease, ReadRelease, counters, TypeOK, Locations, Goto,
           OwnershipFollowsPlace
  <2>3. ClientKnowsWorker'
    BY <1>4, <1>0 DEF PayloadReadsRelease, ReadRelease, counters, TypeOK, Locations, Goto,
           OwnershipFollowsPlace
  <2>4. NotifierUnblocked'
    BY <1>4, <1>0 DEF PayloadReadsRelease, ReadRelease, counters, TypeOK, Locations, Goto,
           OwnershipFollowsPlace
  <2>5. SomebodyRemembers'
    BY <1>4, <1>0 DEF PayloadReadsRelease, ReadRelease, counters, TypeOK, Locations, Goto,
           OwnershipFollowsPlace
  <2> QED
    BY <2>1, <2>2, <2>3, <2>4, <2>5
<1>5. CASE PayloadConfirms(w)
  <2>1. HostTypeOK'
    BY <1>5, <1>0 DEF PayloadConfirms, RespondReleased, Deliver, AnswersToRelease,
           ReleaseAnswerFor, counters, TypeOK, Locations, Goto, OwnershipFollowsPlace
  <2>2. WorkerServesRole'
    BY <1>5, <1>0 DEF PayloadConfirms, RespondReleased, Deliver, AnswersToRelease,
           ReleaseAnswerFor, counters, TypeOK, Locations, Goto, OwnershipFollowsPlace
  <2>3. ClientKnowsWorker'
    BY <1>5, <1>0 DEF PayloadConfirms, RespondReleased, Deliver, AnswersToRelease,
           ReleaseAnswerFor, counters, TypeOK, Locations, Goto, OwnershipFollowsPlace
  <2>4. NotifierUnblocked'
    BY <1>5, <1>0 DEF PayloadConfirms, RespondReleased, Deliver, AnswersToRelease,
           ReleaseAnswerFor, counters, TypeOK, Locations, Goto, OwnershipFollowsPlace
  <2>5. SomebodyRemembers'
    BY <1>5, <1>0 DEF PayloadConfirms, RespondReleased, Deliver, AnswersToRelease,
           ReleaseAnswerFor, counters, TypeOK, Locations, Goto, OwnershipFollowsPlace
  <2> QED
    BY <2>1, <2>2, <2>3, <2>4, <2>5
<1>6. CASE PayloadDisconnects(w)
  <2>1. HostTypeOK'
    BY <1>6, <1>0 DEF PayloadDisconnects, Disconnect, counters, TypeOK, Locations, Goto,
           OwnershipFollowsPlace
  <2>2. WorkerServesRole'
    BY <1>6, <1>0 DEF PayloadDisconnects, Disconnect, counters, TypeOK, Locations, Goto,
           OwnershipFollowsPlace
  <2>3. ClientKnowsWorker'
    BY <1>6, <1>0 DEF PayloadDisconnects, Disconnect, counters, TypeOK, Locations, Goto,
           OwnershipFollowsPlace
  <2>4. NotifierUnblocked'
    BY <1>6, <1>0 DEF PayloadDisconnects, Disconnect, counters, TypeOK, Locations, Goto,
           OwnershipFollowsPlace
  <2>5. SomebodyRemembers'
    BY <1>6, <1>0 DEF PayloadDisconnects, Disconnect, counters, TypeOK, Locations, Goto,
           OwnershipFollowsPlace
  <2> QED
    BY <2>1, <2>2, <2>3, <2>4, <2>5
<1> QED
  BY <1>1, <1>2, <1>3, <1>4, <1>5, <1>6

(* The changes of ownership, and the visits to Steam.                          *)
LEMMA OwningKeepsBelief ==
    ASSUME HostInductive, Inductive', NEW w \in Workers,
           \/ (AcquireLease(w) \/ AcquirePassThrough(w) \/ Release(w)) /\ UNCHANGED hostVars
           \/ PayloadRevokes(w) \/ PayloadNotifies(w)
    PROVE  Belief'
<1> USE DEF HostInductive, Belief, HostTypeOK, WorkerServesRole, ClientKnowsWorker,
            NotifierUnblocked, SomebodyRemembers, Kind, Over, IsLease, ReleaseAnswers,
            hostVars, At
<1> USE RoleAssumption
<1>0. TypeOK /\ TypeOK' /\ OwnershipFollowsPlace /\ MutexHeldByVisitor
  BY DEF Inductive
<1>1. CASE AcquireLease(w) /\ UNCHANGED hostVars
  <2>1. HostTypeOK'
    BY <1>1, <1>0 DEF AcquireLease, FirstBlockingLease, Blocking, KeepMutex, GiveBack,
           counters, TypeOK, Locations, Goto, OwnershipFollowsPlace
  <2>2. WorkerServesRole'
    BY <1>1, <1>0 DEF AcquireLease, FirstBlockingLease, Blocking, KeepMutex, GiveBack,
           counters, TypeOK, Locations, Goto, OwnershipFollowsPlace
  <2>3. ClientKnowsWorker'
    BY <1>1, <1>0 DEF AcquireLease, FirstBlockingLease, Blocking, KeepMutex, GiveBack,
           counters, TypeOK, Locations, Goto, OwnershipFollowsPlace
  <2>4. NotifierUnblocked'
    BY <1>1, <1>0 DEF AcquireLease, FirstBlockingLease, Blocking, KeepMutex, GiveBack,
           counters, TypeOK, Locations, Goto, OwnershipFollowsPlace
  <2>5. SomebodyRemembers'
    BY <1>1, <1>0 DEF AcquireLease, FirstBlockingLease, Blocking, KeepMutex, GiveBack,
           counters, TypeOK, Locations, Goto, OwnershipFollowsPlace
  <2> QED
    BY <2>1, <2>2, <2>3, <2>4, <2>5
<1>2. CASE AcquirePassThrough(w) /\ UNCHANGED hostVars
  <2>1. HostTypeOK'
    BY <1>2, <1>0 DEF AcquirePassThrough, Blocking, KeepMutex, GiveBack, counters, TypeOK,
           Locations, Goto, OwnershipFollowsPlace
  <2>2. WorkerServesRole'
    BY <1>2, <1>0 DEF AcquirePassThrough, Blocking, KeepMutex, GiveBack, counters, TypeOK,
           Locations, Goto, OwnershipFollowsPlace
  <2>3. ClientKnowsWorker'
    BY <1>2, <1>0 DEF AcquirePassThrough, Blocking, KeepMutex, GiveBack, counters, TypeOK,
           Locations, Goto, OwnershipFollowsPlace
  <2>4. NotifierUnblocked'
    BY <1>2, <1>0 DEF AcquirePassThrough, Blocking, KeepMutex, GiveBack, counters, TypeOK,
           Locations, Goto, OwnershipFollowsPlace
  <2>5. SomebodyRemembers'
    BY <1>2, <1>0 DEF AcquirePassThrough, Blocking, KeepMutex, GiveBack, counters, TypeOK,
           Locations, Goto, OwnershipFollowsPlace
  <2> QED
    BY <2>1, <2>2, <2>3, <2>4, <2>5
<1>3. CASE Release(w) /\ UNCHANGED hostVars
  <2>1. HostTypeOK'
    BY <1>3, <1>0, OwnerIsCounted DEF Release, DropOwn, VisitAfterDrop, Blocking,
           KeepMutex, GiveBack, counters, MutexHeldByVisitor, TypeOK, Locations, Goto,
           OwnershipFollowsPlace
  <2>2. WorkerServesRole'
    BY <1>3, <1>0, OwnerIsCounted DEF Release, DropOwn, VisitAfterDrop, Blocking,
           KeepMutex, GiveBack, counters, MutexHeldByVisitor, TypeOK, Locations, Goto,
           OwnershipFollowsPlace
  <2>3. ClientKnowsWorker'
    BY <1>3, <1>0, OwnerIsCounted DEF Release, DropOwn, VisitAfterDrop, Blocking,
           KeepMutex, GiveBack, counters, MutexHeldByVisitor, TypeOK, Locations, Goto,
           OwnershipFollowsPlace
  <2>4. NotifierUnblocked'
    <3>1. transition = NoWorker /\ owns' = [owns EXCEPT ![w] = "none"] /\ owns[w] # "none"
      BY <1>3, <1>0 DEF Release, OwnershipFollowsPlace
    <3>2. \A v \in Workers : ~At(v, "notify")
      BY <3>1, <1>0, NoWorkerAssumption DEF MutexHeldByVisitor
    <3>3. ASSUME At(w, "notify")' PROVE Blocking /\ ~Blocking'
      BY <1>3, <1>0, <3>3 DEF Release, VisitAfterDrop, KeepMutex, GiveBack, Goto, TypeOK
    <3>4. ASSUME At(w, "notify")' PROVE IsLease(w)
      <4>1. SUFFICES ASSUME owns[w] = "pass" PROVE FALSE
        BY <3>1, <1>0
      <4> QED
        BY <4>1, <3>3, <3>4, OwnerIsCounted DEF Blocking
    <3>5. \A v \in Workers \ {w} : pc'[v] = pc[v]
      BY <1>3, <1>0 DEF Release, VisitAfterDrop, KeepMutex, GiveBack, Goto, TypeOK
    <3>6. owns'[w] = "none"
      BY <3>1, <1>0 DEF TypeOK
    <3> QED
      BY <3>2, <3>4, <3>5, <3>6
  <2>5. SomebodyRemembers'
    BY <1>3, <1>0, OwnerIsCounted DEF Release, DropOwn, VisitAfterDrop, Blocking,
           KeepMutex, GiveBack, counters, MutexHeldByVisitor, TypeOK, Locations, Goto,
           OwnershipFollowsPlace
  <2> QED
    BY <2>1, <2>2, <2>3, <2>4, <2>5
<1>4. CASE PayloadRevokes(w)
  <2>1. HostTypeOK'
    BY <1>4, <1>0 DEF PayloadRevokes, Revoke, AfterVisit, counters, TypeOK, Locations,
           Goto, OwnershipFollowsPlace
  <2>2. WorkerServesRole'
    BY <1>4, <1>0 DEF PayloadRevokes, Revoke, AfterVisit, counters, TypeOK, Locations,
           Goto, OwnershipFollowsPlace
  <2>3. ClientKnowsWorker'
    BY <1>4, <1>0 DEF PayloadRevokes, Revoke, AfterVisit, counters, TypeOK, Locations,
           Goto, OwnershipFollowsPlace
  <2>4. NotifierUnblocked'
    BY <1>4, <1>0 DEF PayloadRevokes, Revoke, AfterVisit, counters, TypeOK, Locations,
           Goto, OwnershipFollowsPlace
  <2>5. SomebodyRemembers'
    BY <1>4, <1>0 DEF PayloadRevokes, Revoke, AfterVisit, counters, TypeOK, Locations,
           Goto, OwnershipFollowsPlace
  <2> QED
    BY <2>1, <2>2, <2>3, <2>4, <2>5
<1>5. CASE PayloadNotifies(w)
  <2>1. HostTypeOK'
    BY <1>5, <1>0 DEF PayloadNotifies, Notify, AfterVisit, counters, TypeOK, Locations,
           Goto, OwnershipFollowsPlace
  <2>2. WorkerServesRole'
    BY <1>5, <1>0 DEF PayloadNotifies, Notify, AfterVisit, counters, TypeOK, Locations,
           Goto, OwnershipFollowsPlace
  <2>3. ClientKnowsWorker'
    BY <1>5, <1>0 DEF PayloadNotifies, Notify, AfterVisit, counters, TypeOK, Locations,
           Goto, OwnershipFollowsPlace
  <2>4. NotifierUnblocked'
    BY <1>5, <1>0 DEF PayloadNotifies, Notify, AfterVisit, counters, TypeOK, Locations,
           Goto, OwnershipFollowsPlace
  <2>5. SomebodyRemembers'
    BY <1>5, <1>0 DEF PayloadNotifies, Notify, AfterVisit, counters, TypeOK, Locations,
           Goto, OwnershipFollowsPlace
  <2> QED
    BY <2>1, <2>2, <2>3, <2>4, <2>5
<1> QED
  BY <1>1, <1>2, <1>3, <1>4, <1>5

(* What a client takes of an answer has its type.                             *)
LEMMA TakeAnswerKeepsType ==
    ASSUME HostInductive, Inductive', NEW w \in Workers, TakeAnswer(w)
    PROVE  HostTypeOK'
<1>1. HostTypeOK /\ TypeOK'
  BY DEF HostInductive, Belief, Inductive
<1>2. UNCHANGED <<wire, outcome, unasked, abrupt>>
  BY DEF TakeAnswer
<1>3. host' = [host EXCEPT ![w] = "holding"] \/ host' = [host EXCEPT ![w] = "ended"]
  BY DEF TakeAnswer, Move
<1>4. UNCHANGED open \/ open' = [open EXCEPT ![w] = FALSE]
  BY DEF TakeAnswer
<1>5. answer' = [answer EXCEPT ![w] = "none"]
  BY DEF TakeAnswer
<1>6. host' \in [Workers -> {"connected", "asking", "holding", "releasing",
                             "firstPass", "secondPass", "ended"}]
  BY <1>1, <1>3 DEF HostTypeOK
<1>7. open' \in [Workers -> BOOLEAN]
  BY <1>1, <1>4 DEF HostTypeOK
<1>8. answer' \in [Workers -> {"none", "granted", "refused"} \cup ReleaseAnswers]
  BY <1>1, <1>5 DEF HostTypeOK
<1> QED
  BY <1>1, <1>2, <1>6, <1>7, <1>8 DEF HostTypeOK

(* The client.                                                                *)
LEMMA ClientKeepsBelief ==
    ASSUME HostInductive, Inductive', NEW w \in Workers,
           \/ Ask(w) \/ TakeAnswer(w) \/ AskRelease(w) \/ TakeReleased(w)
           \/ RescanPass(w) \/ Drop(w) \/ ExchangeFails(w) \/ Crash(w)
    PROVE  Belief'
<1> USE DEF HostInductive, Belief, HostTypeOK, WorkerServesRole, ClientKnowsWorker,
            NotifierUnblocked, SomebodyRemembers, Kind, Over, IsLease, ReleaseAnswers,
            hostVars, At
<1> USE RoleAssumption
<1>0. TypeOK /\ TypeOK' /\ OwnershipFollowsPlace /\ MutexHeldByVisitor
  BY DEF Inductive
<1>1. CASE Ask(w)
  <2>1. HostTypeOK'
    BY <1>1, <1>0 DEF Ask, Move, Report, vars, counters
  <2>2. WorkerServesRole'
    BY <1>1, <1>0 DEF Ask, Move, Report, vars, counters
  <2>3. ClientKnowsWorker'
    BY <1>1, <1>0 DEF Ask, Move, Report, vars, counters
  <2>4. NotifierUnblocked'
    BY <1>1, <1>0 DEF Ask, Move, Report, vars, counters
  <2>5. SomebodyRemembers'
    BY <1>1, <1>0 DEF Ask, Move, Report, vars, counters
  <2> QED
    BY <2>1, <2>2, <2>3, <2>4, <2>5
<1>2. CASE TakeAnswer(w)
  <2>1. HostTypeOK'
    BY <1>2, TakeAnswerKeepsType
  <2>2. WorkerServesRole'
    BY <1>2, <1>0 DEF TakeAnswer, Move, Report, vars, counters, OwnershipFollowsPlace
  <2>3. ClientKnowsWorker'
    <3>1. UNCHANGED <<pc, owns, wire, outcome, abrupt>>
      BY <1>2 DEF TakeAnswer, vars
    <3>2. ASSUME NEW c \in Workers, c # w
          PROVE  UNCHANGED <<host[c], open[c], answer[c]>>
      BY <1>2, <3>2 DEF TakeAnswer, Move
    <3>3. /\ host[w] = "asking" /\ answer'[w] = "none"
          /\ \/ answer[w] = "granted" /\ host'[w] = "holding" /\ open'[w] = open[w]
             \/ answer[w] # "granted" /\ host'[w] = "ended" /\ open'[w] = FALSE
      BY <1>2 DEF TakeAnswer, Move
    <3>4. answer[w] # "granted" => pc[w] \in Over
      BY <1>2 DEF TakeAnswer
    <3> QED
      BY <3>1, <3>2, <3>3, <3>4
  <2>4. NotifierUnblocked'
    BY <1>2, <1>0 DEF TakeAnswer, Move, Report, vars, counters, OwnershipFollowsPlace
  <2>5. SomebodyRemembers'
    BY <1>2, <1>0 DEF TakeAnswer, Move, Report, vars, counters, OwnershipFollowsPlace
  <2> QED
    BY <2>1, <2>2, <2>3, <2>4, <2>5
<1>3. CASE AskRelease(w)
  <2>1. HostTypeOK'
    BY <1>3, <1>0 DEF AskRelease, Move, Report, vars, counters
  <2>2. WorkerServesRole'
    BY <1>3, <1>0 DEF AskRelease, Move, Report, vars, counters
  <2>3. ClientKnowsWorker'
    BY <1>3, <1>0 DEF AskRelease, Move, Report, vars, counters
  <2>4. NotifierUnblocked'
    BY <1>3, <1>0 DEF AskRelease, Move, Report, vars, counters
  <2>5. SomebodyRemembers'
    BY <1>3, <1>0 DEF AskRelease, Move, Report, vars, counters
  <2> QED
    BY <2>1, <2>2, <2>3, <2>4, <2>5
<1>4. CASE TakeReleased(w)
  <2>1. HostTypeOK'
    <3>1. open' \in [Workers -> BOOLEAN] /\ unasked' \in BOOLEAN
      BY <1>4 DEF TakeReleased, Move
    <3>2. abrupt' \in BOOLEAN
      BY <1>4 DEF TakeReleased
    <3> QED
      BY <1>4, <1>0, <3>1, <3>2 DEF TakeReleased, Move, Report
  <2>2. WorkerServesRole'
    BY <1>4, <1>0 DEF TakeReleased, Move, Report, vars, counters, OwnershipFollowsPlace
  <2>3. ClientKnowsWorker'
    BY <1>4, <1>0 DEF TakeReleased, Move, Report, vars, counters, OwnershipFollowsPlace
  <2>4. NotifierUnblocked'
    BY <1>4, <1>0 DEF TakeReleased, Move, Report, vars, counters, OwnershipFollowsPlace
  <2>5. SomebodyRemembers'
    <3>1. UNCHANGED <<leaseCount, abrupt>>
      BY <1>4 DEF TakeReleased, vars
    <3>2. ASSUME NEW c \in Workers, c # w
          PROVE  UNCHANGED <<host[c], answer[c]>>
      BY <1>4, <3>2 DEF TakeReleased, Move
    <3>3. /\ unasked' => unasked
          /\ TargetIsSteam /\ unasked' /\ IsLease(w) /\ answer[w] # "othersLeft"
                => host'[w] = "firstPass"
      BY <1>4, TargetAssumption DEF TakeReleased, Move
    <3>4. host[w] = "releasing"
      BY <1>4 DEF TakeReleased
    <3> QED
      BY <3>1, <3>2, <3>3, <3>4
  <2> QED
    BY <2>1, <2>2, <2>3, <2>4, <2>5
<1>5. CASE RescanPass(w)
  <2>1. HostTypeOK'
    <3>1. open' \in [Workers -> BOOLEAN] /\ unasked' \in BOOLEAN
      BY <1>5 DEF RescanPass, Move
    <3>2. abrupt' \in BOOLEAN
      BY <1>5 DEF RescanPass
    <3> QED
      BY <1>5, <1>0, <3>1, <3>2 DEF RescanPass, Move, Report
  <2>2. WorkerServesRole'
    BY <1>5, <1>0 DEF RescanPass, Move, Report, vars, counters
  <2>3. ClientKnowsWorker'
    BY <1>5, <1>0 DEF RescanPass, Move, Report, vars, counters
  <2>4. NotifierUnblocked'
    BY <1>5, <1>0 DEF RescanPass, Move, Report, vars, counters
  <2>5. SomebodyRemembers'
    BY <1>5, <1>0 DEF RescanPass, Move, Report, vars, counters
  <2> QED
    BY <2>1, <2>2, <2>3, <2>4, <2>5
<1>6. CASE Drop(w) \/ ExchangeFails(w) \/ Crash(w)
  <2>0. /\ host[w] # "ended"
        /\ host' = [host EXCEPT ![w] = "ended"]
        /\ open' = [open EXCEPT ![w] = FALSE]
        /\ answer' = [answer EXCEPT ![w] = "none"]
        /\ abrupt' = (abrupt \/ IsLease(w))
        /\ UNCHANGED <<vars, wire, outcome, unasked>>
    BY <1>6 DEF Drop, ExchangeFails, Crash, Close, Move
  <2>1. HostTypeOK'
    BY <2>0, <1>0
  <2>2. WorkerServesRole'
    BY <2>0, <1>0 DEF vars, counters
  <2>3. ClientKnowsWorker'
    BY <2>0, <1>0 DEF vars, counters
  <2>4. NotifierUnblocked'
    BY <2>0, <1>0 DEF vars, counters
  <2>5. SomebodyRemembers'
    <3>1. UNCHANGED <<leaseCount, unasked>>
      BY <2>0 DEF vars, counters
    <3>2. \A c \in Workers \ {w} : UNCHANGED <<host[c], answer[c]>>
      BY <2>0
    <3>3. CASE IsLease(w)
      BY <2>0, <3>3
    <3>4. CASE ~IsLease(w)
      <4>1. abrupt => abrupt'
        BY <2>0
      <4> QED
        BY <3>1, <3>2, <3>4, <4>1
    <3> QED
      BY <3>3, <3>4
  <2> QED
    BY <2>1, <2>2, <2>3, <2>4, <2>5
<1> QED
  BY <1>1, <1>2, <1>3, <1>4, <1>5, <1>6

(* The invariant holds.                                                        *)
LEMMA HostInductiveHolds == HostSpec => []HostInductive
<1>1. HostInit => HostInductive
  <2> SUFFICES ASSUME HostInit PROVE HostInductive
    OBVIOUS
  <2>1. Inductive
    BY InitInductive DEF HostInit
  <2>2. /\ open \in [Workers -> BOOLEAN]
        /\ unasked \in BOOLEAN /\ abrupt \in BOOLEAN
    BY DEF HostInit
  <2>3. HostTypeOK
    BY <2>1, <2>2 DEF HostInit, HostTypeOK, Inductive
  <2>4. WorkerServesRole /\ ClientKnowsWorker /\ NotifierUnblocked /\ SomebodyRemembers
    BY DEF HostInit, Init, WorkerServesRole, ClientKnowsWorker, NotifierUnblocked,
           SomebodyRemembers, At, Over
  <2> QED
    BY <2>1, <2>3, <2>4 DEF HostInductive, Belief
<1>2. HostInductive /\ [HostNext]_allVars => HostInductive'
  <2> SUFFICES ASSUME HostInductive, [HostNext]_allVars PROVE HostInductive'
    OBVIOUS
  <2>1. Inductive'
    BY HostStepImplements, NextInductive DEF HostInductive
  <2>2. CASE UNCHANGED allVars
    BY <2>1, <2>2 DEF allVars, vars, hostVars, HostInductive, Belief, HostTypeOK,
       Inductive, WorkerServesRole, ClientKnowsWorker, NotifierUnblocked,
       SomebodyRemembers, At
  <2>3. ASSUME NEW w \in Workers, PayloadStep(w) PROVE Belief'
    <3>1. CASE PayloadOwns(w)
      BY <2>1, <3>1, ServingKeepsBelief, OwningKeepsBelief DEF PayloadOwns
    <3> QED
      BY <2>1, <2>3, <3>1, ServingKeepsBelief, OwningKeepsBelief DEF PayloadStep
  <2>4. ASSUME NEW w \in Workers, ClientStep(w) PROVE Belief'
    BY <2>1, <2>4, ClientKeepsBelief DEF ClientStep
  <2> QED
    BY <2>1, <2>2, <2>3, <2>4 DEF HostNext, HostDone, HostInductive
<1> QED
  BY <1>1, <1>2, PTL DEF HostSpec

-----------------------------------------------------------------------------

(* Every variable of the composition has its type.                             *)
THEOREM HostTypeCorrect == HostSpec => []HostTypeOK
<1>1. HostInductive => HostTypeOK
  BY DEF HostInductive, Belief
<1> QED
  BY <1>1, HostInductiveHolds, PTL

(* A client that holds a lease or a pass-through is counted by the payload     *)
(* (Client::acquire).                                                          *)
THEOREM HoldersAreCounted == HostSpec => []HolderIsCounted
<1>1. HostInductive => HolderIsCounted
  BY DEF HostInductive, Belief, HolderIsCounted, WorkerServesRole, ClientKnowsWorker,
         Inductive, OwnershipFollowsPlace, Kind
<1> QED
  BY <1>1, HostInductiveHolds, PTL

(* Whatever release reports, the payload has let go of the lease before        *)
(* (Lease::release).                                                           *)
THEOREM ReportedReleasesAreDone == HostSpec => []ReportedReleaseIsDone
<1>1. HostInductive => ReportedReleaseIsDone
  BY DEF HostInductive, Belief, HostTypeOK, ReportedReleaseIsDone, ClientKnowsWorker,
         Inductive, OwnershipFollowsPlace, Over
<1> QED
  BY <1>1, HostInductiveHolds, PTL

(* In Steam, when blocking is over and nobody asked to look again, somebody    *)
(* still will, or a lease ended without a release (Lease::release, response).        *)
THEOREM RecoveriesAreNotForgotten == HostSpec => []RecoveryNotForgotten
<1>1. HostInductive => RecoveryNotForgotten
  BY DEF HostInductive, Belief, RecoveryNotForgotten, SomebodyRemembers
<1> QED
  BY <1>1, HostInductiveHolds, PTL

================================================================================
