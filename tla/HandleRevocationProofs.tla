------------------------- MODULE HandleRevocationProofs -------------------------
(***************************************************************************)
(* The sweep never closes anything but the HID object it classified, and   *)
(* closes every one that was listed unless a call for its own entry fails:  *)
(* for any handles, objects and threads, however numbers are recycled       *)
(* between the listing, the probe and the close.                           *)
(***************************************************************************)
EXTENDS HandleRevocation, TLAPS

(* The steps of Steam's threads: only the end of a close frees a number, and *)
(* no close is under way while the sweep holds the barrier.                  *)
LEMMA ThreadsLeaveTheProbedHandle ==
    ASSUME SweepInductive, NEW t \in Threads, ThreadStep(t)
    PROVE  SweepInductive'
<1> USE DEF SweepInductive, SweepHoldsBarrier, SweepClosesWhatItProbed, Closers,
            Proceed, Finish, kernelVars, sweepVars, threadVars
<1>1. ASSUME NEW o \in Objects, CheckOpen(t, o) PROVE SweepInductive'
  BY <1>1 DEF CheckOpen
<1>2. ASSUME NEW o \in Objects, BeginIo(t, o) PROVE SweepInductive'
  BY <1>2 DEF BeginIo
<1>3. ASSUME NEW o \in Objects, BeginClose(t, o) PROVE SweepInductive'
  BY <1>3 DEF BeginClose
<1>4. CASE Create(t)
  <2>1. PICK h \in Handles : slot[h] = NoObject /\ slot' = [slot EXCEPT ![h] = target[t]]
    BY <1>4 DEF Create
  <2>2. \A u \in Threads : pc'[u] \in {"forget", "close"} => pc[u] \in {"forget", "close"}
    BY <1>4 DEF Create
  <2>3. pc' = [u \in Threads |-> pc'[u]] /\ UNCHANGED sweepVars
    BY <1>4 DEF Create
  <2>4. slot' = [g \in Handles |-> slot'[g]]
    BY <2>1
  <2>5. SweepHoldsBarrier => slot'[current] = slot[current]
    BY <2>1, ObjectsAssumption DEF Objects
  <2> QED
    BY <2>2, <2>3, <2>4, <2>5
<1>5. CASE CreateFails(t)
  BY <1>5 DEF CreateFails
<1>6. CASE RememberOpened(t)
  BY <1>6 DEF RememberOpened
<1>7. CASE Lookup(t)
  BY <1>7 DEF Lookup, Verdict
<1>8. CASE Probe(t)
  BY <1>8 DEF Probe
<1>9. CASE Record(t)
  BY <1>9 DEF Record, Verdict
<1>10. CASE EndIo(t)
  BY <1>10 DEF EndIo
<1>11. CASE CloseForgets(t)
  BY <1>11 DEF CloseForgets
<1>12. CASE CloseHandle(t)
  BY <1>12 DEF CloseHandle
<1> QED
  BY <1>1, <1>2, <1>3, <1>4, <1>5, <1>6, <1>7, <1>8, <1>9, <1>10, <1>11, <1>12
     DEF ThreadStep

(* The steps of the sweep: it takes the barrier only with the comparison.    *)
LEMMA SweepKeepsTheProbedHandle ==
    ASSUME SweepInductive, WorkerStep
    PROVE  SweepInductive'
<1> USE DEF SweepInductive, SweepHoldsBarrier, SweepClosesWhatItProbed, Closers,
            kernelVars, sweepVars, threadVars, Visit, NextEntry
<1>1. CASE Acquire
  BY <1>1 DEF Acquire
<1>2. CASE ListHandles
  BY <1>2 DEF ListHandles
<1>3. ASSUME NEW h \in Handles, Pin(h) PROVE SweepInductive'
  BY <1>3 DEF Pin
<1>4. CASE Classify
  BY <1>4 DEF Classify
<1>5. CASE Verify
  BY <1>5 DEF Verify, Probed, Class
<1>6. CASE SweepForgets
  BY <1>6 DEF SweepForgets
<1>7. CASE SweepCloses
  BY <1>7 DEF SweepCloses
<1>8. CASE Answer
  BY <1>8 DEF Answer
<1>9. CASE Release
  BY <1>9 DEF Release
<1> QED
  BY <1>1, <1>2, <1>3, <1>4, <1>5, <1>6, <1>7, <1>8, <1>9 DEF WorkerStep

LEMMA SweepInductiveHolds == Spec => []SweepInductive
<1>1. Init => SweepInductive
  BY DEF Init, SweepInductive, SweepHoldsBarrier, SweepClosesWhatItProbed
<1>2. SweepInductive /\ [Next]_vars => SweepInductive'
  <2> SUFFICES ASSUME SweepInductive, [Next]_vars PROVE SweepInductive'
    OBVIOUS
  <2>1. CASE UNCHANGED vars
    BY <2>1 DEF vars, kernelVars, sweepVars, threadVars, SweepInductive,
                SweepHoldsBarrier, SweepClosesWhatItProbed, Closers
  <2> QED
    BY <2>1, ThreadsLeaveTheProbedHandle, SweepKeepsTheProbedHandle DEF Next
<1> QED
  BY <1>1, <1>2, PTL DEF Spec

(* What the sweep is about to close is the very object it classified as HID. *)
THEOREM SweepIsPrecise == Spec => []SweepClosesWhatItProbed
<1>1. SweepInductive => SweepClosesWhatItProbed
  BY DEF SweepInductive
<1> QED
  BY <1>1, SweepInductiveHolds, PTL

-----------------------------------------------------------------------------
(* The sweep is complete.                                                    *)

\* An object that is being opened is not open yet, and nobody else opens it.
OpensAreFresh ==
    \A t \in Threads : pc[t] = "create" =>
        /\ target[t] \in Objects /\ target[t] \notin opened
        /\ \A u \in Threads \ {t} : pc[u] = "create" => target[u] # target[t]

\* So what has left its number never comes back to it.
WasOpened ==
    \A h \in Handles : {slot[h], listed[h]} \subseteq opened \cup {NoObject}

\* A listed HID object that is still where it was listed is yet to be visited, or the
\* sweep is at it and has pinned it, or a call for its own entry failed.
SweepReachesListed ==
    /\ worker \in {"next", "classify", "verify", "forget", "close", "answered"}
    /\ fileType # "Event"
    => \A h \in Handles : listed[h] \in Hids /\ slot[h] = listed[h] =>
          \/ h \in failed
          \/ worker # "answered" /\ h \in todo
          \/ /\ worker \in {"classify", "verify", "forget", "close"}
             /\ h = current /\ pinned = slot[h]

Complete == TypeOK /\ OpensAreFresh /\ WasOpened /\ SweepReachesListed

(* The steps of Steam's threads.                                             *)
LEMMA ThreadsKeepComplete ==
    ASSUME Complete, NEW t \in Threads, ThreadStep(t)
    PROVE  Complete'
<1> USE ObjectsAssumption
    DEF Complete, TypeOK, OpensAreFresh, WasOpened, SweepReachesListed, Objects, Proceed,
        Finish, Idle, Busy, kernelVars, sweepVars, threadVars, Visit, NextEntry, Probed,
        TypeIndex, Verdict, Class, Map!Remember, Map!Forget, SweepHoldsBarrier, Closers
<1>1. ASSUME NEW o \in Objects, CheckOpen(t, o) PROVE Complete'
  <2>1. TypeOK'
    BY <1>1 DEF CheckOpen
  <2>2. OpensAreFresh'
    BY <1>1 DEF CheckOpen
  <2>3. WasOpened'
    BY <1>1 DEF CheckOpen
  <2>4. SweepReachesListed'
    BY <1>1 DEF CheckOpen
  <2> QED
    BY <2>1, <2>2, <2>3, <2>4
<1>2. ASSUME NEW o \in Objects, BeginIo(t, o) PROVE Complete'
  <2>1. TypeOK'
    BY <1>2 DEF BeginIo
  <2>2. OpensAreFresh'
    BY <1>2 DEF BeginIo
  <2>3. WasOpened'
    BY <1>2 DEF BeginIo
  <2>4. SweepReachesListed'
    BY <1>2 DEF BeginIo
  <2> QED
    BY <2>1, <2>2, <2>3, <2>4
<1>3. ASSUME NEW o \in Objects, BeginClose(t, o) PROVE Complete'
  <2>1. TypeOK'
    BY <1>3 DEF BeginClose
  <2>2. OpensAreFresh'
    BY <1>3 DEF BeginClose
  <2>3. WasOpened'
    BY <1>3 DEF BeginClose
  <2>4. SweepReachesListed'
    BY <1>3 DEF BeginClose
  <2> QED
    BY <2>1, <2>2, <2>3, <2>4
<1>4. CASE Create(t)
  <2>1. TypeOK'
    BY <1>4 DEF Create
  <2>2. OpensAreFresh'
    BY <1>4 DEF Create
  <2>3. WasOpened'
    BY <1>4 DEF Create
  <2>4. SweepReachesListed'
    BY <1>4 DEF Create
  <2> QED
    BY <2>1, <2>2, <2>3, <2>4
<1>5. CASE CreateFails(t)
  <2>1. TypeOK'
    BY <1>5 DEF CreateFails
  <2>2. OpensAreFresh'
    BY <1>5 DEF CreateFails
  <2>3. WasOpened'
    BY <1>5 DEF CreateFails
  <2>4. SweepReachesListed'
    BY <1>5 DEF CreateFails
  <2> QED
    BY <2>1, <2>2, <2>3, <2>4
<1>6. CASE RememberOpened(t)
  <2>1. TypeOK'
    BY <1>6 DEF RememberOpened
  <2>2. OpensAreFresh'
    BY <1>6 DEF RememberOpened
  <2>3. WasOpened'
    BY <1>6 DEF RememberOpened
  <2>4. SweepReachesListed'
    BY <1>6 DEF RememberOpened
  <2> QED
    BY <2>1, <2>2, <2>3, <2>4
<1>7. CASE Lookup(t)
  <2>1. TypeOK'
    BY <1>7 DEF Lookup
  <2>2. OpensAreFresh'
    BY <1>7 DEF Lookup
  <2>3. WasOpened'
    BY <1>7 DEF Lookup
  <2>4. SweepReachesListed'
    BY <1>7 DEF Lookup
  <2> QED
    BY <2>1, <2>2, <2>3, <2>4
<1>8. CASE Probe(t)
  <2>1. TypeOK'
    BY <1>8 DEF Probe
  <2>2. OpensAreFresh'
    BY <1>8 DEF Probe
  <2>3. WasOpened'
    BY <1>8 DEF Probe
  <2>4. SweepReachesListed'
    BY <1>8 DEF Probe
  <2> QED
    BY <2>1, <2>2, <2>3, <2>4
<1>9. CASE Record(t)
  <2>1. TypeOK'
    BY <1>9 DEF Record
  <2>2. OpensAreFresh'
    BY <1>9 DEF Record
  <2>3. WasOpened'
    BY <1>9 DEF Record
  <2>4. SweepReachesListed'
    BY <1>9 DEF Record
  <2> QED
    BY <2>1, <2>2, <2>3, <2>4
<1>10. CASE EndIo(t)
  <2>1. TypeOK'
    BY <1>10 DEF EndIo
  <2>2. OpensAreFresh'
    BY <1>10 DEF EndIo
  <2>3. WasOpened'
    BY <1>10 DEF EndIo
  <2>4. SweepReachesListed'
    BY <1>10 DEF EndIo
  <2> QED
    BY <2>1, <2>2, <2>3, <2>4
<1>11. CASE CloseForgets(t)
  <2>1. TypeOK'
    BY <1>11 DEF CloseForgets
  <2>2. OpensAreFresh'
    BY <1>11 DEF CloseForgets
  <2>3. WasOpened'
    BY <1>11 DEF CloseForgets
  <2>4. SweepReachesListed'
    BY <1>11 DEF CloseForgets
  <2> QED
    BY <2>1, <2>2, <2>3, <2>4
<1>12. CASE CloseHandle(t)
  <2>1. TypeOK'
    BY <1>12 DEF CloseHandle
  <2>2. OpensAreFresh'
    BY <1>12 DEF CloseHandle
  <2>3. WasOpened'
    BY <1>12 DEF CloseHandle
  <2>4. SweepReachesListed'
    BY <1>12 DEF CloseHandle
  <2> QED
    BY <2>1, <2>2, <2>3, <2>4
<1> QED
  BY <1>1, <1>2, <1>3, <1>4, <1>5, <1>6, <1>7, <1>8, <1>9, <1>10, <1>11, <1>12
     DEF ThreadStep

(* The steps of the sweep.                                                   *)
LEMMA SweepKeepsComplete ==
    ASSUME Complete, SweepInductive, WorkerStep
    PROVE  Complete'
<1> USE ObjectsAssumption
    DEF Complete, TypeOK, OpensAreFresh, WasOpened, SweepReachesListed, Objects, Proceed,
        Finish, Idle, Busy, kernelVars, sweepVars, threadVars, Visit, NextEntry, Probed,
        TypeIndex, Verdict, Class, Map!Remember, Map!Forget, SweepHoldsBarrier, Closers
<1>0. worker \in {"classify", "verify", "forget", "close"} => current \in Handles
  BY DEF SweepInductive
<1>1. CASE Acquire
  <2>1. TypeOK'
    BY <1>1 DEF Acquire
  <2>2. OpensAreFresh'
    BY <1>1 DEF Acquire
  <2>3. WasOpened'
    BY <1>1 DEF Acquire
  <2>4. SweepReachesListed'
    BY <1>1 DEF Acquire
  <2> QED
    BY <2>1, <2>2, <2>3, <2>4
<1>2. CASE ListHandles
  <2>1. TypeOK'
    BY <1>2 DEF ListHandles
  <2>2. OpensAreFresh'
    BY <1>2 DEF ListHandles
  <2>3. WasOpened'
    BY <1>2 DEF ListHandles
  <2>4. SweepReachesListed'
    BY <1>2 DEF ListHandles
  <2> QED
    BY <2>1, <2>2, <2>3, <2>4
<1>3. ASSUME NEW h \in Handles, Pin(h) PROVE Complete'
  <2>1. TypeOK'
    BY <1>3 DEF Pin
  <2>2. OpensAreFresh'
    BY <1>3 DEF Pin
  <2>3. WasOpened'
    BY <1>3 DEF Pin
  <2>4. SweepReachesListed'
    BY <1>3 DEF Pin
  <2> QED
    BY <2>1, <2>2, <2>3, <2>4
<1>4. CASE Classify
  <2>1. TypeOK'
    <3>1. TypeIndex(listed[current]) \in {"File", "Event"}
      OBVIOUS
    <3>2. fileType' \in {"none", "File", "Event"} /\ failed' \subseteq Handles \cup {current}
      BY <1>4, <3>1 DEF Classify
    <3> QED
      BY <1>4, <3>2, <1>0 DEF Classify
  <2>2. OpensAreFresh'
    BY <1>4 DEF Classify
  <2>3. WasOpened'
    BY <1>4 DEF Classify
  <2>4. SweepReachesListed'
    BY <1>4 DEF Classify
  <2> QED
    BY <2>1, <2>2, <2>3, <2>4
<1>5. CASE Verify
  <2>1. TypeOK'
    BY <1>0, <1>5 DEF Verify
  <2>2. OpensAreFresh'
    BY <1>5 DEF Verify
  <2>3. WasOpened'
    BY <1>5 DEF Verify
  <2>4. SweepReachesListed'
    BY <1>5 DEF Verify
  <2> QED
    BY <2>1, <2>2, <2>3, <2>4
<1>6. CASE SweepForgets
  <2>1. TypeOK'
    BY <1>6 DEF SweepForgets
  <2>2. OpensAreFresh'
    BY <1>6 DEF SweepForgets
  <2>3. WasOpened'
    BY <1>6 DEF SweepForgets
  <2>4. SweepReachesListed'
    BY <1>6 DEF SweepForgets
  <2> QED
    BY <2>1, <2>2, <2>3, <2>4
<1>7. CASE SweepCloses
  <2>1. TypeOK'
    BY <1>0, <1>7 DEF SweepCloses
  <2>2. OpensAreFresh'
    BY <1>7 DEF SweepCloses
  <2>3. WasOpened'
    BY <1>7 DEF SweepCloses
  <2>4. SweepReachesListed'
    BY <1>7 DEF SweepCloses
  <2> QED
    BY <2>1, <2>2, <2>3, <2>4
<1>8. CASE Answer
  <2>1. TypeOK'
    BY <1>8 DEF Answer
  <2>2. OpensAreFresh'
    BY <1>8 DEF Answer
  <2>3. WasOpened'
    BY <1>8 DEF Answer
  <2>4. SweepReachesListed'
    BY <1>8 DEF Answer
  <2> QED
    BY <2>1, <2>2, <2>3, <2>4
<1>9. CASE Release
  <2>1. TypeOK'
    BY <1>9 DEF Release
  <2>2. OpensAreFresh'
    BY <1>9 DEF Release
  <2>3. WasOpened'
    BY <1>9 DEF Release
  <2>4. SweepReachesListed'
    BY <1>9 DEF Release
  <2> QED
    BY <2>1, <2>2, <2>3, <2>4
<1> QED
  BY <1>1, <1>2, <1>3, <1>4, <1>5, <1>6, <1>7, <1>8, <1>9
     DEF WorkerStep

LEMMA CompleteHolds == Spec => []Complete
<1>1. Init => Complete
  <2> SUFFICES ASSUME Init PROVE Complete
    OBVIOUS
  <2>1. held \in [Objects -> Handles \cup {NoHandle}]
    <3>1. ASSUME NEW o \in opened PROVE \E h \in Handles : slot[h] = o
      BY <3>1 DEF Init
    <3> QED
      BY <3>1 DEF Init
  <2>2. known \in [Handles -> {"Unknown", "Hid", "Other"}]
    BY DEF Init, Map!Init
  <2>3. opened \subseteq Objects /\ blocking \in BOOLEAN
    BY DEF Init
  <2>4. TypeOK
    BY <2>1, <2>2, <2>3 DEF Init, TypeOK
  <2>5. OpensAreFresh /\ WasOpened /\ SweepReachesListed
    BY DEF Init, OpensAreFresh, WasOpened, SweepReachesListed
  <2> QED
    BY <2>4, <2>5 DEF Complete
<1>2. Complete /\ SweepInductive /\ [Next]_vars => Complete'
  <2>1. CASE UNCHANGED vars
    BY <2>1 DEF vars, kernelVars, sweepVars, threadVars, Complete, TypeOK, OpensAreFresh,
                WasOpened, SweepReachesListed
  <2> QED
    BY <2>1, ThreadsKeepComplete, SweepKeepsComplete DEF Next
<1> QED
  BY <1>1, <1>2, SweepInductiveHolds, PTL DEF Spec

(* Every variable has its type.                                              *)
THEOREM TypeCorrect == Spec => []TypeOK
<1>1. Complete => TypeOK
  BY DEF Complete
<1> QED
  BY <1>1, CompleteHolds, PTL

(* When the sweep has learned the type number of files, a HID handle it      *)
(* listed is closed when it answers, or was closed by Steam, or one of the   *)
(* kernel's calls for that entry failed (discover_and_revoke_hid_handles).   *)
THEOREM SweepIsComplete == Spec => []ListedHidsAreClosed
<1>1. Complete => ListedHidsAreClosed
  BY ObjectsAssumption DEF Complete, SweepReachesListed, ListedHidsAreClosed
<1> QED
  BY <1>1, CompleteHolds, PTL

================================================================================
