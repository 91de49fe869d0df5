------------------------- MODULE RecoveryResolutionProofs -------------------------
(***************************************************************************)
(* The safety of the search for Steam's HID thread, for any number of      *)
(* resolving threads, addresses and attempts: what a resolver goes by was   *)
(* alike during its own search, one background thread searches at a time,  *)
(* and a request that sees one steady object finds it.                     *)
(***************************************************************************)
EXTENDS RecoveryResolution, FiniteSetTheorems, TLAPS

\* A searching resolver has seen whatever is alike, and watches only what it has seen.
LooksWereSeen ==
    \A r \in Resolvers :
        /\ Searching(r) => alike \subseteq seen[r]
        /\ moved[r] \subseteq found[r] /\ found[r] \subseteq seen[r]
        /\ ~At(r, "watch") => found[r] = {}

\* Whoever is not idle in the background holds the flag, alone.
FlagIsHeld ==
    /\ \A b \in Backgrounds : pc[b] # "idle" => resolving
    /\ OneBackgroundSweep

\* A request for which one address has been alike throughout is on its way to it.
SteadyRequestsFind ==
    \A r \in Recoveries : steady[r] =>
        /\ module = "known" /\ \E a \in Addresses : alike = {a}
        /\ ~At(r, "watch")
        /\ At(r, "scan") => stayed[r] = alike
        /\ pc[r] \in {"store", "request", "answered"} => got[r] # Nowhere

\* Who holds a sweep that the budget has not been charged for yet, or that will
\* give everything back.
SweepPlaces(k) == IF k = "layout" THEN {"snapshot"} ELSE {"scan", "watch", "store"}
Sweeping(k) == {r \in Backgrounds \cup WarmUps : pc[r] \in SweepPlaces(k)}

\* While the budget lasts, each sweep since the reset was paid for or is under way.
SweepsAreAccounted ==
    \A k \in Budgets :
        attempts[k] < Limit[k] /\ (k = "layout" => ~layout)
          => sweeps[k] <= attempts[k] + Cardinality(Sweeping(k))

Inductive ==
    TypeOK /\ LooksWereSeen /\ AnswerWasAlike /\ FlagIsHeld /\ SteadyRequestsFind

-----------------------------------------------------------------------------

(* A set of addresses of one element is its element's singleton.             *)
LEMMA SoleAddress ==
    ASSUME NEW S \in SUBSET Addresses
    PROVE  /\ Cardinality(S) = 1 => \E a \in Addresses : S = {a}
           /\ \A a \in Addresses : S = {a} => Cardinality(S) = 1
<1>1. IsFiniteSet(S)
  BY ResolversAssumption, FS_Subset
<1> QED
  BY <1>1, FS_Singleton

(* A failed attempt is counted, up to the limit.                             *)
LEMMA SpendKeepsType ==
    ASSUME attempts \in [Budgets -> Nat], NEW k \in Budgets, Spend(k)
    PROVE  attempts' \in [Budgets -> Nat]
BY LimitAssumption DEF Spend

(* What Steam does leaves a steady request on its way, or makes it unsteady.  *)
LEMMA ObservedKeepsSteady ==
    ASSUME Inductive, NEW fields \in SUBSET Addresses, Observed(fields),
           UNCHANGED <<pc, got>>, module' = "known" \/ module' = module
    PROVE  SteadyRequestsFind'
<1> SUFFICES ASSUME NEW q \in Recoveries, steady'[q]
             PROVE  /\ module' = "known" /\ \E a \in Addresses : alike' = {a}
                    /\ ~At(q, "watch")'
                    /\ At(q, "scan")' => stayed'[q] = alike'
                    /\ pc'[q] \in {"store", "request", "answered"} => got'[q] # Nowhere
  BY DEF SteadyRequestsFind
<1>1. q \in Resolvers
  BY DEF Resolvers
<1>2. steady[q] /\ alike' = alike /\ (At(q, "scan") => stayed'[q] = stayed[q] \cap alike)
  BY <1>1 DEF Observed
<1>3. /\ module = "known" /\ \E a \in Addresses : alike = {a}
      /\ ~At(q, "watch")
      /\ At(q, "scan") => stayed[q] = alike
      /\ pc[q] \in {"store", "request", "answered"} => got[q] # Nowhere
  BY <1>2 DEF Inductive, SteadyRequestsFind
<1> QED
  BY <1>2, <1>3 DEF At

(* Steam, and the first lease of a blocking spell.                            *)
LEMMA SteamKeepsInductive ==
    ASSUME Inductive, SteamStep \/ ResetBudgets
    PROVE  Inductive'
<1> USE DEF Inductive, TypeOK, LooksWereSeen, AnswerWasAlike, FlagIsHeld,
            OneBackgroundSweep, SteadyRequestsFind, Searching, Active, At, Goto,
            Resolvers, MaybeAddress, Budgets, Places, steamVars, cacheVars, historyVars,
            SteamActs, Observed
<1>1. CASE LoadModule
  <2>1. TypeOK'
    BY <1>1 DEF LoadModule
  <2>2. LooksWereSeen'
    BY <1>1 DEF LoadModule
  <2>3. AnswerWasAlike'
    BY <1>1 DEF LoadModule
  <2>4. FlagIsHeld'
    BY <1>1 DEF LoadModule
  <2>5. SteadyRequestsFind'
    BY <1>1 DEF LoadModule
  <2> QED
    BY <2>1, <2>2, <2>3, <2>4, <2>5
<1>2. CASE DestroyThread
  <2>1. TypeOK'
    BY <1>2 DEF DestroyThread
  <2>2. LooksWereSeen'
    BY <1>2 DEF DestroyThread
  <2>3. AnswerWasAlike'
    BY <1>2 DEF DestroyThread
  <2>4. FlagIsHeld'
    BY <1>2 DEF DestroyThread
  <2>5. SteadyRequestsFind'
    BY <1>2, ObservedKeepsSteady DEF DestroyThread
  <2> QED
    BY <2>1, <2>2, <2>3, <2>4, <2>5
<1>3. CASE Reschedule
  <2>1. TypeOK'
    BY <1>3 DEF Reschedule
  <2>2. LooksWereSeen'
    BY <1>3 DEF Reschedule
  <2>3. AnswerWasAlike'
    BY <1>3 DEF Reschedule
  <2>4. FlagIsHeld'
    BY <1>3 DEF Reschedule
  <2>5. SteadyRequestsFind'
    BY <1>3 DEF Reschedule
  <2> QED
    BY <2>1, <2>2, <2>3, <2>4, <2>5
<1>4. CASE \E a \in Addresses : BuildThread(a)
  <2>1. TypeOK'
    BY <1>4 DEF BuildThread
  <2>2. LooksWereSeen'
    BY <1>4 DEF BuildThread
  <2>3. AnswerWasAlike'
    BY <1>4 DEF BuildThread
  <2>4. FlagIsHeld'
    BY <1>4 DEF BuildThread
  <2>5. SteadyRequestsFind'
    <3>1. PICK a \in Addresses : BuildThread(a)
      BY <1>4
    <3>2. Observed({a}) /\ UNCHANGED <<module, pc, got>> /\ {a} \in SUBSET Addresses
      BY <3>1 DEF BuildThread
    <3> QED
      BY <3>2, ObservedKeepsSteady
  <2> QED
    BY <2>1, <2>2, <2>3, <2>4, <2>5
<1>5. CASE \E a \in Addresses : ReuseBlock(a)
  <2>1. TypeOK'
    BY <1>5 DEF ReuseBlock
  <2>2. LooksWereSeen'
    BY <1>5 DEF ReuseBlock
  <2>3. AnswerWasAlike'
    BY <1>5 DEF ReuseBlock
  <2>4. FlagIsHeld'
    BY <1>5 DEF ReuseBlock
  <2>5. SteadyRequestsFind'
    <3>1. PICK a \in Addresses : ReuseBlock(a)
      BY <1>5
    <3>2. PICK fields \in {{}, {a}} : Observed(fields)
      BY <3>1 DEF ReuseBlock
    <3>3. UNCHANGED <<module, pc, got>> /\ fields \in SUBSET Addresses
      BY <3>1 DEF ReuseBlock
    <3> QED
      BY <3>2, <3>3, ObservedKeepsSteady
  <2> QED
    BY <2>1, <2>2, <2>3, <2>4, <2>5
<1>6. CASE ResetBudgets
  <2>1. TypeOK'
    BY <1>6 DEF ResetBudgets
  <2>2. LooksWereSeen'
    BY <1>6 DEF ResetBudgets
  <2>3. AnswerWasAlike'
    BY <1>6 DEF ResetBudgets
  <2>4. FlagIsHeld'
    BY <1>6 DEF ResetBudgets
  <2>5. SteadyRequestsFind'
    BY <1>6 DEF ResetBudgets
  <2> QED
    BY <2>1, <2>2, <2>3, <2>4, <2>5
<1> QED
  BY <1>1, <1>2, <1>3, <1>4, <1>5, <1>6 DEF SteamStep

(* The threads that resolve come and go.                                     *)
LEMMA ComersKeepInductive ==
    ASSUME Inductive, NEW r \in Resolvers,
           \/ r \in Backgrounds /\ (Poll(r) \/ Spawned(r) \/ SpawnFails(r))
           \/ Start(r) /\ r \notin Backgrounds
           \/ Finish(r)
    PROVE  Inductive'
<1> USE DEF Inductive, TypeOK, LooksWereSeen, AnswerWasAlike, FlagIsHeld,
            OneBackgroundSweep, SteadyRequestsFind, Searching, Active, At, Goto,
            Resolvers, MaybeAddress, Budgets, Places, steamVars, cacheVars, historyVars
<1>1. CASE r \in Backgrounds /\ Poll(r)
  <2>1. TypeOK'
    BY <1>1 DEF Poll
  <2>2. LooksWereSeen'
    BY <1>1 DEF Poll
  <2>3. AnswerWasAlike'
    BY <1>1 DEF Poll
  <2>4. FlagIsHeld'
    BY <1>1 DEF Poll
  <2>5. SteadyRequestsFind'
    BY <1>1 DEF Poll
  <2> QED
    BY <2>1, <2>2, <2>3, <2>4, <2>5
<1>2. CASE r \in Backgrounds /\ Spawned(r)
  <2>1. TypeOK'
    BY <1>2, SoleAddress DEF Spawned, Begin
  <2>2. LooksWereSeen'
    BY <1>2, SoleAddress DEF Spawned, Begin
  <2>3. AnswerWasAlike'
    BY <1>2, SoleAddress DEF Spawned, Begin
  <2>4. FlagIsHeld'
    BY <1>2, SoleAddress DEF Spawned, Begin
  <2>5. SteadyRequestsFind'
    BY <1>2, SoleAddress DEF Spawned, Begin
  <2> QED
    BY <2>1, <2>2, <2>3, <2>4, <2>5
<1>3. CASE r \in Backgrounds /\ SpawnFails(r)
  <2>1. TypeOK'
    BY <1>3 DEF SpawnFails
  <2>2. LooksWereSeen'
    BY <1>3 DEF SpawnFails
  <2>3. AnswerWasAlike'
    BY <1>3 DEF SpawnFails
  <2>4. FlagIsHeld'
    BY <1>3 DEF SpawnFails
  <2>5. SteadyRequestsFind'
    BY <1>3 DEF SpawnFails
  <2> QED
    BY <2>1, <2>2, <2>3, <2>4, <2>5
<1>4. CASE Start(r) /\ r \notin Backgrounds
  <2>1. TypeOK'
    BY <1>4, SoleAddress DEF Start, Begin
  <2>2. LooksWereSeen'
    BY <1>4, SoleAddress DEF Start, Begin
  <2>3. AnswerWasAlike'
    BY <1>4, SoleAddress DEF Start, Begin
  <2>4. FlagIsHeld'
    BY <1>4, SoleAddress DEF Start, Begin
  <2>5. SteadyRequestsFind'
    BY <1>4, SoleAddress DEF Start, Begin
  <2> QED
    BY <2>1, <2>2, <2>3, <2>4, <2>5
<1>5. CASE Finish(r)
  <2>1. TypeOK'
    BY <1>5 DEF Finish, Forget
  <2>2. LooksWereSeen'
    BY <1>5 DEF Finish, Forget
  <2>3. AnswerWasAlike'
    BY <1>5 DEF Finish, Forget
  <2>4. FlagIsHeld'
    BY <1>5 DEF Finish, Forget
  <2>5. SteadyRequestsFind'
    BY <1>5 DEF Finish, Forget
  <2> QED
    BY <2>1, <2>2, <2>3, <2>4, <2>5
<1> QED
  BY <1>1, <1>2, <1>3, <1>4, <1>5

(* A resolver's search.                                                      *)
LEMMA SearchKeepsInductive ==
    ASSUME Inductive, NEW r \in Resolvers,
           \/ CheckLayout(r) \/ SnapshotModule(r) \/ CheckCache(r) \/ DropCache(r)
           \/ EndSweep(r) \/ Elect(r) \/ ElectionFails(r)
           \/ StoreAddress(r) \/ StoreDeadline(r)
    PROVE  Inductive'
<1> USE DEF Inductive, TypeOK, LooksWereSeen, AnswerWasAlike, FlagIsHeld,
            OneBackgroundSweep, SteadyRequestsFind, Searching, Active, At, Goto,
            Resolvers, MaybeAddress, Budgets, Places, steamVars, cacheVars, historyVars
<1>1. CASE CheckLayout(r)
  <2>1. TypeOK'
    BY <1>1 DEF CheckLayout, Answer, Spent, IgnoresBudget, CountSweep
  <2>2. LooksWereSeen'
    BY <1>1 DEF CheckLayout, Answer, Spent, IgnoresBudget, CountSweep
  <2>3. AnswerWasAlike'
    BY <1>1 DEF CheckLayout, Answer, Spent, IgnoresBudget, CountSweep
  <2>4. FlagIsHeld'
    BY <1>1 DEF CheckLayout, Answer, Spent, IgnoresBudget, CountSweep
  <2>5. SteadyRequestsFind'
    BY <1>1 DEF CheckLayout, Answer, Spent, IgnoresBudget, CountSweep
  <2> QED
    BY <2>1, <2>2, <2>3, <2>4, <2>5
<1>2. CASE SnapshotModule(r)
  <2>1. TypeOK'
    <3>1. attempts' \in [Budgets -> Nat]
      BY <1>2, SpendKeepsType DEF SnapshotModule
    <3>2. layout' \in BOOLEAN
      BY <1>2 DEF SnapshotModule
    <3>3. pc' \in [Resolvers -> Places] /\ got' \in [Resolvers -> MaybeAddress]
      BY <1>2 DEF SnapshotModule, Answer
    <3>4. UNCHANGED <<steamVars, cached, resolving, found, historyVars, sweeps>>
      BY <1>2 DEF SnapshotModule
    <3> QED
      BY <3>1, <3>2, <3>3, <3>4
  <2>2. LooksWereSeen'
    BY <1>2, LimitAssumption DEF SnapshotModule, Answer, Spend
  <2>3. AnswerWasAlike'
    BY <1>2, LimitAssumption DEF SnapshotModule, Answer, Spend
  <2>4. FlagIsHeld'
    BY <1>2, LimitAssumption DEF SnapshotModule, Answer, Spend
  <2>5. SteadyRequestsFind'
    BY <1>2, LimitAssumption DEF SnapshotModule, Answer, Spend
  <2> QED
    BY <2>1, <2>2, <2>3, <2>4, <2>5
<1>3. CASE CheckCache(r)
  <2>1. TypeOK'
    BY <1>3, NowhereAssumption DEF CheckCache, Answer, Valid
  <2>2. LooksWereSeen'
    BY <1>3, NowhereAssumption DEF CheckCache, Answer, Valid
  <2>3. AnswerWasAlike'
    BY <1>3, NowhereAssumption DEF CheckCache, Answer, Valid
  <2>4. FlagIsHeld'
    BY <1>3, NowhereAssumption DEF CheckCache, Answer, Valid
  <2>5. SteadyRequestsFind'
    BY <1>3, NowhereAssumption DEF CheckCache, Answer, Valid
  <2> QED
    BY <2>1, <2>2, <2>3, <2>4, <2>5
<1>4. CASE DropCache(r)
  <2>1. TypeOK'
    BY <1>4 DEF DropCache, Answer, Spent, IgnoresBudget, CountSweep
  <2>2. LooksWereSeen'
    BY <1>4 DEF DropCache, Answer, Spent, IgnoresBudget, CountSweep
  <2>3. AnswerWasAlike'
    BY <1>4 DEF DropCache, Answer, Spent, IgnoresBudget, CountSweep
  <2>4. FlagIsHeld'
    BY <1>4 DEF DropCache, Answer, Spent, IgnoresBudget, CountSweep
  <2>5. SteadyRequestsFind'
    BY <1>4 DEF DropCache, Answer, Spent, IgnoresBudget, CountSweep
  <2> QED
    BY <2>1, <2>2, <2>3, <2>4, <2>5
<1>5. CASE EndSweep(r)
  <2>1. TypeOK'
    BY <1>5, SoleAddress, NowhereAssumption, LimitAssumption DEF EndSweep, GiveUp, Answer, Spend
  <2>2. LooksWereSeen'
    BY <1>5, SoleAddress, NowhereAssumption, LimitAssumption DEF EndSweep, GiveUp, Answer, Spend
  <2>3. AnswerWasAlike'
    BY <1>5, SoleAddress, NowhereAssumption, LimitAssumption DEF EndSweep, GiveUp, Answer, Spend
  <2>4. FlagIsHeld'
    BY <1>5, SoleAddress, NowhereAssumption, LimitAssumption DEF EndSweep, GiveUp, Answer, Spend
  <2>5. SteadyRequestsFind'
    <3>1. UNCHANGED <<module, alike, steady>>
      BY <1>5 DEF EndSweep
    <3>2. ASSUME NEW q \in Recoveries, q # r
          PROVE  pc'[q] = pc[q] /\ got'[q] = got[q] /\ stayed'[q] = stayed[q]
      BY <1>5, <3>2 DEF EndSweep, GiveUp, Answer
    <3>3. ASSUME r \in Recoveries, steady[r]
          PROVE  At(r, "store")' /\ got'[r] # Nowhere
      <4>1. PICK a \in Addresses : alike = {a}
        BY <3>3
      <4>2. stayed[r] = {a}
        BY <1>5, <3>3, <4>1 DEF EndSweep
      <4>3. \A S \in SUBSET alike : stayed[r] \subseteq S => S = {a} /\ Cardinality(S) = 1
        BY <4>1, <4>2, SoleAddress
      <4>4. a # Nowhere
        BY NowhereAssumption
      <4> QED
        BY <1>5, <4>1, <4>2, <4>3, <4>4 DEF EndSweep
    <3> QED
      BY <3>1, <3>2, <3>3
  <2> QED
    BY <2>1, <2>2, <2>3, <2>4, <2>5
<1>6. CASE Elect(r)
  <2>1. TypeOK'
    BY <1>6, NowhereAssumption DEF Elect, EndWatch
  <2>2. LooksWereSeen'
    BY <1>6, NowhereAssumption DEF Elect, EndWatch
  <2>3. AnswerWasAlike'
    BY <1>6, NowhereAssumption DEF Elect, EndWatch
  <2>4. FlagIsHeld'
    BY <1>6, NowhereAssumption DEF Elect, EndWatch
  <2>5. SteadyRequestsFind'
    BY <1>6, NowhereAssumption DEF Elect, EndWatch
  <2> QED
    BY <2>1, <2>2, <2>3, <2>4, <2>5
<1>7. CASE ElectionFails(r)
  <2>1. TypeOK'
    BY <1>7, LimitAssumption DEF ElectionFails, EndWatch, GiveUp, Answer, Spend
  <2>2. LooksWereSeen'
    BY <1>7, LimitAssumption DEF ElectionFails, EndWatch, GiveUp, Answer, Spend
  <2>3. AnswerWasAlike'
    BY <1>7, LimitAssumption DEF ElectionFails, EndWatch, GiveUp, Answer, Spend
  <2>4. FlagIsHeld'
    BY <1>7, LimitAssumption DEF ElectionFails, EndWatch, GiveUp, Answer, Spend
  <2>5. SteadyRequestsFind'
    BY <1>7, LimitAssumption DEF ElectionFails, EndWatch, GiveUp, Answer, Spend
  <2> QED
    BY <2>1, <2>2, <2>3, <2>4, <2>5
<1>8. CASE StoreAddress(r)
  <2>1. TypeOK'
    BY <1>8 DEF StoreAddress
  <2>2. LooksWereSeen'
    BY <1>8 DEF StoreAddress
  <2>3. AnswerWasAlike'
    BY <1>8 DEF StoreAddress
  <2>4. FlagIsHeld'
    BY <1>8 DEF StoreAddress
  <2>5. SteadyRequestsFind'
    BY <1>8 DEF StoreAddress
  <2> QED
    BY <2>1, <2>2, <2>3, <2>4, <2>5
<1>9. CASE StoreDeadline(r)
  <2>1. TypeOK'
    BY <1>9 DEF StoreDeadline
  <2>2. LooksWereSeen'
    BY <1>9 DEF StoreDeadline
  <2>3. AnswerWasAlike'
    BY <1>9 DEF StoreDeadline
  <2>4. FlagIsHeld'
    BY <1>9 DEF StoreDeadline
  <2>5. SteadyRequestsFind'
    BY <1>9 DEF StoreDeadline
  <2> QED
    BY <2>1, <2>2, <2>3, <2>4, <2>5
<1> QED
  BY <1>1, <1>2, <1>3, <1>4, <1>5, <1>6, <1>7, <1>8, <1>9

(* The invariant holds.                                                      *)
LEMMA InductiveHolds == Spec => []Inductive
<1>1. Init => Inductive
  <2> SUFFICES ASSUME Init PROVE Inductive
    OBVIOUS
  <2> USE DEF Init, Resolvers
  <2>1. /\ moved \in [Resolvers -> SUBSET Addresses]
        /\ ran \in [Resolvers -> SUBSET MaybeAddress]
        /\ steady \in [Resolvers -> BOOLEAN]
        /\ attempts \in [Budgets -> Nat]
    OBVIOUS
  <2>2. TypeOK
    BY <2>1 DEF TypeOK, Places, MaybeAddress
  <2>3. LooksWereSeen /\ AnswerWasAlike
    BY DEF LooksWereSeen, AnswerWasAlike, Searching, At
  <2>4. FlagIsHeld /\ SteadyRequestsFind
    BY DEF FlagIsHeld, OneBackgroundSweep, SteadyRequestsFind
  <2> QED
    BY <2>2, <2>3, <2>4 DEF Inductive
<1>2. Inductive /\ [Next]_vars => Inductive'
  <2>1. CASE UNCHANGED vars
    BY <2>1 DEF vars, steamVars, cacheVars, historyVars, Inductive, TypeOK, LooksWereSeen,
                AnswerWasAlike, FlagIsHeld, OneBackgroundSweep, SteadyRequestsFind,
                Searching, At
  <2>2. ASSUME Inductive, Next PROVE Inductive'
    <3>1. CASE SteamStep \/ ResetBudgets
      BY <2>2, <3>1, SteamKeepsInductive
    <3>2. CASE \E r \in Backgrounds : Poll(r) \/ Spawned(r) \/ SpawnFails(r)
      BY <2>2, <3>2, ComersKeepInductive DEF Resolvers
    <3>3. CASE \E r \in WarmUps \cup Recoveries : Start(r)
      BY <2>2, <3>3, ResolversAssumption, ComersKeepInductive DEF Resolvers
    <3>4. CASE \E r \in Resolvers : Resolve(r)
      BY <2>2, <3>4, ComersKeepInductive, SearchKeepsInductive DEF Resolve
    <3> QED
      BY <2>2, <3>1, <3>2, <3>3, <3>4 DEF Next
  <2> QED
    BY <2>1, <2>2
<1> QED
  BY <1>1, <1>2, PTL DEF Spec

\* Of the threads that mind the budgets few search at a time.
FewSweep ==
    \A k \in Budgets :
        /\ IsFiniteSet(Sweeping(k))
        /\ Cardinality(Sweeping(k)) \in Nat
        /\ Cardinality(Sweeping(k)) <= 1 + Cardinality(WarmUps)

(* One in the background, since they take the flag, and the warm-ups.        *)
LEMMA FewSweepers == Inductive => FewSweep
<1> SUFFICES ASSUME Inductive, NEW k \in Budgets
             PROVE  /\ IsFiniteSet(Sweeping(k))
                    /\ Cardinality(Sweeping(k)) \in Nat
                    /\ Cardinality(Sweeping(k)) <= 1 + Cardinality(WarmUps)
  BY DEF FewSweep
<1> DEFINE B == {r \in Backgrounds : pc[r] \in SweepPlaces(k)}
           S == {r \in WarmUps : pc[r] \in SweepPlaces(k)}
<1>1. IsFiniteSet(S) /\ Cardinality(S) <= Cardinality(WarmUps) /\ Cardinality(S) \in Nat
  <2>1. IsFiniteSet(WarmUps) /\ S \subseteq WarmUps
    BY ResolversAssumption
  <2> QED
    BY <2>1, FS_Subset, FS_CardinalityType
<1>2. IsFiniteSet(B) /\ Cardinality(B) \in {0, 1}
  <2>1. CASE B = {}
    BY <2>1, FS_EmptySet
  <2>2. CASE B # {}
    <3>1. PICK b \in Backgrounds : b \in B
      BY <2>2
    <3>2. \A c \in B : pc[c] # "idle" /\ c \in Backgrounds
      BY DEF SweepPlaces
    <3>3. B = {b}
      BY <3>1, <3>2 DEF Inductive, FlagIsHeld, OneBackgroundSweep
    <3> QED
      BY <3>3, FS_Singleton
  <2> QED
    BY <2>1, <2>2
<1>3. Sweeping(k) = B \cup S /\ B \cap S = {}
  BY ResolversAssumption DEF Sweeping
<1>4. IsFiniteSet(B \cup S) /\ Cardinality(B \cup S) = Cardinality(B) + Cardinality(S)
  <2> HIDE DEF B, S
  <2>1. IsFiniteSet(B \cap S) /\ Cardinality(B \cap S) = 0
    BY <1>3, FS_EmptySet
  <2>2. Cardinality(B \cup S) = Cardinality(B) + Cardinality(S) - Cardinality(B \cap S)
    BY <1>1, <1>2, FS_Union
  <2> QED
    <3>1. IsFiniteSet(B \cup S)
      BY <1>1, <1>2, FS_Union
    <3> QED
      BY <1>1, <1>2, <2>1, <2>2, <3>1
<1>5. Cardinality(WarmUps) \in Nat
  BY ResolversAssumption, FS_CardinalityType
<1> QED
  BY <1>1, <1>2, <1>3, <1>4, <1>5

(* Who sweeps changes only where a resolver goes.                            *)
LEMMA SweepersChange ==
    ASSUME Inductive, NEW k \in Budgets, NEW r \in Resolvers, NEW place, Goto(r, place)
    PROVE  Sweeping(k)' = IF r \in Backgrounds \cup WarmUps /\ place \in SweepPlaces(k)
                          THEN Sweeping(k) \cup {r} ELSE Sweeping(k) \ {r}
<1>1. pc' = [pc EXCEPT ![r] = place] /\ pc \in [Resolvers -> Places]
  BY DEF Goto, Inductive, TypeOK
<1>2. \A q \in Backgrounds \cup WarmUps : pc'[q] = IF q = r THEN place ELSE pc[q]
  BY <1>1 DEF Resolvers
<1> QED
  BY <1>2 DEF Sweeping

\* What the accounting sees of a step, for one budget: nothing; a sweep that the
\* budget allowed begins; a search fails and is charged; or the accounts are closed.
Counts(k, S, T) ==
    /\ layout => layout'
    /\ \/ sweeps'[k] = sweeps[k] /\ attempts'[k] = attempts[k] /\ T = S
       \/ /\ sweeps'[k] = sweeps[k] + 1 /\ attempts'[k] = attempts[k]
          /\ attempts[k] < Limit[k] /\ (k = "layout" => ~layout)
          /\ \E r \in Resolvers \ S : T = S \cup {r}
       \/ /\ sweeps'[k] = sweeps[k]
          /\ attempts'[k] = IF attempts[k] < Limit[k] THEN attempts[k] + 1 ELSE attempts[k]
          /\ \E r \in Resolvers : T = S \ {r}
       \/ sweeps'[k] = 0
       \/ sweeps'[k] = sweeps[k] /\ k = "layout" /\ layout'

(* A step of a search keeps the accounts.                                    *)
LEMMA SearchCounts ==
    ASSUME Inductive, NEW k \in Budgets, NEW r \in Resolvers, Resolve(r)
    PROVE  Counts(k, Sweeping(k), Sweeping(k)')
<1> USE DEF Counts, At
<1>0. /\ \A place : Goto(r, place)
           => Sweeping(k)' = IF r \in Backgrounds \cup WarmUps /\ place \in SweepPlaces(k)
                             THEN Sweeping(k) \cup {r} ELSE Sweeping(k) \ {r}
      /\ r \in Sweeping(k)
           <=> r \in Backgrounds \cup WarmUps /\ pc[r] \in SweepPlaces(k)
      /\ "answered" \notin SweepPlaces(k) /\ "request" \notin SweepPlaces(k)
      /\ "cache" \notin SweepPlaces(k) /\ "drop" \notin SweepPlaces(k)
      /\ "idle" \notin SweepPlaces(k) /\ "layout" \notin SweepPlaces(k)
  BY SweepersChange DEF Sweeping, SweepPlaces
<1>1. sweeps \in [Budgets -> Nat] /\ attempts \in [Budgets -> Nat] /\ k \in {"layout", "thread"}
  BY DEF Inductive, TypeOK, Budgets
<1>2. r \in Recoveries => r \notin Backgrounds \cup WarmUps
  BY ResolversAssumption
<1>3. r \notin Recoveries => r \in Backgrounds \cup WarmUps
  BY DEF Resolvers
<1>4. \A a : Answer(r, a) => Sweeping(k)' = Sweeping(k) \ {r}
  BY <1>0 DEF Answer
<1>5. CASE CheckLayout(r)
  <2>1. CASE layout \/ Spent(r, "layout")
    BY <1>0, <1>4, <1>5, <2>1 DEF CheckLayout, cacheVars
  <2>2. CASE ~layout /\ ~Spent(r, "layout")
    <3>1. UNCHANGED <<layout, attempts>> /\ Goto(r, "snapshot") /\ CountSweep(r, "layout")
      BY <1>5, <2>2 DEF CheckLayout, cacheVars
    <3>2. CASE r \in Recoveries
      BY <1>0, <1>2, <3>1, <3>2 DEF CountSweep, IgnoresBudget
    <3>3. CASE r \notin Recoveries /\ k = "layout"
      <4>1. sweeps'[k] = sweeps[k] + 1 /\ attempts[k] < Limit[k]
        BY <1>1, <2>2, <3>1, <3>3, LimitAssumption
           DEF CountSweep, IgnoresBudget, Spent, Budgets
      <4>2. r \notin Sweeping(k) /\ Sweeping(k)' = Sweeping(k) \cup {r}
        BY <1>0, <1>3, <1>5, <3>1, <3>3 DEF SweepPlaces, CheckLayout
      <4> QED
        BY <2>2, <3>1, <4>1, <4>2
    <3>4. CASE r \notin Recoveries /\ k = "thread"
      <4>1. sweeps'[k] = sweeps[k]
        BY <1>1, <3>1, <3>4 DEF CountSweep, Budgets
      <4>2. r \notin Sweeping(k) /\ Sweeping(k)' = Sweeping(k)
        BY <1>0, <1>5, <3>1, <3>4 DEF SweepPlaces, CheckLayout
      <4> QED
        BY <3>1, <4>1, <4>2
    <3> QED
      BY <1>1, <3>2, <3>3, <3>4
  <2> QED
    BY <2>1, <2>2
<1>6. CASE SnapshotModule(r)
  <2>1. CASE k = "layout"
    BY <1>1, <1>4, <1>6, <2>1 DEF SnapshotModule, Spend
  <2>2. CASE k = "thread"
    <3>1. sweeps' = sweeps /\ attempts'[k] = attempts[k]
      BY <1>1, <1>6, <2>2 DEF SnapshotModule, Spend
    <3>2. Sweeping(k)' = Sweeping(k)
      BY <1>0, <1>4, <1>6, <2>2 DEF SnapshotModule, SweepPlaces
    <3> QED
      BY <1>6, <2>2, <3>1, <3>2 DEF SnapshotModule
  <2> QED
    BY <1>1, <2>1, <2>2
<1>7. CASE CheckCache(r)
  BY <1>0, <1>4, <1>7 DEF CheckCache, cacheVars, SweepPlaces
<1>8. CASE DropCache(r)
  <2>1. CASE Spent(r, "thread")
    BY <1>0, <1>4, <1>8, <2>1 DEF DropCache
  <2>2. CASE ~Spent(r, "thread")
    <3>1. UNCHANGED <<layout, attempts>> /\ Goto(r, "scan") /\ CountSweep(r, "thread")
      BY <1>8, <2>2 DEF DropCache
    <3>2. CASE r \in Recoveries
      BY <1>0, <1>2, <3>1, <3>2 DEF CountSweep, IgnoresBudget
    <3>3. CASE r \notin Recoveries /\ k = "thread"
      <4>1. sweeps'[k] = sweeps[k] + 1 /\ attempts[k] < Limit[k]
        BY <1>1, <2>2, <3>1, <3>3, LimitAssumption
           DEF CountSweep, IgnoresBudget, Spent, Budgets
      <4>2. r \notin Sweeping(k) /\ Sweeping(k)' = Sweeping(k) \cup {r}
        BY <1>0, <1>3, <1>8, <3>1, <3>3 DEF SweepPlaces, DropCache
      <4> QED
        BY <3>1, <3>3, <4>1, <4>2
    <3>4. CASE r \notin Recoveries /\ k = "layout"
      <4>1. sweeps'[k] = sweeps[k]
        BY <1>1, <3>1, <3>4 DEF CountSweep, Budgets
      <4>2. r \notin Sweeping(k) /\ Sweeping(k)' = Sweeping(k)
        BY <1>0, <1>8, <3>1, <3>4 DEF SweepPlaces, DropCache
      <4> QED
        BY <3>1, <4>1, <4>2
    <3> QED
      BY <1>1, <3>2, <3>3, <3>4
  <2> QED
    BY <2>1, <2>2
<1>9. ASSUME GiveUp(r), UNCHANGED sweeps, At(r, "scan") \/ At(r, "watch")
      PROVE  Counts(k, Sweeping(k), Sweeping(k)')
  <2>1. Sweeping(k)' = Sweeping(k) \ {r}
    BY <1>4, <1>9 DEF GiveUp
  <2>2. CASE k = "thread"
    BY <1>1, <1>9, <2>1, <2>2 DEF GiveUp, Spend
  <2>3. CASE k = "layout"
    <3>1. attempts'[k] = attempts[k]
      BY <1>1, <1>9, <2>3 DEF GiveUp, Spend
    <3>2. Sweeping(k)' = Sweeping(k)
      BY <1>0, <1>9, <2>1, <2>3 DEF SweepPlaces
    <3> QED
      BY <1>9, <3>1, <3>2 DEF GiveUp
  <2> QED
    BY <1>1, <2>2, <2>3
<1>10. ASSUME UNCHANGED <<cacheVars, sweeps>>, At(r, "scan") \/ At(r, "watch"),
              Goto(r, "store") \/ Goto(r, "watch")
       PROVE  Counts(k, Sweeping(k), Sweeping(k)')
  <2>1. Sweeping(k)' = Sweeping(k)
    BY <1>0, <1>1, <1>10 DEF SweepPlaces
  <2> QED
    BY <1>10, <2>1 DEF cacheVars
<1>11. CASE EndSweep(r)
  BY <1>9, <1>10, <1>11 DEF EndSweep
<1>12. CASE Elect(r)
  BY <1>10, <1>12 DEF Elect, EndWatch
<1>13. CASE ElectionFails(r)
  BY <1>9, <1>13 DEF ElectionFails, EndWatch
<1>14. CASE StoreAddress(r)
  <2>1. CASE k = "thread"
    BY <1>1, <1>14, <2>1 DEF StoreAddress
  <2>2. CASE k = "layout"
    <3>1. sweeps'[k] = sweeps[k] /\ attempts'[k] = attempts[k]
      BY <1>1, <1>14, <2>2 DEF StoreAddress
    <3>2. Sweeping(k)' = Sweeping(k)
      BY <1>0, <1>14, <2>2 DEF StoreAddress, SweepPlaces
    <3> QED
      BY <1>14, <3>1, <3>2 DEF StoreAddress
  <2> QED
    BY <1>1, <2>1, <2>2
<1>15. CASE StoreDeadline(r) \/ Finish(r)
  BY <1>0, <1>1, <1>15 DEF StoreDeadline, Finish, cacheVars, SweepPlaces
<1> QED
  BY <1>5, <1>6, <1>7, <1>8, <1>11, <1>12, <1>13, <1>14, <1>15 DEF Resolve

(* So does every other step.                                                 *)
LEMMA StepsCount ==
    ASSUME Inductive, NEW k \in Budgets, [Next]_vars
    PROVE  Counts(k, Sweeping(k), Sweeping(k)')
<1>1. CASE UNCHANGED <<layout, attempts, pc, sweeps>>
  BY <1>1 DEF Counts, Sweeping
<1>2. CASE SteamStep
  BY <1>1, <1>2 DEF SteamStep, LoadModule, BuildThread, DestroyThread, ReuseBlock,
                    Reschedule, SteamActs, cacheVars
<1>3. CASE ResetBudgets
  BY <1>3 DEF ResetBudgets, Counts
<1>4. ASSUME NEW r \in Resolvers, UNCHANGED <<layout, attempts, sweeps>>,
             At(r, "idle") \/ At(r, "spawn"),
             \E place \in {"idle", "spawn", "layout"} : Goto(r, place)
      PROVE  Counts(k, Sweeping(k), Sweeping(k)')
  <2>1. Sweeping(k)' = Sweeping(k)
    BY <1>4, SweepersChange DEF Sweeping, SweepPlaces, At
  <2> QED
    BY <1>4, <2>1 DEF Counts
<1>5. ASSUME NEW b \in Backgrounds, Poll(b) \/ Spawned(b) \/ SpawnFails(b)
      PROVE  Counts(k, Sweeping(k), Sweeping(k)')
  BY <1>4, <1>5 DEF Poll, Spawned, SpawnFails, Begin, cacheVars, Resolvers
<1>6. ASSUME NEW r \in WarmUps \cup Recoveries, Start(r)
      PROVE  Counts(k, Sweeping(k), Sweeping(k)')
  BY <1>4, <1>6 DEF Start, Begin, cacheVars, Resolvers
<1> QED
  BY <1>1, <1>2, <1>3, <1>5, <1>6, SearchCounts DEF Next, vars, cacheVars

(* The accounts bound the sweeps when they are made and stay good for later.  *)
LEMMA AccountsHold ==
    ASSUME Inductive, Inductive', SweepsAreAccounted, PollsAreBounded, [Next]_vars
    PROVE  SweepsAreAccounted' /\ PollsAreBounded'
<1> SUFFICES ASSUME NEW k \in Budgets
             PROVE  /\ sweeps'[k] <= Limit[k] + Cardinality(WarmUps)
                    /\ attempts'[k] < Limit[k] /\ (k = "layout" => ~layout')
                         => sweeps'[k] <= attempts'[k] + Cardinality(Sweeping(k)')
  BY DEF SweepsAreAccounted, PollsAreBounded
<1> DEFINE S == Sweeping(k)
           T == Sweeping(k)'
<1>1. IsFiniteSet(S) /\ Cardinality(S) \in Nat
  BY FewSweepers DEF FewSweep
<1>2. Cardinality(T) \in Nat /\ Cardinality(T) <= 1 + Cardinality(WarmUps)
  <2>1. FewSweep'
    BY FewSweepers, PTL
  <2> QED
    BY <2>1 DEF FewSweep
<1>3. /\ sweeps[k] \in Nat /\ attempts[k] \in Nat /\ sweeps'[k] \in Nat /\ attempts'[k] \in Nat
      /\ Limit[k] \in Nat /\ Cardinality(WarmUps) \in Nat
  BY LimitAssumption, ResolversAssumption, FS_CardinalityType DEF Inductive, TypeOK
<1>4. \A r \in Resolvers : Cardinality(S \ {r}) \in {Cardinality(S), Cardinality(S) - 1}
  BY <1>1, FS_RemoveElement
<1>5. \A r \in Resolvers \ S : Cardinality(S \cup {r}) = Cardinality(S) + 1
  BY <1>1, FS_AddElement
<1>6. /\ sweeps[k] <= Limit[k] + Cardinality(WarmUps)
      /\ attempts[k] < Limit[k] /\ (k = "layout" => ~layout)
           => sweeps[k] <= attempts[k] + Cardinality(S)
  BY DEF SweepsAreAccounted, PollsAreBounded
<1>7. Counts(k, S, T)
  BY StepsCount
<1>8. layout \in BOOLEAN /\ layout' \in BOOLEAN
  BY DEF Inductive, TypeOK
<1> DEFINE Charged == /\ sweeps'[k] = sweeps[k]
                      /\ attempts'[k] = IF attempts[k] < Limit[k] THEN attempts[k] + 1
                                       ELSE attempts[k]
                      /\ Cardinality(T) \in {Cardinality(S), Cardinality(S) - 1}
           Begun == /\ sweeps'[k] = sweeps[k] + 1 /\ attempts'[k] = attempts[k]
                    /\ attempts[k] < Limit[k] /\ (k = "layout" => ~layout)
                    /\ Cardinality(T) = Cardinality(S) + 1
<1>9. /\ layout => layout'
      /\ \/ sweeps'[k] = sweeps[k] /\ attempts'[k] = attempts[k] /\ T = S
         \/ Begun \/ Charged \/ sweeps'[k] = 0
         \/ sweeps'[k] = sweeps[k] /\ k = "layout" /\ layout'
  BY <1>4, <1>5, <1>7 DEF Counts
<1>10. CASE Begun
  BY <1>1, <1>2, <1>3, <1>6, <1>8, <1>10
<1>11. CASE Charged
  BY <1>1, <1>2, <1>3, <1>6, <1>8, <1>9, <1>11
<1> HIDE DEF Begun, Charged
<1> QED
  BY <1>1, <1>2, <1>3, <1>6, <1>8, <1>9, <1>10, <1>11

-----------------------------------------------------------------------------

(* Every variable has its type.                                              *)
THEOREM TypeCorrect == Spec => []TypeOK
<1>1. Inductive => TypeOK
  BY DEF Inductive
<1> QED
  BY <1>1, InductiveHolds, PTL

(* Whatever happens to the cache, a resolver goes by an address that passed  *)
(* validation during its own search (find_hid_thread).                       *)
THEOREM AnswersWereAlike == Spec => []AnswerWasAlike
<1>1. Inductive => AnswerWasAlike
  BY DEF Inductive
<1> QED
  BY <1>1, InductiveHolds, PTL

(* At most one background thread searches                                    *)
(* (schedule_capability_resolution).                                         *)
THEOREM SweepsDoNotPileUp == Spec => []OneBackgroundSweep
<1>1. Inductive => OneBackgroundSweep
  BY DEF Inductive, FlagIsHeld
<1> QED
  BY <1>1, InductiveHolds, PTL

(* A request for recovery finds the one object that is alike throughout it,  *)
(* whatever the budgets are (hid_thread_for_recovery).                       *)
THEOREM SteadyRecoveryFinds == Spec => []RecoveryNeverRefused
<1>1. Inductive => RecoveryNeverRefused
  BY DEF Inductive, SteadyRequestsFind, RecoveryNeverRefused, At
<1> QED
  BY <1>1, InductiveHolds, PTL

(* Between two resets the polls of the clients cost no more sweeps of Steam's *)
(* memory than the limit, and one more for each warm-up (hid_thread_for_poll, *)
(* resolution_spent).                                                         *)
THEOREM PollsStayBounded == Spec => []PollsAreBounded
<1>1. ASSUME Init PROVE SweepsAreAccounted /\ PollsAreBounded
  <2>1. Cardinality(WarmUps) \in Nat
    BY ResolversAssumption, FS_CardinalityType
  <2>2. \A k \in Budgets : sweeps[k] = 0 /\ attempts[k] = 0 /\ Limit[k] \in Nat
    BY <1>1, LimitAssumption DEF Init
  <2>3. \A k \in Budgets : Sweeping(k) = {}
    BY <1>1 DEF Init, Sweeping, SweepPlaces, Resolvers
  <2>4. \A k \in Budgets : Cardinality(Sweeping(k)) = 0
    BY <2>3, FS_EmptySet
  <2> QED
    BY <2>1, <2>2, <2>4 DEF SweepsAreAccounted, PollsAreBounded
<1>2. /\ Inductive /\ Inductive' /\ SweepsAreAccounted /\ PollsAreBounded /\ [Next]_vars
      => SweepsAreAccounted' /\ PollsAreBounded'
  BY AccountsHold
<1> QED
  BY <1>1, <1>2, InductiveHolds, PTL DEF Spec

================================================================================
