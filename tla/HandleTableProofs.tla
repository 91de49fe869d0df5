--------------------------- MODULE HandleTableProofs ---------------------------
(***************************************************************************)
(* The handle table for every size, probe limit, hash and number of        *)
(* closing threads: no duplicate entries, no hidden entries, an exact      *)
(* count of the HID ones.                                                  *)
(***************************************************************************)
EXTENDS HandleTable, FiniteSetTheorems, WellFoundedInduction, TLAPS

-----------------------------------------------------------------------------
(* Probes and scans.                                                        *)

(* A probe looks at a slot of the table.                                    *)
LEMMA ProbeIsSlot ==
    ASSUME NEW k \in Keys, NEW o \in Offsets
    PROVE  Probe(k, o) \in Slots
<1>1. Hash[k] \in Slots
  BY HashAssumption
<1> QED
  BY <1>1, SizeAssumption DEF Probe, Slots, Offsets

(* Two probes of one scan never look at the same slot: the limit does not   *)
(* exceed the size, so the scan does not come round to where it started.    *)
LEMMA ProbeInjective ==
    ASSUME NEW k \in Keys, NEW o \in Offsets, NEW p \in Offsets,
           Probe(k, o) = Probe(k, p)
    PROVE  o = p
<1>1. Hash[k] \in Slots
  BY HashAssumption
<1> QED
  BY <1>1, SizeAssumption DEF Probe, Slots, Offsets

(* The first of some offsets is one of them, and no other comes before it.  *)
LEMMA FirstIsLeast ==
    ASSUME NEW S \in SUBSET Offsets, S # {}
    PROVE  First(S) \in S /\ \A p \in S : First(S) <= p
<1>1. S \subseteq Nat
  BY SizeAssumption DEF Offsets
<1>2. \E o \in S : \A p \in S : <<p, o>> \notin OpToRel(<, Nat)
  BY <1>1, NatLessThanWellFounded, WFMin
<1>3. \E o \in S : \A p \in S : o <= p
  <2>1. PICK o \in S : \A p \in S : <<p, o>> \notin OpToRel(<, Nat)
    BY <1>2
  <2>2. \A p \in S : ~(p < o)
    BY <1>1, <2>1 DEF OpToRel
  <2> QED
    BY <1>1, <2>2
<1> QED
  BY <1>3 DEF First

(* A key that has an entry is found, in the slot of that entry.             *)
LEMMA EntryIsFound ==
    ASSUME Inductive, NEW s \in Slots, key[s] \in Keys
    PROVE  /\ Found(key[s]) # {}
           /\ Probe(key[s], First(Found(key[s]))) = s
<1> DEFINE k == key[s]
<1>1. PICK o \in Scan(k) : Probe(k, o) = s
  BY DEF Inductive, EntriesAreFound
<1>2. o \in Found(k)
  BY <1>1 DEF Found
<1>3. First(Found(k)) \in Found(k)
  BY <1>2, FirstIsLeast DEF Found, Scan
<1>4. Probe(k, First(Found(k))) \in Slots /\ key[Probe(k, First(Found(k)))] = k
  BY <1>3, ProbeIsSlot DEF Found, Scan
<1> QED
  BY <1>2, <1>4 DEF Inductive, OneEntryPerKey

(* A key that is found is found in a slot that holds it.                    *)
LEMMA FoundIsEntry ==
    ASSUME NEW k \in Keys, Found(k) # {}
    PROVE  /\ Probe(k, First(Found(k))) \in Slots
           /\ key[Probe(k, First(Found(k)))] = k
<1>1. First(Found(k)) \in Found(k)
  BY FirstIsLeast DEF Found, Scan
<1> QED
  BY <1>1, ProbeIsSlot DEF Found, Scan

-----------------------------------------------------------------------------
(* One write to one slot.                                                   *)

LEMMA SlotsFinite == IsFiniteSet(Slots)
BY FS_Interval, SizeAssumption DEF Slots

(* A slot that is not emptied keeps every scan that went past it going.     *)
LEMMA ScansGrow ==
    ASSUME TypeOK, NEW s \in Slots, NEW x \in Keys \cup {Tombstone},
           key' = [key EXCEPT ![s] = x],
           NEW k \in Keys, NEW o \in Scan(k)
    PROVE  o \in Scan(k)'
<1>1. \A p \in Offsets : key[Probe(k, p)] # Empty => key'[Probe(k, p)] # Empty
  BY ProbeIsSlot, KeysAssumption DEF TypeOK, Empty, Tombstone
<1> QED
  BY <1>1 DEF Scan

(* Whatever is written, the count follows the slots that say HID.           *)
LEMMA CountFollowsWrite ==
    ASSUME TypeOK, HidCountExact, NEW s \in Slots, NEW x,
           NEW c \in Classes \cup {"Unknown"}, Write(s, x, c)
    PROVE  HidCountExact'
<1>1. IsFiniteSet(HidSlots)
  BY SlotsFinite, FS_Subset DEF HidSlots
<1>2. HidSlots' = IF c = "Hid" THEN HidSlots \cup {s} ELSE HidSlots \ {s}
  BY DEF Write, TypeOK, HidSlots
<1>3. Cardinality(HidSlots) \in Nat
  BY <1>1, FS_CardinalityType
<1>4. CASE c = "Hid"
  <2>1. Cardinality(HidSlots') =
          IF s \in HidSlots THEN Cardinality(HidSlots) ELSE Cardinality(HidSlots) + 1
    BY <1>1, <1>2, <1>4, FS_AddElement
  <2>2. hidCount' = hidCount + 1 - (IF s \in HidSlots THEN 1 ELSE 0)
    BY <1>4 DEF Write, One, HidSlots
  <2> QED
    BY <1>3, <2>1, <2>2 DEF HidCountExact
<1>5. CASE c # "Hid"
  <2>1. Cardinality(HidSlots') =
          IF s \in HidSlots THEN Cardinality(HidSlots) - 1 ELSE Cardinality(HidSlots)
    BY <1>1, <1>2, <1>5, FS_RemoveElement
  <2>2. hidCount' = hidCount + 0 - (IF s \in HidSlots THEN 1 ELSE 0)
    BY <1>5 DEF Write, One, HidSlots
  <2> QED
    BY <1>3, <2>1, <2>2 DEF HidCountExact
<1> QED
  BY <1>4, <1>5

(* The types survive a write.                                               *)
LEMMA WriteTypes ==
    ASSUME TypeOK, NEW s \in Slots, NEW x \in Keys \cup {Tombstone},
           NEW c \in Classes \cup {"Unknown"}, Write(s, x, c),
           forgetting' \in [Threads -> Keys \cup {Empty}]
    PROVE  TypeOK'
BY DEF TypeOK, Write, One, Tombstone

-----------------------------------------------------------------------------
(* The invariant.                                                           *)

LEMMA InitInductive == Init => Inductive
<1> SUFFICES ASSUME Init PROVE Inductive
  OBVIOUS
<1>1. TypeOK
  BY DEF Init, TypeOK, Empty, Classes
<1>2. OneEntryPerKey /\ EntriesAreFound /\ ClassesInUse
  BY KeysAssumption
     DEF Init, OneEntryPerKey, EntriesAreFound, ClassesInUse, Empty
<1>3. HidSlots = {}
  BY DEF Init, HidSlots
<1>4. HidCountExact
  BY <1>3, FS_EmptySet DEF Init, HidCountExact
<1> QED
  BY <1>1, <1>2, <1>4 DEF Inductive

(* An entry is classified anew where it is.                                 *)
LEMMA UpdateStep ==
    ASSUME Inductive, NEW s \in Slots, key[s] \in Keys, NEW c \in Classes,
           Write(s, key[s], c), UNCHANGED forgetting
    PROVE  Inductive'
<1> USE DEF Inductive
<1>1. TypeOK' /\ HidCountExact'
  BY WriteTypes, CountFollowsWrite DEF TypeOK
<1>2. key' = key
  BY DEF Write, TypeOK
<1>3. OneEntryPerKey' /\ EntriesAreFound'
  BY <1>2 DEF OneEntryPerKey, EntriesAreFound, Scan
<1>4. ClassesInUse'
  BY <1>2 DEF ClassesInUse, Write, TypeOK, Classes
<1> QED
  BY <1>1, <1>3, <1>4

(* A key without an entry gets one in the first free slot of its scan.      *)
LEMMA AddStep ==
    ASSUME Inductive, NEW k \in Keys, NEW c \in Classes, Found(k) = {},
           Free(k) # {}, Write(Probe(k, First(Free(k))), k, c), UNCHANGED forgetting
    PROVE  Inductive'
<1> USE DEF Inductive
<1> DEFINE o == First(Free(k))
           s == Probe(k, o)
<1>1. o \in Scan(k) /\ o \in Offsets /\ s \in Slots /\ key[s] \in {Empty, Tombstone}
  BY FirstIsLeast, ProbeIsSlot DEF Free, Scan
<1>2. TypeOK' /\ HidCountExact'
  BY <1>1, WriteTypes, CountFollowsWrite DEF TypeOK
<1>3. key' = [key EXCEPT ![s] = k] /\ class' = [class EXCEPT ![s] = c]
  BY DEF Write
<1> HIDE DEF o, s
<1>4. \A r \in Slots : key[r] # k
  BY EntryIsFound
<1>5. OneEntryPerKey'
  BY <1>1, <1>3, <1>4 DEF OneEntryPerKey, TypeOK
<1>6. EntriesAreFound'
  <2> SUFFICES ASSUME NEW j \in Keys, NEW r \in Slots, key'[r] = j
               PROVE  \E p \in Scan(j)' : Probe(j, p) = r
    BY DEF EntriesAreFound, Probe
  <2>1. CASE r = s
    <3>1. j = k
      BY <1>1, <1>3, <2>1 DEF TypeOK
    <3>2. o \in Scan(k)'
      BY <1>1, <1>3, ScansGrow
    <3> QED
      BY <2>1, <3>1, <3>2 DEF s
  <2>2. CASE r # s
    <3>1. key[r] = j
      BY <1>3, <2>2 DEF TypeOK
    <3>2. PICK p \in Scan(j) : Probe(j, p) = r
      BY <3>1 DEF EntriesAreFound
    <3>3. p \in Scan(j)'
      BY <1>1, <1>3, <3>2, ScansGrow
    <3> QED
      BY <3>2, <3>3
  <2> QED
    BY <2>1, <2>2
<1>7. ClassesInUse'
  BY <1>1, <1>3 DEF ClassesInUse, TypeOK, Classes
<1> QED
  BY <1>2, <1>5, <1>6, <1>7

(* A removed entry leaves a tombstone, which ends no scan.                  *)
LEMMA RemoveStep ==
    ASSUME Inductive, NEW s \in Slots, key[s] \in Keys,
           Write(s, Tombstone, "Unknown"),
           forgetting' \in [Threads -> Keys \cup {Empty}]
    PROVE  Inductive'
<1> USE DEF Inductive
<1>1. TypeOK' /\ HidCountExact'
  BY WriteTypes, CountFollowsWrite
<1>2. key' = [key EXCEPT ![s] = Tombstone] /\ class' = [class EXCEPT ![s] = "Unknown"]
  BY DEF Write
<1>3. Tombstone \notin Keys
  BY KeysAssumption DEF Tombstone
<1>4. OneEntryPerKey' /\ ClassesInUse'
  BY <1>2, <1>3 DEF OneEntryPerKey, ClassesInUse, TypeOK
<1>5. EntriesAreFound'
  <2> SUFFICES ASSUME NEW j \in Keys, NEW r \in Slots, key'[r] = j
               PROVE  \E p \in Scan(j)' : Probe(j, p) = r
    BY DEF EntriesAreFound, Probe
  <2>1. key[r] = j
    BY <1>2, <1>3 DEF TypeOK
  <2>2. PICK p \in Scan(j) : Probe(j, p) = r
    BY <2>1 DEF EntriesAreFound
  <2>3. p \in Scan(j)'
    BY <1>2, <2>2, ScansGrow
  <2> QED
    BY <2>2, <2>3
<1> QED
  BY <1>1, <1>4, <1>5

LEMMA NextInductive == Inductive /\ [Next]_vars => Inductive'
<1> SUFFICES ASSUME Inductive, [Next]_vars PROVE Inductive'
  OBVIOUS
<1> USE DEF Inductive
<1>1. ASSUME UNCHANGED <<key, class, hidCount>>,
             forgetting' \in [Threads -> Keys \cup {Empty}]
      PROVE  Inductive'
  <2>1. HidSlots' = HidSlots
    BY <1>1 DEF HidSlots
  <2> QED
    BY <1>1, <2>1
       DEF TypeOK, OneEntryPerKey, EntriesAreFound, ClassesInUse, HidCountExact, Scan
<1>2. ASSUME NEW k \in Keys, NEW c \in Classes, Remember(k, c)
      PROVE  Inductive'
  <2>1. CASE Found(k) # {}
    <3> DEFINE s == Probe(k, First(Found(k)))
    <3>1. s \in Slots /\ key[s] = k
      BY <2>1, FoundIsEntry
    <3>2. Write(s, k, c) /\ UNCHANGED forgetting
      BY <1>2, <2>1 DEF Remember, Insert
    <3> HIDE DEF s
    <3> QED
      BY <3>1, <3>2, UpdateStep
  <2>2. CASE Found(k) = {} /\ Free(k) # {}
    BY <1>2, <2>2, AddStep DEF Remember, Insert
  <2>3. CASE Found(k) = {} /\ Free(k) = {}
    BY <1>1, <1>2, <2>3 DEF Remember, Insert, TypeOK
  <2> QED
    BY <2>1, <2>2, <2>3
<1>3. ASSUME NEW t \in Threads, NEW k \in Keys, ForgetRead(t, k)
      PROVE  Inductive'
  BY <1>1, <1>3 DEF ForgetRead, TypeOK
<1>4. ASSUME NEW t \in Threads, ForgetWrite(t)
      PROVE  Inductive'
  <2> DEFINE k == forgetting[t]
  <2>1. k \in Keys /\ forgetting' \in [Threads -> Keys \cup {Empty}]
    BY <1>4 DEF ForgetWrite, TypeOK
  <2>2. CASE Found(k) = {}
    BY <1>1, <1>4, <2>1, <2>2 DEF ForgetWrite
  <2>3. CASE Found(k) # {}
    <3> DEFINE s == Probe(k, First(Found(k)))
    <3>1. s \in Slots /\ key[s] = k
      BY <2>1, <2>3, FoundIsEntry
    <3>2. Write(s, Tombstone, "Unknown")
      BY <1>4, <2>3 DEF ForgetWrite, Removed
    <3> HIDE DEF s
    <3> QED
      BY <2>1, <3>1, <3>2, RemoveStep
  <2> QED
    BY <2>2, <2>3
<1>5. CASE UNCHANGED vars
  BY <1>1, <1>5 DEF vars, TypeOK
<1> QED
  BY <1>2, <1>3, <1>4, <1>5 DEF Next

(* The invariant of the handle table holds in every run.                    *)
THEOREM InductiveHolds == Spec => []Inductive
BY InitInductive, NextInductive, PTL DEF Spec

(* Every variable of the table has its type.                                *)
THEOREM TypeCorrect == Spec => []TypeOK
<1>1. Inductive => TypeOK
  BY DEF Inductive
<1> QED
  BY <1>1, InductiveHolds, PTL

(* No handle value ever has two entries.                                    *)
THEOREM NoDuplicateEntries == Spec => []OneEntryPerKey
<1>1. Inductive => OneEntryPerKey
  BY DEF Inductive
<1> QED
  BY <1>1, InductiveHolds, PTL

(* The early end of a scan at an empty slot never hides an entry.           *)
THEOREM NoHiddenEntries == Spec => []EntriesAreFound
<1>1. Inductive => EntriesAreFound
  BY DEF Inductive
<1> QED
  BY <1>1, InductiveHolds, PTL

(* HID_HANDLE_COUNT is the number of entries classified as HID.             *)
THEOREM HidCountIsExact == Spec => []HidCountExact
<1>1. Inductive => HidCountExact
  BY DEF Inductive
<1> QED
  BY <1>1, InductiveHolds, PTL

-----------------------------------------------------------------------------
(* The implementation of HandleMap.                                         *)

\* A lookup answers what the entry for the handle says, if there is one.
LookupsSeeEntries ==
    \A k \in Keys :
        /\ \A s \in Slots : key[s] = k => Lookup(k) = class[s]
        /\ (\A s \in Slots : key[s] # k) => Lookup(k) = "Unknown"

LEMMA LookupSeesEntry == Inductive => LookupsSeeEntries
<1> SUFFICES ASSUME Inductive, NEW k \in Keys
             PROVE  /\ \A s \in Slots : key[s] = k => Lookup(k) = class[s]
                    /\ (\A s \in Slots : key[s] # k) => Lookup(k) = "Unknown"
  BY DEF LookupsSeeEntries
<1>1. ASSUME NEW s \in Slots, key[s] = k
      PROVE  Lookup(k) = class[s]
  BY <1>1, EntryIsFound DEF Lookup
<1>2. ASSUME \A s \in Slots : key[s] # k
      PROVE  Lookup(k) = "Unknown"
  BY <1>2, FoundIsEntry DEF Lookup
<1> QED
  BY <1>1, <1>2

LEMMA LookupSeesEntryNext == Inductive' => LookupsSeeEntries'
BY LookupSeesEntry, PTL

(* A write that touches only the entry of k, old or new, changes the answer *)
(* for k and for nobody else.                                               *)
LEMMA WriteChangesOneAnswer ==
    ASSUME Inductive, Inductive', NEW k \in Keys, NEW s \in Slots,
           NEW x \in {k, Tombstone}, NEW c \in Classes \cup {"Unknown"},
           key[s] \in {k, Empty, Tombstone}, Write(s, x, c),
           x = Tombstone => key[s] = k /\ c = "Unknown"
    PROVE  /\ Lookup(k)' = c
           /\ \A j \in Keys \ {k} : Lookup(j)' = Lookup(j)
<1> USE KeysAssumption DEF Empty, Tombstone
<1>1. LookupsSeeEntries /\ LookupsSeeEntries'
  BY LookupSeesEntry, LookupSeesEntryNext
<1>2. /\ key' = [key EXCEPT ![s] = x] /\ key'[s] = x
      /\ class' = [class EXCEPT ![s] = c] /\ class'[s] = c
  BY DEF Write, Inductive, TypeOK
<1>3. Lookup(k)' = c
  <2>1. CASE x = k
    BY <1>1, <1>2, <2>1 DEF LookupsSeeEntries
  <2>2. CASE x = Tombstone
    <3>1. \A r \in Slots : key'[r] # k
      BY <1>2, <2>2 DEF Inductive, OneEntryPerKey, TypeOK
    <3> QED
      BY <1>1, <2>2, <3>1 DEF LookupsSeeEntries
  <2> QED
    BY <2>1, <2>2
<1>4. ASSUME NEW j \in Keys \ {k} PROVE Lookup(j)' = Lookup(j)
  <2>1. \A r \in Slots : /\ key'[r] = j <=> key[r] = j
                         /\ key[r] = j => class'[r] = class[r]
    BY <1>2 DEF Inductive, TypeOK
  <2>2. CASE \E r \in Slots : key[r] = j
    BY <1>1, <2>1, <2>2 DEF LookupsSeeEntries
  <2>3. CASE \A r \in Slots : key[r] # j
    BY <1>1, <2>1, <2>3 DEF LookupsSeeEntries
  <2> QED
    BY <2>2, <2>3
<1> QED
  BY <1>3, <1>4

LEMMA InitImplements == Init => Map!Init
<1> SUFFICES ASSUME Init PROVE Map!Init
  OBVIOUS
<1>1. LookupsSeeEntries
  BY InitInductive, LookupSeesEntry
<1>2. \A s \in Slots : key[s] \notin Keys
  BY KeysAssumption DEF Init, Empty
<1>3. \A k \in Keys : Lookup(k) = "Unknown"
  BY <1>1, <1>2 DEF LookupsSeeEntries
<1> QED
  BY <1>3 DEF Map!Init

LEMMA StepImplements ==
    ASSUME Inductive, Inductive', [Next]_vars
    PROVE  [Map!Next]_([k \in Keys |-> Lookup(k)])
<1> DEFINE known == [k \in Keys |-> Lookup(k)]
<1>1. ASSUME UNCHANGED <<key, class>> PROVE known' = known
  BY <1>1 DEF Lookup, Found, Scan, First, Probe
<1>2. ASSUME NEW k \in Keys, NEW c, \A j \in Keys \ {k} : Lookup(j)' = Lookup(j),
             Lookup(k)' = c
      PROVE  known' = [known EXCEPT ![k] = c]
  BY <1>2
<1>3. ASSUME NEW k \in Keys, NEW c \in Classes, Remember(k, c)
      PROVE  Map!Remember(k, c)
  <2>1. CASE Found(k) # {}
    <3> DEFINE s == Probe(k, First(Found(k)))
    <3>1. s \in Slots /\ key[s] = k /\ Write(s, k, c)
      BY <1>3, <2>1, FoundIsEntry DEF Remember, Insert
    <3> HIDE DEF s
    <3>2. Lookup(k)' = c /\ \A j \in Keys \ {k} : Lookup(j)' = Lookup(j)
      BY <3>1, WriteChangesOneAnswer, KeysAssumption DEF Tombstone
    <3> QED
      BY <1>2, <3>2 DEF Map!Remember
  <2>2. CASE Found(k) = {} /\ Free(k) # {}
    <3> DEFINE s == Probe(k, First(Free(k)))
    <3>1. s \in Slots /\ key[s] \in {Empty, Tombstone} /\ Write(s, k, c)
      BY <1>3, <2>2, FirstIsLeast, ProbeIsSlot DEF Remember, Insert, Free, Scan
    <3> HIDE DEF s
    <3>2. Lookup(k)' = c /\ \A j \in Keys \ {k} : Lookup(j)' = Lookup(j)
      BY <3>1, WriteChangesOneAnswer, KeysAssumption DEF Tombstone
    <3> QED
      BY <1>2, <3>2 DEF Map!Remember
  <2>3. CASE Found(k) = {} /\ Free(k) = {}
    <3>1. UNCHANGED <<key, class>> /\ Lookup(k) = "Unknown"
      BY <1>3, <2>3 DEF Remember, Insert, Lookup
    <3> QED
      BY <1>1, <3>1 DEF Map!Remember
  <2> QED
    BY <2>1, <2>2, <2>3
<1>4. ASSUME NEW t \in Threads, ForgetWrite(t)
      PROVE  UNCHANGED <<key, class>> \/ \E k \in Keys : Map!Forget(k)
  <2> PICK k \in Keys : k = forgetting[t]
    BY <1>4 DEF ForgetWrite, Inductive, TypeOK
  <2>2. CASE Found(k) # {}
    <3> DEFINE s == Probe(k, First(Found(k)))
    <3>1. s \in Slots /\ key[s] = k /\ Write(s, Tombstone, "Unknown")
      BY <1>4, <2>2, FoundIsEntry DEF ForgetWrite, Removed
    <3> HIDE DEF s
    <3>2. Lookup(k)' = "Unknown" /\ \A j \in Keys \ {k} : Lookup(j)' = Lookup(j)
      BY <3>1, WriteChangesOneAnswer
    <3>3. known' = [known EXCEPT ![k] = "Unknown"]
      BY <1>2, <3>2
    <3> QED
      BY <3>3 DEF Map!Forget
  <2> QED
    BY <1>4, <2>2 DEF ForgetWrite
<1> QED
  BY <1>1, <1>3, <1>4 DEF Next, ForgetRead, vars, Map!Next, Classes

(* Whatever handles collide and however full the table is, it behaves as a  *)
(* map: recording or forgetting one handle never changes what is known of   *)
(* another.                                                                 *)
THEOREM ImplementsHandleMap == Spec => MapSpec
<1>1. Inductive /\ Inductive' /\ [Next]_vars =>
        [Map!Next]_([k \in Keys |-> Lookup(k)])
  BY StepImplements
<1> QED
  BY <1>1, InitImplements, InductiveHolds, PTL DEF Spec, MapSpec, Map!Spec

================================================================================
