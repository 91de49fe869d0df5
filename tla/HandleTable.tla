------------------------------ MODULE HandleTable ------------------------------
(***************************************************************************)
(* The payload's table of handle classifications: open addressing in a     *)
(* fixed array behind a reader-writer lock, a bounded number of probes,    *)
(* tombstones in place of deletion, and a count of the HID entries kept    *)
(* beside it.  Each use of the lock is one step; forgetting a handle takes *)
(* it twice, first to read, then to write.                                 *)
(*                                                                         *)
(* The hash is whatever first slot a handle value has.                     *)
(***************************************************************************)
EXTENDS Integers, FiniteSets

CONSTANTS
    TableSize,      \* HANDLE_TABLE_SIZE
    ProbeLimit,     \* HANDLE_PROBE_LIMIT
    Keys,           \* the handle values that are real handles
    Hash,           \* handle_hash of each of them
    Threads         \* the threads that may be closing a handle

Slots == 0 .. TableSize - 1
Offsets == 0 .. ProbeLimit - 1

ASSUME SizeAssumption ==
    /\ TableSize \in Nat
    /\ ProbeLimit \in 1 .. TableSize
ASSUME HashAssumption == Hash \in [Keys -> Slots]
\* Neither 0, the empty slot, nor 1, the tombstone, is the value of a handle.
ASSUME KeysAssumption == Keys \cap {0, 1} = {}

VARIABLES
    key,            \* what each slot of HANDLE_TABLE holds
    class,          \* its classification
    hidCount,       \* HID_HANDLE_COUNT
    forgetting      \* the key a thread has found and is about to remove

vars == <<key, class, hidCount, forgetting>>

Empty == 0
Tombstone == 1
Classes == {"Hid", "Other"}

\* Every variable has its type.
TypeOK ==
    /\ key \in [Slots -> Keys \cup {Empty, Tombstone}]
    /\ class \in [Slots -> Classes \cup {"Unknown"}]
    /\ hidCount \in Int
    /\ forgetting \in [Threads -> Keys \cup {Empty}]

Init ==
    /\ key = [s \in Slots |-> Empty]
    /\ class = [s \in Slots |-> "Unknown"]
    /\ hidCount = 0
    /\ forgetting = [t \in Threads |-> Empty]

-----------------------------------------------------------------------------

\* The slot the o-th probe for k looks at.
Probe(k, o) ==
    LET s == Hash[k] + o IN IF s < TableSize THEN s ELSE s - TableSize

\* The probes a scan for k makes: it ends at the first empty slot, which it sees.
Scan(k) == {o \in Offsets : \A p \in Offsets : p < o => key[Probe(k, p)] # Empty}

\* Where a scan for k finds it.
Found(k) == {o \in Scan(k) : key[Probe(k, o)] = k}

\* Where a scan for k could put it.
Free(k) == {o \in Scan(k) : key[Probe(k, o)] \in {Empty, Tombstone}}

First(S) == CHOOSE o \in S : \A p \in S : o <= p

\* lookup_handle
Lookup(k) == IF Found(k) = {} THEN "Unknown" ELSE class[Probe(k, First(Found(k)))]

One(c) == IF c = "Hid" THEN 1 ELSE 0

WriteUncounted(s, k, c) ==
    /\ key' = [key EXCEPT ![s] = k]
    /\ class' = [class EXCEPT ![s] = c]
    /\ hidCount' = hidCount + One(c)

\* Writes k and its class into a slot, and counts what was there and what is now.
Write(s, k, c) ==
    /\ key' = [key EXCEPT ![s] = k]
    /\ class' = [class EXCEPT ![s] = c]
    /\ hidCount' = hidCount + One(c) - One(class[s])

\* remember_handle: an entry for k is updated where it is found; otherwise the
\* first tombstone or empty slot of the scan is used; without one k is dropped.
InsertBeforeUpdate(k, c) ==
    IF Free(k) # {} THEN Write(Probe(k, First(Free(k))), k, c)
    ELSE IF Found(k) # {} THEN Write(Probe(k, First(Found(k))), k, c)
    ELSE UNCHANGED <<key, class, hidCount>>
Insert(k, c) ==
    IF Found(k) # {} THEN Write(Probe(k, First(Found(k))), k, c)
    ELSE IF Free(k) # {} THEN Write(Probe(k, First(Free(k))), k, c)
    ELSE UNCHANGED <<key, class, hidCount>>

Remember(k, c) ==
    /\ Insert(k, c)
    /\ UNCHANGED forgetting

\* forget_handle under the read lock: a close of a handle the table does not hold
\* ends here.
ForgetRead(t, k) ==
    /\ forgetting[t] = Empty
    /\ Found(k) # {}
    /\ forgetting' = [forgetting EXCEPT ![t] = k]
    /\ UNCHANGED <<key, class, hidCount>>

\* What is left in the slot of a removed entry.
EmptyAgain == Empty
Removed == Tombstone

\* forget_handle under the write lock: the table may have changed in between.
ForgetWrite(t) ==
    LET k == forgetting[t] IN
    /\ k # Empty
    /\ IF Found(k) = {} THEN UNCHANGED <<key, class, hidCount>>
       ELSE Write(Probe(k, First(Found(k))), Removed, "Unknown")
    /\ forgetting' = [forgetting EXCEPT ![t] = Empty]

Next ==
    \/ \E k \in Keys, c \in Classes : Remember(k, c)
    \/ \E t \in Threads, k \in Keys : ForgetRead(t, k)
    \/ \E t \in Threads : ForgetWrite(t)

Spec == Init /\ [][Next]_vars

-----------------------------------------------------------------------------

\* No handle has two entries, whatever was inserted, removed and inserted again
\* around tombstones: otherwise forgetting one would uncover a stale other.
OneEntryPerKey ==
    \A s, r \in Slots : key[s] \in Keys /\ key[s] = key[r] => s = r

\* Every entry lies where a scan for its key looks, before any empty slot: the
\* early end of a scan never hides an entry.
EntriesAreFound ==
    \A k \in Keys, s \in Slots : key[s] = k => \E o \in Scan(k) : Probe(k, o) = s

HidSlots == {s \in Slots : class[s] = "Hid"}

\* HID_HANDLE_COUNT is the number of entries that say HID, so it never drifts and
\* never goes below zero.
HidCountExact == hidCount = Cardinality(HidSlots)

\* Only slots in use have a classification.
ClassesInUse == \A s \in Slots : key[s] \in Keys <=> class[s] # "Unknown"

\* The inductive invariant.
Inductive ==
    /\ TypeOK
    /\ OneEntryPerKey
    /\ EntriesAreFound
    /\ ClassesInUse
    /\ HidCountExact

\* The table implements the map: what a lookup answers is changed only for the
\* handle that is recorded or forgotten.
Map == INSTANCE HandleMap WITH known <- [k \in Keys |-> Lookup(k)]
MapSpec == Map!Spec

================================================================================
