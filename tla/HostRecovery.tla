------------------------------ MODULE HostRecovery ------------------------------
(***************************************************************************)
(* A host rescan, or its dry run: the host derives the layout of Steam's   *)
(* HID thread class from a snapshot of steamclient64.dll, sweeps Steam's   *)
(* private memory for the object, elects it among look-alikes and asks it  *)
(* twice to rediscover.  All of it reads another process, whose allocator  *)
(* and HID thread go on meanwhile.                                         *)
(*                                                                         *)
(* Memory is a row of units, Word of them to a machine word and PageSize    *)
(* to a page.  An object's block keeps, a word each, the primary vtable at  *)
(* its start, the secondary vtable and the discovery deadline further in.   *)
(***************************************************************************)
EXTENDS LayoutResolution, FiniteSetsExt

CONSTANTS
    Images,         \* the builds of steamclient64.dll a host may meet
    Pages,          \* the number of pages
    PageSize, Word, \* in units
    ScanChunk,      \* PROCESS_SCAN_CHUNK
    Deadline,       \* discovery_deadline_offset
    Secondary,      \* the true offset of the secondary vtable
    Slots,          \* where Steam's allocator puts the object
    Private,        \* the pages that hold private memory
    Volatile,       \* those of them that come and go
    Attempts        \* MODULE_SNAPSHOT_ATTEMPTS

VARIABLES
    mode,           \* "rescan" or "check" (check_recovery)
    pc,             \* where the host is
    tries,          \* the module lists it could not read
    image,          \* its snapshot of the module
    layout,         \* the secondary offset it derived
    address,        \* where the sweep asks for the next region, or reads next
    regionEnd,      \* the end of the region it reads
    buffer,         \* the one buffer of the sweep
    hits,           \* the pairs found, not yet validated
    candidates,     \* those found live
    cut,            \* history: the sweep ended in front of a region it was not told of
    target,         \* the object's address
    pass,           \* which of the two requests is made
    writes,         \* the requests written
    page,           \* [page -> committed or gone]
    block,          \* [slot -> what is there]
    throughout,     \* history: slots that passed for live ever since the sweep began
    paired,         \* history: slots that held the vtable pair at some time since
    moved,          \* history: slots whose fields changed since the first sample
    fresh           \* history: the target passed for live at some time in this pass

hostVars == <<mode, pc, tries, image, layout, address, regionEnd, buffer, hits,
              candidates, cut, target, pass, writes>>
steamVars == <<page, block>>
historyVars == <<throughout, paired, moved, fresh>>
vars == <<hostVars, steamVars, historyVars>>

End == Pages * PageSize
Nowhere == End
NoImage == [bytes |-> <<>>, words |-> <<>>, bodies |-> <<>>]
Blank == [k \in 0..(ScanChunk - 1) |-> "other"]

PageOf(u) == u \div PageSize
Committed(u) == u < End /\ page[PageOf(u)]

\* The block an object lies in, and the pages of its vtable pair.
BlockOf(a) == a..(a + Deadline + Word - 1)
PairOf(a) == (a..(a + Word - 1)) \cup ((a + Secondary)..(a + Secondary + Word - 1))
Holds(units, p) == \E u \in units : PageOf(u) = p

\* What snapshot_remote_module may make of an image: what cannot be read stays zero.
\* The names of the image stand in one such range, its vtables in another.
Readings(i) ==
    {[i EXCEPT !.bytes = bytes, !.words = words] :
        bytes \in {i.bytes, [k \in DOMAIN i.bytes |-> 0]},
        words \in {i.words, [k \in DOMAIN i.words |-> <<"data", 0>>]}}

ASSUME MemoryAssumption ==
    /\ Pages \in Nat /\ PageSize \in Nat \ {0} /\ Word \in Nat \ {0}
    /\ Private \subseteq 0..(Pages - 1) /\ Volatile \subseteq Private
    /\ Attempts \in Nat \ {0}
\* The vtable slots are words of their own, in front of the deadline, and a chunk is
\* longer than the two and what lies between them.
ASSUME ClassAssumption ==
    /\ Secondary \in Nat /\ Deadline \in Nat /\ ScanChunk \in Nat
    /\ Word <= Secondary /\ Secondary <= Deadline
    /\ Secondary + Word <= ScanChunk
\* Steam's allocator aligns a block to words, in private memory, where no other is.
ASSUME SlotsAssumption ==
    /\ Slots \subseteq Nat
    /\ \A a \in Slots :
          /\ a % Word = 0 /\ a + Deadline + Word <= End
          /\ \A u \in BlockOf(a) : PageOf(u) \in Private
    /\ \A a, b \in Slots : a # b => BlockOf(a) \cap BlockOf(b) = {}
\* The image is that of the code Steam runs: where it resolves to one layout, the
\* locator states the offset the compiler gave the secondary vtable.
ASSUME ImagesAssumption ==
    \A i \in Images :
        /\ IsImage(i)
        /\ \A read \in Readings(i) : Resolves(read) => Resolved(read).offset = Secondary

-----------------------------------------------------------------------------
(* What the host reads.                                                     *)

\* A slot is an "object", the "copy" a freed one leaves, "torn" once only its
\* vtables are left, or "none" of these.
Paired(a) == block[a] # "none"

Cell(u) ==
    IF \E a \in Slots : Paired(a) /\ u \in a..(a + Word - 1) THEN "primary"
    ELSE IF \E a \in Slots : Paired(a) /\ u \in (a + Secondary)..(a + Secondary + Word - 1)
    THEN "secondary" ELSE "other"

\* hid_thread_is_live: both vtable slots and a plausible deadline, all readable.
Live(a) ==
    /\ a \in Slots /\ block[a] \in {"object", "copy"}
    /\ \A u \in BlockOf(a) : Committed(u)

FieldsReadable(a) == \A u \in (a + Deadline)..(a + Deadline + Word - 1) : Committed(u)

\* VirtualQueryEx: a region begins with the page asked for and holds all that
\* follow of its kind.
SameKind(p, q) == (p \in Private <=> q \in Private) /\ page[p] = page[q]
RegionEnd(u) ==
    LET others == {p \in PageOf(u)..(Pages - 1) : ~SameKind(p, PageOf(u))}
    IN PageSize * Min(others \cup {Pages})

\* ReadProcessMemory: how much of a range there is before its first missing page.
Transferred(start, end) ==
    LET missing == {u \in start..(end - 1) : ~Committed(u)}
    IN Min(missing \cup {end}) - start

\* find_vtable_pairs on what was read at start, which is the first n cells.
FindVtablePairs(bytes, n, start) ==
    {start + o : o \in {o \in 0..(n - 1) :
        /\ (start + o) % Word = 0
        /\ o + layout + Word <= n
        /\ \A k \in 0..(Word - 1) :
              bytes[o + k] = "primary" /\ bytes[o + layout + k] = "secondary"}}

\* Only what the read delivered is looked at.
Delivered(transferred, length) == transferred

\* A pair that two chunks share is seen in the second.
Overlap == layout + Word - 1

NoOverlap(start, end, limit, transferred) ==
    LET next == IF transferred < end - start
                THEN ((start + transferred) \div PageSize + 1) * PageSize
                ELSE end
    IN IF next < limit THEN next ELSE End
RetryThePage(start, end, limit, transferred) ==
    LET next == IF transferred < end - start THEN start + transferred
                ELSE IF end >= limit THEN End
                ELSE Max({end - Overlap, start + 1})
    IN IF next < limit THEN next ELSE End

\* next_scan_start: behind what was read, or on the page after the one that could
\* not be; End is None.
NextScanStart(start, end, limit, transferred) ==
    LET next == IF transferred < end - start
                THEN ((start + transferred) \div PageSize + 1) * PageSize
                ELSE IF end >= limit THEN End
                ELSE Max({end - Overlap, start + 1})
    IN IF next < limit THEN next ELSE End

-----------------------------------------------------------------------------
Places == {"list", "snapshot", "resolve", "sweep", "query", "read", "retain", "sample",
           "watch", "validate", "fields", "write", "sleep", "done", "failed"}

\* Every variable has its type, and the host only reads inside the address space.
TypeOK ==
    /\ mode \in {"rescan", "check"}
    /\ pc \in Places
    /\ tries \in 0..Attempts
    /\ layout \in Nat
    /\ address \in 0..End /\ regionEnd \in 0..End
    /\ DOMAIN buffer = 0..(ScanChunk - 1)
    /\ hits \in SUBSET (0..End)
    /\ candidates \in SUBSET Slots
    /\ cut \in BOOLEAN
    /\ target \in Slots \cup {Nowhere}
    /\ pass \in 1..2
    /\ writes \in 0..2
    /\ page \in [0..(Pages - 1) -> BOOLEAN]
    /\ block \in [Slots -> {"object", "copy", "torn", "none"}]
    /\ throughout \in SUBSET Slots /\ paired \in SUBSET Slots /\ moved \in SUBSET Slots
    /\ fresh \in BOOLEAN

Init ==
    /\ mode \in {"rescan", "check"}
    /\ pc = "list"
    /\ tries = 0
    /\ image \in Images
    /\ layout = 0
    /\ address = 0 /\ regionEnd = 0
    /\ buffer = Blank
    /\ hits = {} /\ candidates = {}
    /\ cut = FALSE
    /\ target = Nowhere
    /\ pass = 1
    /\ writes = 0
    /\ page = [p \in 0..(Pages - 1) |-> TRUE]
    /\ block = [a \in Slots |-> "none"]
    /\ throughout = {} /\ paired = {} /\ moved = {}
    /\ fresh = FALSE

At(place) == pc = place
Goto(place) == pc' = place
Sweeping == pc \in {"query", "read", "retain"}

-----------------------------------------------------------------------------
(* Locating the module and resolving its layout.                            *)

resolveLeaves == <<mode, layout, address, regionEnd, buffer, hits, candidates, cut, target,
                   pass, writes, steamVars, historyVars>>

\* remote_module: a module list that changes underfoot is read again, so often.
ListChanges ==
    /\ At("list")
    /\ tries' = tries + 1
    /\ Goto(IF tries' = Attempts THEN "failed" ELSE "list")
    /\ image' = IF tries' = Attempts THEN NoImage ELSE image
    /\ UNCHANGED resolveLeaves

\* Steam has no such module, cannot be opened or reports an absurd size.
Unavailable ==
    /\ At("list")
    /\ Goto("failed")
    /\ image' = NoImage
    /\ UNCHANGED <<tries, resolveLeaves>>

Locate ==
    /\ At("list")
    /\ Goto("snapshot")
    /\ UNCHANGED <<tries, image, resolveLeaves>>

Snapshot ==
    /\ At("snapshot")
    /\ image' \in Readings(image)
    /\ Goto("resolve")
    /\ UNCHANGED <<tries, resolveLeaves>>

ResolveLayout ==
    /\ At("resolve")
    /\ IF Resolves(image)
       THEN Goto("sweep") /\ layout' = Resolved(image).offset /\ UNCHANGED image
       ELSE Goto("failed") /\ image' = NoImage /\ UNCHANGED layout
    /\ UNCHANGED <<mode, tries, address, regionEnd, buffer, hits, candidates, cut, target,
                   pass, writes, steamVars, historyVars>>

-----------------------------------------------------------------------------
(* find_live_hid_threads.                                                   *)

sweepLeaves == <<mode, tries, image, layout, target, pass, writes, steamVars, moved,
                 fresh>>

\* The snapshot is dropped.  Nothing of the heap was read so far, so it is drawn now.
BeginSweep ==
    /\ At("sweep")
    /\ Goto("query")
    /\ image' = NoImage
    /\ page' \in {p \in [0..(Pages - 1) -> BOOLEAN] : \A n \in 0..(Pages - 1) :
                     n \notin Volatile => p[n]}
    /\ block' \in {b \in [Slots -> {"object", "copy", "torn", "none"}] :
                     /\ \A a1, a2 \in Slots : b[a1] = "object" /\ b[a2] = "object" => a1 = a2
                     /\ \A a \in Slots : \A u \in BlockOf(a) :
                           \/ page'[PageOf(u)]
                           \/ b[a] # "object" /\ (u \in PairOf(a) => b[a] = "none")}
    /\ throughout' = {a \in Slots : Live(a)'}
    /\ paired' = {a \in Slots : Paired(a)'}
    /\ UNCHANGED <<mode, tries, layout, address, regionEnd, buffer, hits, candidates, cut,
                   target, pass, writes, moved, fresh>>

\* Regions that are not readable private memory are passed over.  The sweep ends behind
\* the last, or at one the query does not tell of, or not where it ends.
QueryRegion ==
    /\ At("query")
    /\ \/ /\ Goto("retain")
          /\ cut' = (address < End)
          /\ buffer' = Blank
          /\ UNCHANGED <<address, regionEnd>>
       \/ /\ address < End
          /\ regionEnd' = RegionEnd(address)
          /\ IF page[PageOf(address)] /\ PageOf(address) \in Private
             THEN Goto("read") /\ UNCHANGED address
             ELSE Goto("query") /\ address' = regionEnd'
          /\ UNCHANGED <<buffer, cut>>
    /\ UNCHANGED <<hits, candidates, throughout, paired, sweepLeaves>>

\* One chunk is read and searched; then the next of the region, or the next region.
ReadChunk ==
    /\ At("read")
    /\ LET end == Min({address + ScanChunk, regionEnd})
           n == Transferred(address, end)
           next == NextScanStart(address, end, regionEnd, n)
       IN /\ buffer' = [k \in DOMAIN buffer |-> IF k < n THEN Cell(address + k) ELSE buffer[k]]
          /\ hits' = hits \cup FindVtablePairs(buffer', Delivered(n, end - address), address)
          /\ IF next = End THEN Goto("query") /\ address' = regionEnd
             ELSE Goto("read") /\ address' = next
    /\ UNCHANGED <<regionEnd, candidates, cut, throughout, paired, sweepLeaves>>

\* retain validates the pairs one at a time, lowest first.
Retain ==
    /\ At("retain") /\ hits # {}
    /\ LET a == Min(hits)
       IN /\ candidates' = IF Live(a) THEN candidates \cup {a} ELSE candidates
          /\ hits' = hits \ {a}
    /\ UNCHANGED <<pc, address, regionEnd, buffer, cut, throughout, paired, sweepLeaves>>

\* find_remote_hid_thread: one candidate is the object, none is a failure, and of
\* several the first sample is taken before Steam is nudged.
Choose ==
    /\ At("retain") /\ hits = {}
    /\ UNCHANGED <<mode, tries, image, layout, regionEnd, buffer, hits, pass, writes,
                   steamVars, candidates>>
    /\ address' = 0 /\ cut' = FALSE /\ throughout' = {} /\ paired' = {} /\ moved' = {}
    /\ \/ /\ candidates = {}
          /\ Goto("failed") /\ UNCHANGED <<target, fresh>>
       \/ /\ Cardinality(candidates) > 1
          /\ Goto(IF \A a \in candidates : FieldsReadable(a) THEN "watch" ELSE "failed")
          /\ UNCHANGED <<target, fresh>>
       \/ \E a \in Slots :
             /\ candidates = {a}
             /\ target' = a
             /\ IF mode = "check" THEN Goto("done") /\ UNCHANGED fresh
                ELSE Goto("validate") /\ fresh' = Live(a)

-----------------------------------------------------------------------------
(* elect_running_hid_thread.                                                *)

electLeaves == <<mode, tries, image, layout, address, regionEnd, buffer, hits, pass, writes,
                 candidates, cut, steamVars, throughout, paired>>

\* A later sample: an unreadable candidate abandons, a single one that moved wins.
Sample ==
    /\ At("watch")
    /\ IF \E a \in candidates : ~FieldsReadable(a)
       THEN Goto("failed") /\ UNCHANGED <<target, fresh, moved>>
       ELSE /\ Cardinality(moved \cap candidates) = 1
            /\ target' = CHOOSE a \in moved \cap candidates : TRUE
            /\ moved' = {}
            /\ IF mode = "check" THEN Goto("done") /\ UNCHANGED fresh
               ELSE Goto("validate") /\ fresh' = Live(target')
    /\ UNCHANGED electLeaves

WindowCloses ==
    /\ At("watch")
    /\ Goto("failed")
    /\ UNCHANGED <<target, fresh, moved, electLeaves>>

-----------------------------------------------------------------------------
(* request_internal_scan, twice.                                            *)

requestLeaves == <<mode, tries, image, layout, address, regionEnd, buffer, hits, candidates,
                   cut, target, throughout, paired, moved, steamVars>>

\* The object is validated anew for every request.
OnlyTheFirstTime == pass = 2 \/ Live(target)
Revalidated == Live(target)
Validate ==
    /\ At("validate")
    /\ Goto(IF Revalidated THEN "fields" ELSE "failed")
    /\ UNCHANGED <<pass, writes, fresh, requestLeaves>>

\* The previous deadline and the counter are read for the caller.
ReadFields ==
    /\ At("fields")
    /\ Goto(IF FieldsReadable(target) THEN "write" ELSE "failed")
    /\ UNCHANGED <<pass, writes, fresh, requestLeaves>>

WriteOrNot ==
    /\ At("write")
    /\ writes' = IF FieldsReadable(target) THEN writes + 1 ELSE writes
    /\ Goto("sleep")
    /\ UNCHANGED <<pass, fresh, requestLeaves>>
WriteDeadline ==
    /\ At("write")
    /\ IF FieldsReadable(target)
       THEN writes' = writes + 1 /\ Goto("sleep")
       ELSE UNCHANGED writes /\ Goto("failed")
    /\ UNCHANGED <<pass, fresh, requestLeaves>>

\* SECOND_DISCOVERY_DELAY: Steam's cleanup of zombies runs before the second request.
Wake ==
    /\ At("sleep")
    /\ IF pass = 2 THEN Goto("done") /\ UNCHANGED <<pass, fresh>>
       ELSE Goto("validate") /\ pass' = 2 /\ fresh' = Live(target)
    /\ UNCHANGED <<writes, requestLeaves>>

-----------------------------------------------------------------------------
(* Steam, from the time the host looks at its heap.                         *)

Looking == pc \in {"query", "read", "retain", "watch", "validate", "fields", "write", "sleep"}

\* What the host would have seen of a change, "fields" being the slots whose
\* scheduler fields it touched.
Observed(fields) ==
    /\ UNCHANGED hostVars
    /\ throughout' = IF Sweeping THEN {a \in throughout : Live(a)'} ELSE {}
    /\ paired' = IF Sweeping THEN paired \cup {a \in Slots : Paired(a)'} ELSE {}
    /\ moved' = IF At("watch") THEN moved \cup fields ELSE {}
    /\ fresh' = (fresh \/ Live(target)')

BuildThread(a) ==
    /\ Looking
    /\ \A b \in Slots : block[b] # "object"
    /\ \A u \in BlockOf(a) : Committed(u)
    /\ block' = [block EXCEPT ![a] = "object"]
    /\ UNCHANGED page
    /\ Observed({a})

\* A freed block goes on looking like the object.
DestroyThread(a) ==
    /\ Looking
    /\ block[a] = "object"
    /\ block' = [block EXCEPT ![a] = "copy"]
    /\ UNCHANGED page
    /\ Observed({})

\* The allocator hands the block out again and it is overwritten bit by bit.
ReuseBlock(a) ==
    /\ Looking
    /\ \/ block[a] = "copy" /\ block' = [block EXCEPT ![a] = "torn"]
       \/ block[a] = "torn" /\ block' = [block EXCEPT ![a] = "none"]
    /\ UNCHANGED page
    /\ Observed({a})

\* The running thread takes a request, or schedules its next discovery.
Reschedule(a) ==
    /\ Looking
    /\ block[a] = "object"
    /\ UNCHANGED steamVars
    /\ Observed({a})

\* A page without a live object is given back, with what stood in it, or taken anew.
Decommit(p) ==
    /\ Looking
    /\ page[p]
    /\ \A a \in Slots : Holds(BlockOf(a), p) => block[a] # "object"
    /\ page' = [page EXCEPT ![p] = FALSE]
    /\ block' = [a \in Slots |-> IF Holds(PairOf(a), p) THEN "none" ELSE block[a]]
    /\ Observed({a \in Slots : Holds(BlockOf(a), p)})

Commit(p) ==
    /\ Looking
    /\ ~page[p]
    /\ page' = [page EXCEPT ![p] = TRUE]
    /\ UNCHANGED block
    /\ Observed({})

-----------------------------------------------------------------------------
Resolving == ListChanges \/ Unavailable \/ Locate \/ Snapshot \/ ResolveLayout
Sweep == BeginSweep \/ QueryRegion \/ ReadChunk \/ Retain \/ Choose
Elect == Sample \/ WindowCloses
Request == Validate \/ ReadFields \/ WriteDeadline \/ Wake
Host == Resolving \/ Sweep \/ Elect \/ Request

Steam ==
    \/ \E a \in Slots : BuildThread(a) \/ DestroyThread(a) \/ ReuseBlock(a) \/ Reschedule(a)
    \/ \E p \in Volatile : Decommit(p) \/ Commit(p)

Next == Host \/ Steam

\* The host's own thread runs; it depends on no answer of Steam's.
Spec == Init /\ [][Next]_vars /\ WF_vars(Host)

-----------------------------------------------------------------------------
(* Properties.                                                              *)

\* What the host proceeds on is proven by its snapshot: the class name, compared
\* byte by byte at every place, stands there exactly once, one vtable of it is the
\* primary, and one method behind a secondary vtable has the scheduler's semantics.
LayoutIsProven ==
    At("sweep") =>
        /\ Cardinality({i \in 1..(Len(image.bytes) - Len(RttiName) + 1) :
                           SubSeq(image.bytes, i, i + Len(RttiName) - 1) = RttiName}) = 1
        /\ Cardinality({i \in 2..Len(image.words) :
              /\ image.words[i][1] = "code" /\ image.words[i - 1][1] = "ref"
              /\ LET l == image.words[i - 1][2]
                 IN l \in 1..(Len(image.words) - 1) /\ image.words[l] = <<"locator", 0>>}) = 1
        /\ Cardinality(SchedulerLayouts(image)) = 1

\* A pair the sweep reports stood there at some time during it: what an earlier,
\* larger read left in the buffer never makes one up.
NoPhantomPair == Sweeping => hits \subseteq paired

\* Wherever chunks, regions and missing pages cut the heap, an object that passes
\* for live throughout the sweep is among the candidates at its end, unless the sweep
\* was cut off in front of it.
LiveThroughoutIsFound ==
    At("retain") =>
        \A a \in throughout : a \in hits \cup candidates \/ (cut /\ a >= address)

\* The sweep is exact where it can be: it finds what was there all along, and makes up
\* nothing that never was.
SweepIsExact == NoPhantomPair /\ LiveThroughoutIsFound

\* The address written to passed for Steam's object at some time since this very
\* request was begun: no request rests on the validation of the one before it.
WriteIsFresh == [][writes' # writes => fresh]_vars

\* A rescan that reports success wrote two requests, a dry run writes nothing
\* whatever its outcome, and a failure leaves at most one of the two behind.
RecoveryIsTwoRequests ==
    /\ At("done") => writes = (IF mode = "rescan" THEN 2 ELSE 0)
    /\ At("failed") => writes < 2
    /\ mode = "check" => writes = 0

\* The host's call returns, however Steam's heap changes under its sweep.
RescanReturns == <>(pc \in {"done", "failed"})

\* Each step of the sweep gets on: it asks or reads further up, or does the other of
\* the two.  What a chunk delivered is behind it, whatever the memory turns into.
SweepAdvances ==
    [][/\ QueryRegion => address' > address \/ pc' \in {"read", "retain"}
       /\ ReadChunk => address' > address]_vars

\* A request never lands in memory that Steam has handed to somebody else.
NothingElseIsWritten == [][writes' # writes => Live(target)]_vars

================================================================================
