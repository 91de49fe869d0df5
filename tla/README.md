# A verification of steam-input-lease

`steam-input-lease` takes Steam's controllers away from Steam for as long as a
program holds a lease, and gives them back.  A payload DLL inside the Steam
process hooks the calls by which Steam opens and uses HID devices; host programs
talk to it over a named pipe, and a lease is an open connection of that pipe.

This directory holds TLA+ models of the payload, of the host library and of the
launcher, TLC configurations that check
them on small instances, and theorems about them that TLAPS checks for every
value of the constants.  All source lines below are relative to
`crates/steam-input-gate/src/lib.rs` unless another file is named.

Run everything from this directory:

    tlc -workers 2 -config MCGateOwnership.cfg MCGateOwnership
    tlapm GateOwnershipProofs.tla

`PROJECT.json` lists the runs, the source lines of every definition (`map`), for
every property one plausible fault of the code that breaks it (`mutants`), the
disagreements between code and documents that the runs show (`findings`), and
the hazards of the code (`hazards`).

## The system

| Part | State it keeps | Operations | Modelled by |
| --- | --- | --- | --- |
| Pipe workers (`client_thread`, 1949–2069) | `LEASE_COUNT`, `PASS_THROUGH_COUNT`, the mutex `OWNERSHIP_TRANSITION`, the remembered hook installation | acquire a lease or a pass-through claim, query, release, end of file | `LeaseGate`, `GateOwnership` |
| Controller rescan and timer thread (1769–1935) | the timer's deadline and its started flag, Steam's own discovery deadline | first request, arm, wait, second request | `GateRecovery` |
| Detours and gated exports (695–1003, `proxy.rs`) | none of their own | ask `blocking()`, then deny or forward | `GateDetours` |
| Handle table (357–517) | 4096 slots, a count of HID entries | look up, remember, forget | `HandleMap`, `HandleTable` |
| Revocation sweep and handle bookkeeping (590–610, 695–955, 1265–1463) | the close barrier, the sweep's locals, the handle table | list, pin, classify, verify, close; open, I/O, close by Steam | `HandleRevocation` |
| Recovery resolution (297–307, 1546–1748) | cached layout and address, attempt budgets, a running flag | poll, warm up, resolve, validate, elect, drop, reset | `RecoveryResolution` |
| Load, pinning and proxy forwarding (2517–2582, `proxy.rs` 101–267) | cached targets, a ready flag, own module handle | attach, pin, initialise forwarding | `PayloadStart` |
| Pipe server (2383–2510) | consecutive failures | create the pipe, connect, start a worker | `PayloadStart` |
| Connecting and injecting (`steam-input-lease/src/lib.rs` 550–592, 1236–1410) | a remote thread and a remote string | probe, check residency, inject, wait, connect | `PayloadStart` |
| Leases of the host library (same file 418–445, 596–661, 752–758, 1210–1221, 1412–1456) | an open pipe per lease or claim | acquire, release, drop, recover | `HostLease`, with `GateOwnership` |
| Wrapped run (same file 470–490, 714–737, 1458–1661) | a process, a job object, a lease | start suspended, assign, resume, watch, abort, report | `Launcher`, `CommandLine` |
| Command line launcher (`steam-input-lease-cli/src/main.rs` 70–257) | none | parse; diagnose, run wrapped, or run without a lease | `CommandLine`, `Launcher` |
| Host-side recovery (`steam-input-lease/src/lib.rs` 855–1221) | a snapshot and one buffer | locate, snapshot, sweep, elect, write twice | `HostRecovery` |
| Analysis crate (`steam-input-recovery/src/lib.rs` 235–523, 549–992) | none | find the class in an image, pairs in memory, the one that moves | `LayoutResolution`, `HostRecovery` |
| Wire types (`steam-input-lease-core`) | none | commands and results | as small sets in `GateOwnership` |
| C ABI (`steam-input-lease-ffi` 205–249, 444–478, 533–569) | consumed handles | thin wrappers | what differs from Rust: `Drop` of `HostLease`, the library caller of `Launcher` |
| .NET binding; startup trace; test target, scripts, sample | diagnostics | – | not modelled, see the end |

How they interact: a client probes the pipe, injects the payload when nobody
answers, writes a request and waits.  A worker of the payload changes a counter
under the mutex, and when that turns `blocking()` on or off it visits Steam before
it gives the mutex back, sweeping Steam's handles or asking for a rediscovery.
The detours run on Steam's threads and read the same counters with no lock.  The
sweep, the open detours, the I/O detours and the close detour share the handle
table and, for closes, a barrier.  The timer thread is armed by a rescan and reads
the counters on its own.  A rescan, a status reply and the warm-up of the hooks all
look for the same object of Steam's, over caches they share without a lock.  When
a released payload says it cannot recover, the host looks for that object itself,
from outside.  A wrapped run holds a lease around a process tree.

What is hard in it: two counters that are read separately; an acquire, a sweep, a
rescan and a release of different clients in any order; a timer thread that
acts seconds after the decision that armed it; handle numbers that the kernel
reuses while the sweep still remembers them; an object that Steam frees, rebuilds
and leaves look-alikes of while it is being searched; a memory that changes between
two chunks of a sweep; a client that dies between a request and its answer; a DLL
that is unloaded while its own thread runs; steps that can fail half way (hook
installation, handle listing, thread creation, each step of a launch).

### What makes each part correct

* Ownership: counters count owners, Steam's state follows them, no visit is
  overtaken, every release gets through.
* Rescan: the second discovery of the last release happens.
* Detours: nothing is admitted while the gate is closed throughout.
* Table and sweep: one entry per handle, and the sweep closes only HID objects, and
  every one it listed unless a call of the kernel fails at that very entry.
* Resolution: an answer belongs to its own search, recovery does not pay for what
  polls spent, polls do not pile up work.
* Start: running code stays mapped, a released bootstrap block means a complete
  table, no second copy of a resident payload that was seen.
* Leases of a host: who believes in a lease is counted; recovery is left to somebody.
* Wrapped run: at most one execution, never an unwatched tree without its lease, the
  words and the environment that were asked for.
* Host recovery: it proceeds on what is proven, the sweep misses nothing that stays,
  as far as its region queries get, and invents nothing, and every request rests on a
  validation of its own.

## The modules

### LeaseGate: what the payload promises

Clients own leases and pass-throughs; Steam is to be kept away while there is a
lease and no pass-through; and every change of that condition is followed by one
visit to Steam before ownership can change again.  No counters, no mutex.

### GateOwnership: the pipe workers

Each worker is one connection.  Its places are those of `client_thread`: the
first read, `ensure_hooks_installed`, the acquire, the visit to Steam with the
mutex held, the response, the second read, the release, its own visit, the
second response, and the end.

| Variable | Code |
| --- | --- |
| `leaseCount`, `passCount` | `LEASE_COUNT`, `PASS_THROUGH_COUNT` |
| `transition` | `OWNERSHIP_TRANSITION`: the worker that holds it between steps |
| `hooks` | `STATE` of `ensure_hooks_installed` |
| `owns`, `request`, `result`, `pc` | the locals and the position of `client_thread` |
| `steam` | what was last done to Steam: `free` after a rescan, `revoked` after a sweep, `unswept` after a sweep that could list no handles |

A critical section that makes no visit is one step.  Inside the mutex both loads
of `blocking()` see the same state, since only mutex holders write the counters.
An unexpected message, a query, and a refused acquire own nothing and end; an
owner's last read ends for a release, any other bytes and the end of file alike,
because all of them lower the counter the same way.  Abstracted: the sweep and
the rescan are single steps here (HandleRevocation and GateRecovery take them
apart); the fields of a response other than its result; and the attempt counters
that a sweep resets, which belong to recovery resolution.

Properties: `CountsMatchOwners`, `SteamMatchesGate`, `DetoursBeforeBlocking`,
`OwnersAnsweredAfterSweep`, `ReleaseCompletes`, and `GateSpec`, the refinement of
LeaseGate; `VisitsAreNotOvertaken`, part of the refinement, is proved by itself.  `OwnersAnsweredAfterSweep` is worded
with care: a second owner may come to its response while the sweep of a
pass-through's release is pending, so what holds is that some other worker is
about to sweep.

### GateRecovery: the rescan and the timer thread

Extends GateOwnership and replaces its step `Notify` by the steps of
`notify_controller_rescan`: the first request, starting the timer thread or
failing to, arming the deadline, or sleeping and asking again on the worker.
The timer thread's loop is a step per hold of the timer's mutex, then the two
loads of `blocking()`, then the request.  A spurious wake-up of the condition
variable only repeats `TimerCheck` and is left out.  Whether a request finds
Steam's HID thread is a free choice; the passing of 2.2 s is one step that makes
the deadline due.  `owed` is a history variable: a first request has been made
and no second one.

Properties: `SecondDiscoveryNeverLost`, `SecondDiscoveryHappens`, and that the
finer module implements GateOwnership's `Spec`, fairness included: however the rescan goes, the worker that makes it
gets through.

### GateDetours: Steam's threads at the gate

Extends GateOwnership with callers that are inside a gated call.  `blocking()` is
two loads with any number of workers' steps between them; `seen` remembers the
values that `blocking()` really had during the call.

`AdmittedOnlyWhenOpen`: a call reaches the real function only if blocking was
off at some instant of it.  Hence, once a lease has been answered, no call that
begins later gets through.  The converse does not hold (see the findings).

### HandleMap and HandleTable: the classifications

HandleMap is a map from handle numbers to `Hid`, `Other` or `Unknown` in which
recording an unknown handle may fail.  HandleTable is the code's open addressing:
a scan ends at the first empty slot or after `ProbeLimit` probes, an insert
prefers an existing entry, then the first tombstone or empty slot of the scan,
and a removal leaves a tombstone.  A use of the lock is one step, so forgetting
is two: the read that finds the entry and the write that removes it, between
which the table may change.

Properties: `OneEntryPerKey`, `HidCountExact`, and `MapSpec`, the refinement of
HandleMap; `EntriesAreFound` (no entry lies behind an empty slot of its scan) is
proved by itself.

### HandleRevocation: the sweep against Steam's threads

A handle is a number that the kernel may give out again as soon as it is closed;
an object is what it stands for.  Steam's threads open objects (by HID paths,
which the detour checks and records, or otherwise), use them (`should_deny` with
its lookup, probe and record) and close them (the detour, under the barrier).
The worker lists the handles, pins each entry, classifies it outside the
barrier, and closes what is still the same HID object.  The table is HandleMap,
which HandleTable implements.  Steam is assumed to use its handles legally; it
closes an object once and never while another of its threads uses it.

Each hold of the barrier is modelled as the code takes it: the close detour holds
it for reading over `CloseForgets` and `CloseHandle`, the sweep for writing over
`Verify`, `SweepForgets` and `SweepCloses`.  `Pin` holds it over a duplicate and
a comparison that cannot differ while it is held, and is one step.

Each call about an entry may fail, and the sweep goes on to the next one: the
duplicate (`Pin`), the query of its type (`is_file_object` in `Classify`, until the
number of File is known), the probe (`GetFileType` or `HidD_GetAttributes`, `Probed`),
and the close (`SweepCloses`), after which the handle is still open but has left the table.  The
probe of an I/O detour may fail the same way.  `failed` is a history variable: the
entries for which a call of this sweep failed.  Left out: the numbers that the
duplicates themselves take, pending I/O and its cancellation, handles closed without
`NtClose`, and a release by way of a pass-through (the same sweep).

Properties: `SweepClosesWhatItProbed` and `ListedHidsAreClosed`.  The second says that
a listed HID handle outlives the sweep only if a call failed at its own entry: the
failure of another entry, which may have been the one to teach the type number, costs
it nothing, nor does a number that is recycled meanwhile.  It has the condition that
the sweep learned the right type number for File, because it can learn a wrong one.
That a failed call leaves the handle open although the acquire is answered is among the
findings.

### RecoveryResolution: finding Steam's HID thread from inside

Any number of threads resolve at once: the ones that status replies start, the
warm-up after the hooks went in, and the workers and the timer that ask for a
rescan.  `layout`, `cached`, `attempts` and `resolving` are `RECOVERY_LAYOUT`,
`HID_THREAD_ADDRESS`, the two attempt counters and `CAPABILITY_RESOLUTION_RUNNING`;
every access to one of them is a step, since the code takes no lock.

An address is a model value.  Of an object only two facts are kept: whether it passes
`hid_thread_is_live` (it is in `alike`) and whether its scheduler fields changed
since an observer first sampled them (`moved`).  A freed block stays alike until
the allocator hands it out again.  The sweep is one observation over time: it finds
everything that was alike throughout and nothing that is not alike at its end.
The election is an observation in which exactly one candidate has moved.

Properties: `AnswerWasAlike`, `RecoveryNeverRefused`, `PollsAreBounded`,
`OneBackgroundSweep`, `ResolutionEnds`.

### HostLease: the programs that own leases

Extends GateOwnership: client `w` talks to worker `w`, and the payload's steps are
GateOwnership's with what they read and write.  `wire` and `answer` are the pipe's two
directions, `open` the client's end.  A response is filled in after the mutex has
been given back, from a second load of the counter and of the capability, and
`Lease::release` decides on its strength whether to recover by itself.  A program
may drop its lease, lose the pipe, or crash at any point; what it wrote before can
still be read.  Whether a rescan finds Steam's thread is a free choice here.
`TargetIsSteam` is `target_is_steam`, which the target's name decides for all clients:
in another target a release needs no recovery, and `RecoveryNotForgotten` says nothing.
`unasked` (blocking ended and nobody asked Steam to look again) and `abrupt` (a
lease ended without a release) are history variables.

Properties: `HolderIsCounted`, `ReportedReleaseIsDone`, `RecoveryNotForgotten`,
`ClosedPipeReleases`.

### PayloadStart: attach, pin, forward, serve; connect or inject

An image is a file the loader can map; `DllMain` runs under the loader lock and is
one step that records the handle, pins, and starts the worker, where pin and worker
can fail.  Steam loads and unloads proxies as it likes.  The worker of a proxy
caches the exports of the real system DLL, publishes the table when nothing
required is missing, and then serves the pipe with its budget of consecutive
failures.  A client probes, checks whether a payload is resident, injects it by a
remote thread whose wait may end before the thread does, and connects.  The residency
check may miss a payload that is there: `remote_module` answers nothing when its
snapshots fail, and a file name that is not UTF-8 is not looked for.  The history
variables `overlap` and `missed` remember two injections at once and the clients whose
check missed a payload.  The pipe is
named after Steam's process, so any image's server answers for it.  What the real
DLL exports (`present`) is drawn at the start.

Properties: `WorkerNeverUnmapped`, `ReadyIsComplete`, `RetiresOnlyWhenPersistent`,
`PathOutlivesReader`, `SecondImageHasACause`, `ServerComesBack`.  Two payloads are mapped
only after two injections overlapped, or when the client that loaded one of the two had
missed the other.

### CommandLine and Launcher: a program run under a lease

CommandLine is pure: `parse`, the quoting of the wrapped command, the exclusion in the
child's environment, whose name is compared without regard to ASCII case
(`EqIgnoreAsciiCase`; it is three letters long here), and, as the reference the quoting is checked against, the
rules of `CommandLineToArgvW` (external).  A word is a sequence of `Characters`, and
an option of the launcher is one character, so that a word of the wrapped program
may look exactly like an option.  `Blank` stands for all white space that is quoted.
`Escape` is one turn of the loop in `quote_argument`, `Read` what the reader makes of
one unit; both hold back a run of backslashes until it is known what follows it.  The
program's own name is read by other rules, in which a backslash escapes nothing.  They
give back the name only if it has no quote and, when it is quoted, does not end in a
backslash; `CreateProcessW` finds no file by such a name (`NamesFile`, external), and
so `Create` starts nothing for one.

Launcher takes every step of `run_wrapped` and `launch_and_wait`: connection, suspended
creation, job object, assignment, resume, watching, exit code, the abort of a tree
that cannot be watched any more (through the job, through its last handle, or the
root alone), the release, and what the caller does with the answer: the launcher
starts the command again without a lease, a user of the library starts it himself.
Each can fail where the code checks for it.  The program spawns and exits freely, and
Steam may end under it.  Connection and release handshake only succeed or fail here.

Properties: `RunsAtMostOnce`, `LeaseCoversTree`, `StartedAsAsked`, `SuccessIsReal`,
`RunEnds`.

### LayoutResolution and HostRecovery: finding Steam's HID thread from outside

LayoutResolution is pure: the word-at-a-time byte search with its borrows and its
re-test, locators, vtables, the scheduler's instruction pattern, and the demand that
each step leaves one possibility.  Bytes and machine words are scaled (`LaneBits`,
`Lanes`); an image comes with its words and instructions decoded.

HostRecovery reads another process: the module list that may change underfoot, the
snapshot with what could not be read left zero, the sweep region by region and chunk
by chunk into one buffer that keeps what an earlier read left in it, the overlap of
chunks, the election, and two requests, each after a validation of its own.  Steam's
memory is a row of units on pages that come and go, with objects, freed copies, and
copies half overwritten.  One chunk is read at one instant.  A region query may fail
anywhere, which ends the sweep (`cut`): what was found before goes to the election.  Nothing of the heap is
read before the sweep, so it is drawn when the sweep begins.

Properties: `LayoutIsProven`, `SweepIsExact`, `WriteIsFresh`, `RecoveryIsTwoRequests`,
`RescanReturns`.

## The runs

| Run | Instance | Distinct states (about) | Shows |
| --- | --- | --- | --- |
| `MCGateOwnership` | 3 connections, all commands | 19 000 | ownership is exact, nothing is overtaken, releases get through, LeaseGate is implemented |
| `MCGateRecovery` | 3 leases | 50 000 | the second discovery happens; the finer rescan implements GateOwnership |
| `MCGateDetours` | 3 owners, 2 callers | 91 000 | nothing gets through the closed gate |
| `MCHandleTable` | 3 slots, 2 probes, 4 colliding handles, 2 threads | 3 800 | the table is a map |
| `MCHandleRevocation` | 2 numbers, 4 objects, 2 threads | 7 000 000 | the sweep is precise, and complete but for the entries whose calls fail |
| `MCRecoveryResolution` | 2 addresses, 2 polls, 1 recovery, one attempt of each kind | 670 000 | answers are fresh, budgets hold, the running flag comes back |
| `MCHostLease` | 2 leases, 1 pass-through | 140 000 | who holds is counted, who releases is told the truth, closed pipes release |
| `MCPayloadStart` | 1 proxy, 2 clients with a payload file each, 1 required and 1 optional export, 2 failures | 690 000 | code stays mapped, tables are complete, payloads are not doubled without a cause |
| `MCLauncher` | every vector of up to 3 words and two longer ones, every library argument of up to 3 characters, two program names that no file has, 7 environment entries, 2 descendants | 120 000 | the program runs at most once, as it was asked to |
| `MCHostRecovery` | 7 pages of 4 units, chunks of 8, 2 places for the object, 2 attempts, every image of a small set | 56 000 | the sweep is exact, requests are fresh, the call returns |
| `MCSecondDiscoveryLost` | 3 connections, all commands | stops at a violation | see "Findings" |
| `MCStaleCopy` | as `MCRecoveryResolution` | stops at a violation | see "Findings" |

Why these bounds are enough to be interesting.

* Ownership needs a lease, a claim that overrides it, and a third owner whose edge
  falls inside somebody's visit; the theorems cover any number.
* The timer needs two releases that arm it and a lease in between; claims are left
  out of that run because with them the second discovery really can be lost
  (`MCSecondDiscoveryLost`).
* A torn read needs a lease and a claim that both end between the two loads, and one
  more to tell a late edge from an early one.
* A table of three slots with two probes has wrap-around, tombstones before and after
  an entry, and a full window.
* Two handle numbers with four objects give every order of recycling, including a
  number recycled between the listing and the pin while another entry follows.
* Two addresses give a live object and a freed copy of it, in either order; two polls
  and a recovery give every race for the cache and the flag.  The warm-up is left
  out of the run (it is a poll without the flag); `PollsAreBounded` has its term.
* Two leases and a pass-through give a release under a claim, a release with another
  lease left, and a claim that ends last.
* Two clients with a payload file each are two copies of one name.  Two failures of
  the pipe's creation tell consecutive ones from others.
* Three characters among blank, quote, backslash and a letter give every run of
  backslashes that matters; two descendants outlive the root and each other.  The
  environment has the exclusion in three spellings, a longer and a shorter name and one
  with its letters in another order.
* Chunks of two pages that overlap, a place for the object that lies across two chunks
  and three pages and another behind it, volatile pages under both and between them,
  give short reads, regions that end in a chunk and pages that go while they are read.
  The bytes of the images range over all rows of four with one good vtable section,
  the vtable sections over all rows of four words with one name.

Workers, threads, handle numbers and objects of a kind are interchangeable and are
declared symmetric in the runs that check safety only.

Deadlock is checked except in `MCLauncher` and `MCHostRecovery`, whose systems really
end: the run is over, the call has returned.  `AllDone` in GateOwnership and
`HostDone` in HostLease stutter when every connection has come and gone.

The type invariants of all modules that TLC runs are proved as theorems and not
repeated in runs.

## Fairness

* GateOwnership and what extends it: weak fairness of every worker's steps except its
  two reads: a thread that can run does run, and the mutex is given back by every
  visit.  Nothing obliges a client to send anything, so `ReadRequest` and
  `ReadRelease` are not fair.  Weak fairness of a worker that waits for the mutex
  is enough because a finite number of connections can only take it a finite
  number of times; for an unending stream of clients one would need the mutex
  itself to be fair, which `std::sync::Mutex` does not promise.
* GateRecovery: the timer thread and the passing of time as well; Steam's noticing a
  request is not.
* HostLease: the payload's steps, which include the read of a closed pipe; no client
  step.
* RecoveryResolution: the steps of a thread that resolves, and the outcome of starting
  one.  An election's window closes, so an election ends.
* PayloadStart: the servers' steps and the clients' (their waits have deadlines).  Steam
  and the remote thread are free; a connection may always fail.
* Launcher: the launching thread.  The program may run for ever, so the watch on it is
  left only when the tree has ended or a query fails.
* HostRecovery: the host's own thread.  Steam is free to change its memory at every step.

## What is proved

TLAPS checks, for any number of connections, callers, threads, handles, objects,
addresses, images and clients, any table size, probe limit, hash and failure limit,
and any memory that a host sweeps:

* `GateOwnershipProofs`.  `Inductive` is an inductive invariant
  (`InductiveHolds`), from which follow `TypeCorrect`, `CountsAreOwners`,
  `SteamFollowsGate`, `DetoursComeFirst`, `OwnersAreAnsweredAfterSweep` and
  `VisitsAreUndisturbed`.  `ImplementsLeaseGate` maps every step to a step of
  LeaseGate or a stutter.  The listed properties are not inductive by
  themselves: that Steam's state follows the counters when the mutex is free
  needs to know that the mutex is held exactly by the worker that visits Steam,
  that the visit is the one for the edge that just happened, and that counters
  count owners.  `CountsMatchOwners` carries the finiteness of the two sets of
  owners, so that no assumption on the set of workers is needed.
  In the same module, the three that extend GateOwnership.  For GateDetours,
  `AdmissionsAreJustified`: the invariant is that a call under way has seen the
  present value of `blocking()`.  A load of zero leases, or of a positive number of
  claims, then is by itself a moment without blocking.  `DetoursObserveOwnership`:
  the calls change nothing of ownership, so its theorems hold beside them.  For
  GateRecovery, `RecoveryImplementsOwnership`: however the rescan is taken apart, each
  of its steps and of the timer thread's is one of the pipe workers or a stutter.
  `ArmedDeadlineIsServed` needs nothing but the two variables of the timer.
  `SecondDiscoveryIsKept` says of a release that owes Steam its second discovery where
  that debt is at any time.  By itself it is not inductive: the timer thread gives up
  after a load of the lease count, so one must know that it only does so on a lease
  that is still there or whose release is under way (`TakenForBlocking`), and that the
  steps of a rescan are those of the one worker that visits Steam
  (`PhaseIsTheVisitors`).  Its hypothesis is that nobody sends `AcquirePassThrough`;
  `MCSecondDiscoveryLost` shows that without it the theorem is false.
  For HostLease, `HostImplementsOwnership` carries the theorems about the payload over
  to the composition.  `HoldersAreCounted` needs that a granted answer on the wire
  belongs to an owner; `ReportedReleasesAreDone` that a release answer comes from a
  worker past its release; `RecoveriesAreNotForgotten` that an answer that tells of
  other leases was filled in while there were some, so that a client which was
  given it is not the last.  It is about Steam as the target (`TargetIsSteam`).
* `HandleTableProofs`.  `InductiveHolds` with `NoDuplicateEntries`,
  `NoHiddenEntries` and `HidCountIsExact`, and `ImplementsHandleMap`.  The
  argument is the one in the comment on `forget_handle`: no slot ever becomes
  empty again, so an early end of a scan hides nothing.
* `HandleRevocationProofs`.  `SweepIsPrecise`: while the sweep holds the barrier
  nobody is closing a handle, and an open handle keeps its number.
  `SweepIsComplete`: every listed HID handle that is still open is ahead of the
  sweep, or in its hands, or one of those at which a call failed, for as long as the
  learned type number is right.
* `RecoveryResolutionProofs`.  `AnswersWereAlike`, `SweepsDoNotPileUp`,
  `SteadyRecoveryFinds` and `PollsStayBounded`.  The invariant says what every place of
  a resolver has seen: a candidate was alike during the search, what stayed alike is in
  the sweep, a background thread that is not idle holds the flag, alone.  The bound of
  the polls is a count: the sweeps charged since the last reset, and the searches under
  way that have yet to be charged (`SweepsAreAccounted`).  The threads that can be
  between the check of the counter and its increment are the one background thread
  and the warm-ups (`FewSweepers`), which is where the bound's extra term comes from.
* `PayloadStartProofs`.  `WorkersStayMapped` (a worker implies a pin),
  `ReadyTablesAreComplete`, `RetirementIsPersistent` (the counter is the
  number of consecutive failures), `PathsOutliveReaders`, and `ResidentPayloadsAreKept`:
  without an overlap at most one client is between its check and the end of its remote
  thread, and while one is that missed nothing, no payload is mapped.
* `LauncherProofs`.  `ProgramRunsAtMostOnce`: before a resume nothing has run, and an
  error is only returned for a launch that has not run.  `LeaseCoversEveryTree`: the
  places after the watch are reached with an ended or a terminated tree, or an
  uncontained one.  `ReportedSuccessIsReal`.
  `RoundTrip`, for any program name that names a file and any words: the program reads
  the words that `quote_argument` was given.  The invariant of its loop
  (`IsReadBy`) relates the two halves: whatever has been written for the beginning of a
  word is read, inside a quotation, as some word, and that word with the backslashes
  that are still held back is the beginning (`QuotedStep`, one case for each kind of
  unit; `BackslashesRead` is the run before it).  `PlainIsRead` is the same for a word
  without quotes.  What is read of one part of a line and then of the next is read of
  the whole (`ReadsJoin`), so the line is followed word by word: behind the program
  stands a tail that reads as the words so far (`TailGrows`), and the reader ends the
  program where its name does (`LineRead`).
  `StartsAreAsAsked` is what a program gets.  `RunFollowsSeparator` says what `parse` did:
  nothing in front of the separator is a diagnostic or a separator unless an option
  claims it as its value.  `LeasedEnvironment` says that the filter keeps an entry
  exactly if it is not the exclusion, and `ExcludedSpellings` that these are its eight
  spellings and nothing else.  `Asked` keeps both for every root that has been
  started, and that only a valid command comes to `Create`.
* `InductionLemmas`.  Induction and recursion over the numbers, stated for sets
  (`Induction`, from the least element of the complement) and functions (`Recursion`: a
  recursive definition has a value), up to a bound as well; and the least of a set.
  Everything that is proved of a fold or a recursive function rests on these.
* `HostRecoveryProofs`, first of what LayoutResolution computes.  `SearchIsExact`, for bytes and machine words of any width and any
  haystack: what the comment in `for_each_byte` says, that the mask never misses a match
  and the re-test makes it exact.  A lane that holds the needle is zero after the
  exclusive or.  Whatever the lanes below it borrow, the subtraction of one from each
  lane leaves this one with its top bit set (`BorrowIsSeen`), and the lanes above it
  change no bit of it.  What a number has for digits (`Digits`) is a fact about a
  recursive function, proved by induction over the digits.  `OccurrencesAreExact` is
  the same of a whole name, `ResolvedIsProven` of an image: the primary vtables and the
  places where one stands are one to one.
  Then of the host.  `LayoutsAreProven`: the host begins its sweep only with an image
  that resolves, what a snapshot could not read included (`ReadingsAreImages`), and
  such an image is proven by what stands in it.  `SweepsAreExact`, for any page, chunk
  and word size, any place of the object and any coming and going of pages.  What it
  rests on is that nothing is passed (`NothingIsPassed`): an object that has been live
  throughout is found, or all of it is ahead, also when a failed query ends the sweep
  there, and the region that is read has it whole
  or not at all.  That a region never cuts a live block is `RegionHoldsBlock`; that a
  step of the sweep leaves only blocks behind it whose pair it has read is
  `NothingSkipped`, which is the arithmetic of `next_scan_start`: after a short read,
  at a region's end, and across the overlap of two chunks.  The other half is that the
  cells a read delivered are those of memory, so a pair among them stands there
  (`FoundIsPaired`), whatever an earlier read left behind them.  `WritesAreFresh` and
  `RescanWritesTwoRequests` follow from what each place of a request has seen and
  written.  `SweepsAdvance` is the part of `RescanReturns` that needs no fairness:
  every step of the sweep gets further up or turns from asking to reading, so it ends
  whatever Steam does.

Assumptions: `NoWorker` is not a worker; `Commands` and roles are commands; a probe
limit between one and the table's size; hashes that are slots; handle numbers other
than the two reserved keys; kinds of objects, of resolvers and of images that do not
overlap; finitely many addresses and warm-ups (`ensure_hooks_installed` starts one at
most); positive limits; at least one required export; `MaxKids` a number.  HostRecovery
assumes of Steam's memory what Windows and the compiler provide: an object's block is
aligned to words, lies in private memory and overlaps no other; its two vtable slots
are words of their own, in front of the deadline, and a chunk (1 MiB in the code) is
longer than what lies from the one to the other; and an image that resolves to one
layout states the offset that the compiler gave the running class, whose code it is.
A byte has at least two bits, so that a lane's top bit is not its lowest, and images
have bytes and words.  The launcher's words are sequences of `Characters`, of which white
space, the quote and the backslash are some (`CharactersAssumption`, `WordsAssumption`),
and the environment is a sequence of entries whose names are sequences of letters
(`EnvironmentAssumption`).  TLC evaluates each of them in the runs.

Only model-checked, and why:

* everything about liveness, fairness included (`ReleaseCompletes`,
  `SecondDiscoveryHappens`, `ClosedPipeReleases`, `ResolutionEnds`, `ServerComesBack`,
  `RunEnds`, `RescanReturns`, and the fairness parts of `GateSpec` and `Spec`): out of
  the prover's reach.

Every invariant and every action property that a run checks is stated by a theorem.

## Findings

Two are runs that TLC ends with a counterexample.

* `MCSecondDiscoveryLost`.  A torn read of `blocking()` makes the timer thread drop a
  second discovery that no release will arm again: the load of the lease count
  comes before a lease under a claim ends, that of the claims after the claim has
  ended too.
* `MCStaleCopy`.  A cached address that still validates is never put to the election.
  After Steam replaced its HID thread, the freed block is still alike, and a recovery
  sends its request there although the running object is elsewhere.

The following are definitions of the modules that the code violates, stated from a
document or comment.  They are kept next to the properties that do hold; a
configuration with one of them as its only invariant or property gives the
counterexample.

| Definition | What happens |
| --- | --- |
| `RevocationNeverSilent` (GateOwnership) | neither listing of handles works, and the acquire is answered Ok |
| `FailedInstallNeverAnswered` (GateOwnership) | `HookInstallFailed` is answered over the pipe, which the core crate's comment excludes |
| `NeverRediscoverWhileBlocking` (GateRecovery) | a lease is acquired between the timer thread's check and its request |
| `ListedHidsAreAlwaysClosed` (HandleRevocation) | a listed number is closed and recycled as a file before the sweep pins it; the comparison at 1423 compares the new object with itself, and the sweep learns the old entry's type number as that of File; or a duplicate, a type query, a probe or a close fails at the entry of a HID handle, which the sweep passes over, and the acquire is answered Ok |
| `NoHidOpenUnderLease` (HandleRevocation) | a HID open checked before the lease completes after the listing |
| `OnlyHidsAreDenied` (HandleRevocation) | the sweep closes a new HID handle before the open detour records it; the entry outlives the handle, and the next file of that number is denied its I/O |
| `ScheduledMeansAsked` (HostLease) | the response's capability is read after the rescan, so a rescan that found nothing may be reported as `Scheduled` |
| `NothingElseIsWritten` (HostRecovery) | the object is freed between its validation and the write (`steam-input-lease/src/lib.rs` 499–503 says the class identity is proven before a write) |

Smaller ones, which no definition states:

* A detour's torn read can deny a call although blocking was off for all of it: the
  converse of `AdmittedOnlyWhenOpen` fails.
* A classification made while a number was free can be recorded over that of a HID
  handle opened since, whose I/O then passes under a lease.
* Overlapping injections from two paths, or a resident proxy whose pipe is not up yet,
  can leave two images with counters of their own, whose servers both answer.  So can a
  residency check that missed the first: the snapshots of `remote_module` failed, or the
  payload's file name is not UTF-8 (`steam-input-lease/src/lib.rs` 565–568, 871–895).
* A region query that fails ends the host's sweep, and what it has found by then is
  elected from as if it were everything (`steam-input-recovery/src/lib.rs` 296).
* The search for the scheduler method (`MAX_VTABLE_METHODS`) runs past the end of the
  secondary vtable; a method with two pairs of fields counts as none without a word;
  a part of the snapshot that could not be read is zero, so a second copy of the
  name there is not seen.

## Not modelled

* The startup trace, the .NET binding, the test target, scripts, sample and packaging:
  no other part reads what they write, or they wrap what is modelled.
* The parsing of PE headers and the decoding of instructions: pure decoding of bytes;
  images come decoded.
* The assembly thunks of the proxy and the bootstrap block's waiting: PayloadStart
  shows that the table is complete when the block is released.
* The pipe's security descriptor, and SDL's refresh and the broadcast to Steam's
  windows: the operating system's and Steam's business.
* In the C ABI: null checks, the last-error text and the unwinding guards.
* Pending I/O in the sweep: `HidD_GetAttributes` may wait behind a synchronous read of
  another thread while the ownership mutex is held.  Whether that read ends is up
  to the device, so no property of the code alone decides it.
* In HandleRevocation also: the numbers that the duplicates themselves take, and
  handles closed without `NtClose`.
* A crash of the process that runs a wrapped tree.

What would come next: pending I/O with an assumption on the device, and with it the
liveness of a sweep; a composition of HostLease with RecoveryResolution in place
of the free choice of a rescan's outcome.
