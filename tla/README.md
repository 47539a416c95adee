# A TLA+ development for jab

jab is a JavaScript runtime: JavaScriptCore on top of the `abc` C library, with
an event loop (`pol`), Node-style sockets and timers (`net`, `dgram`), a
directory watcher (`fsw`), memory-mapped containers (`io`, `abc`), an index and
logs over mapped files (`pup`, `ulog`, `hunk`), git pack logs (`pack`) and a
module loader with its scripts built in (`require`). Everything that keeps state
across calls lives either in small JS bundles embedded in the C++ files or in
thin C glue. There is one thread. What makes the code hard is that user code
runs inside every callback and may call anything, that the garbage collector
runs finalizers when it likes, that the kernel reuses fd numbers and addresses
at once, and that processes share a cache directory and die.

The development holds one TLA+ module per component, the TLC configurations that
check it on small instances, and TLAPS proofs of the properties that matter most
for every instance.

## Inventory

| part | source | state | operations | hard because | correct when |
|---|---|---|---|---|---|
| event loop | `pol.cpp` | fd table, default handler, POL's pollers, sticky stop, running flag, exception stash | watch, more, unwatch, run, stop, init, routers | handlers re-enter everything, runs nest, throws cross C | an event reaches the handler registered for it, the first throw surfaces, the heap outlives the loop |
| timer wheel | `net.cpp` 369-394, `pol.cpp` | `TW`, `twId`, `twOn`, POL's single timer | setTimeout, setInterval, setImmediate, clear*, twTick | callbacks edit the wheel mid-tick, two roundings, one shared timer | every timer is woken for in time, fires once, stays dead |
| TCP socket | `net.cpp` 226-298 | write FIFO, four flags, interest mask, kernel buffers | _poll, _flush, _readEnd, _mask, write, end, destroy | user code in every event, kernel and peer between any two lines | bytes, then FIN, in order; closes when both sides are done; never sleeps with work left |
| server, connect, dgram | `net.cpp` 301-361 | `this.fd`, the registration in pol | listen, bind, accept and receive loops, close, connect, send | fd numbers are reused inside the loops | everybody keeps his registration and acts on his own file |
| mappings | `io.cpp` 530-735, `cont.cpp` 437-458 | `FILE_WANT_BUFS` slots, generations, pin counters | _mmap, _ram, _munmap, close, finalizers, sweep | finalizers run late, addresses and fds are reused | a live view is mapped, nothing leaks, counters are exact |
| directory watcher | `fsw.cpp` | `dirs`, `subs`, the watcher fd and Buf | watch, unwatch, stop, onoverflow, drain | two bounded queues, callbacks that stop or throw mid-batch | every change is reported, to the right directory, or a rescan is |
| modules, source pack | `require.cpp`, `jsrcpack.cpp` | memo, module cache, a cache directory on disk | require, resolve, packExtract | cycles, throws, deaths, races, process ids that come back | no half-built module; a complete directory or none |
| index | `pup.hpp`, `cont.cpp` 581-696 | run files and a memtable file, the handle that maps them, cursors that point into them | open, put, get, range, seek, next, commit, drop, close | pointers across sorts and commits, failures and deaths around a seal, a memtable file that outlives the handle | a map from keys to last values, of which only a death loses what was not sealed |
| logs | `ulog.hpp`, `hunk.hpp`, `cont.cpp` | write head shared by views, per-view clock and cursor; a booked file with its sidecar index | feed, next, seek*, build, open, append, close | shared heads, offsets at boundaries, death in an append or between a row and its sidecar entry | rows in order, searches exact, answered rows survive |
| pack log | `pack.hpp`, `cont.cpp` 145-270 | records, scratch, count, cursor, index entries | header, feed, finish, scan, resolve, next, seek | delta chains, 32-bit arithmetic, throws half way | every record resolves to what was fed |
| byte buffer | `buf.cpp`, `arg.cpp` | an array, two cursors | feed, take, shed, shift, splice, grow, read, write, ingest | moves within one array, views without copies | no byte lost, doubled or out of order |
| directory scan | `io.cpp` 312-500 | the scans on the C stack | readdir with callback directives | nested scans from the callback's own frame | exactly the entries asked for |
| heap, hash, hit | `heap.hpp`, `hash.hpp`, `hit.hpp` | an array | calls into `abc` templates | - | - |
| history | `weave.hpp`, `cfold.hpp` | none | calls into the fold library | - | - |
| lifecycle | `main.cpp` | the context | install, run, shutdown | order of teardown | the loop runs after the script |
| the rest | `codec`, `utf8`, `uri`, `zip`, `tok`, `igno`, `tty`, `ansi`, `console` | none | conversions, terminal output | - | - |

How they meet: sockets, servers, timers and `fsw` register with `pol`; `net`
owns pol's only timer through the wheel; containers, `pup` and `ulog` are views
over mappings; the ingest of a pack takes a Buf; `main` runs the script and then
`pol.run`.

## Modules

| module | models | state and actions |
|---|---|---|
| `Timers` | the wheel over pol's one timer | `tw`, `twId`, `twOn`, `timer` are the variables of the two bundles, `polLeft` is POL's heap entry; one action per global function, `twTick` cut at every callback (`Fire`, `Returns`, `Throws`, `TickEmpty`, `TickAgain`), `Advance` is the clock |
| `Socket` | one `Socket` | the fields of the class, the mask POL holds, and a kernel (`rx`, `tx`, FINs, reset); `_poll` is cut at every system call and every emit, the places where the kernel or user code can change what the next line sees |
| `Stream` | what a socket promises (abstract) | bytes accepted and sent, end, FIN, EOF, open |
| `MCSocket`, `MCLogs`, `MCIndex`, `MCRequire` | instances for TLC | which calls the program makes in which events; the size of each row; bounds on combinations (`CursorBound`, `LoaderBound`, see Runs) |
| `Net` | servers, datagram sockets, TCP sockets over one fd table | `file` is the kernel's table, `fdOf` is `this.fd`, `handler` is pol's table, `frame` the handler on the stack; the accept and receive loops are cut at every event |
| `Pol` | fd table, routers, trampolines, run / stop / init | a stack of frames (loops and handlers), so that handlers can run the loop again |
| `Maps` | mappings, finalizers, pin counters | wrappers with a state (new, live, dead, gone), the slot table with generations, the kernel's owner of every address |
| `Fsw` | the watcher | kernel watches and queue, the two Maps `dirs` and `subs` (as functions on wds: the order in which a rescan visits them is left open), and the handler cut at every drain, row and callback; `drainOther` is a drain of a number that is another file's by then; a watcher that was stopped may be opened again |
| `Kv` | what an index promises (abstract) | a map and the part of it that is saved; a step that is no death may not lose a row, and a death none that is saved |
| `Index` | `abc.index` on the kv64 lane | the files: `runs`, and the memtable's sorted `past` and raw `data`; the handle: `live`, `rw`; `cur`, the cursors, as positions in those files, read anew at every step. `close` unmaps and leaves the files; `crash` may hit anything, a seal before or after its run is in place, and leaves any of the memtable's rows; `putFails` and `commitFails` are the errors on the way |
| `Logs` | ULOG and HUNK containers, the booked log | bytes as cells of rows, the watermark all views share, per-view clock and cursor; of a booked log also the sidecar: its entries `idx` and its sentinel `flushed`; `die` tears an append, or comes between the row and its entry, `loseSidecar` takes the sidecar away |
| `Pack` | the pack log | records by offset with kind, base and object, header count, scratch, index entries |
| `Buf` | the byte buffer, the ingest | the array and the two cursors, one action per method; `run` is an ingest under way, cut at every call of its handler, which may call any method; instantiated by `Pack`, whose behaviours are about a pack log or about a Buf |
| `Require` | packExtract by several processes; require() in one | temporary and published directories with their files, one step per system call; the loader: bare names looked up along the jsrc stack, relative ones next to the module that asks, the memo by (baseDir, spec), the cache by path, the stack of modules being evaluated |
| `Readdir` | `io.readdir` | the stack of scans, what the callback answered, what was handed out |
| `Pol_proofs`, `Net_proofs`, `Require_proofs`, `Index_proofs`, `Logs_proofs`, `Pack_proofs` | TLAPS proofs about the module each is named after (`Buf` with `Pack`) | inductive invariants, lemmas, theorems |
| `Clients_proofs` | the proofs about the clients of the loop: `Socket`, `Timers`, `Fsw` | the same |
| `Files_proofs` | the proofs about `Maps` and `Readdir` | the same |

Modules that share a proof module have distinct names for what every module has:
`WheelInit`, `WheelNext`, `WheelSpec` in `Timers`, `FswInit`... in `Fsw`,
`ReaddirInit`... in `Readdir`.

Data is abstracted to what the properties tell apart: bytes of a socket are
counted, not named (every queue is a FIFO), those of a Buf numbered as they
enter; a timer is its creation rank (a JS `Map` iterates in insertion order);
time is relative to now; a mapping is an address; a value of the index is the
number of its put; an object of a pack is its size; a row of a log has as many
cells as its content says, so that an offset may fall inside one. Times keep the
two conversions of the code, `Math.ceil` in `twTick` and `| 0` in `twArm`, with
`MS` ticks to the millisecond so that both really round. Both `| 0`, that of
`twArm` and that of `Pack`, wrap at a width given by `MaxInt`.

What is outside the repository (`abc`, `dog`, JavaScriptCore, the kernel) is
modelled from how the code uses it and marked external:

- POL tracks fds and one timer, drops an fd whose callback answers 0 and a timer
  whose callback answers an hour or more, and its stop is sticky until POLInit;
  poll(2) reports a subset of the mask plus ERR, HUP and NVAL, and may report
  input that a recv then does not find.
- The engine may finalize a dead wrapper at any time, or never; a collection that
  is forced need not find all of them.
- The kernel gives the lowest free fd, and numbers the watches of a watcher from 1.
- The run stack of an index replaces its runs atomically (by rename) and merges
  some suffix of the youngest ones. Its memtable is a file in the same directory
  (cont.cpp:584-586) that a close leaves as it is, with its PAST and DATA; after a
  death each row of it is there whole or not at all, all of them in DATA. A page is
  collapsed in place before it is sealed; a put fails only after its row is in; a
  handle has `HIT_MAX_RUNS` cells, and a query past that cap throws.
- Draining what is not a whole row fails and does not move; ULOGOpen gives back
  everything up to the last newline. The sidecar of a booked log is trusted only if
  its sentinel names the end of the rows, and else rebuilt from them
  (test/ulog_book.js:52-63 removes it and reads on). No handle is used after it was
  closed.
- A delta applies only to the base it was made from; resolving needs scratch for
  the largest object of the chain; REPACKRun reads into IDLE, eats DATA and may
  drop PAST.
- Creating a file empties it; renaming onto a directory that is there fails;
  mkdir takes an existing one. The working directory is that of the user's own
  scripts; nobody deletes from the module cache but the loader.
- FILEScanDir delivers each entry once in any order, takes FILESKIP as "go on, do
  not descend" and returns any other code at once.

Some variables are history, marked so where they are declared. Some of them
delimit a property: `upset` (Timers), `broken` and `restarted` (Fsw), `meddled` and
`loose` (Pol), `meddled` (Buf), `raw` (Maps), `reused` (Net, Require), `moved` and
`gone` (Index), `stale` (Logs), `grown` (Pack). Each says that something happened
which the code does not survive; a property that reads "until then" is stated with
it, so that one run covers both the programs that behave and those that do not.
Where the program can recover, the history is cleared and the property holds again:
`broken` by `fsw.stop()`, `moved` and `gone` by a new seek or range, `stale` by a
rewind, `meddled` of a Buf by the end of the run. `said` (Pol) is what the handlers
of a loop threw, all of it, and `left` (Maps) what the last forced collection left.
The section on divergences lists what they stand for.

## Runs

| run | shows | bounds and why they are enough |
|---|---|---|
| `Timers_core` | `WheelArmed` (no oversleeping), `DeadStayDead`, `FiresOnce`, `EventuallyFires` (liveness) | two timers, delays of 0, 1.5 and 4 ms, `HOUR` = 3 ms and `MaxInt` = 4 ms, so that one delay is "an hour or more" and wraps in `| 0`: one callback can touch another timer of its tick, or create one |
| `Socket_core` | `NoLostWakeup`, `GracefulClose`, the refinement `ImplementsStream`, `FinCloses` and `Drains` (liveness), for a program that may do everything in every event but `end()` inside 'drain' | a send buffer of two bytes and three bytes written make `_flush` stop half way |
| `Pol_core` | `NeverFreedUnderLoop`, `ClaimHonoured`, `NoStaleHandler`, `FirstThrowSurfaces` | three fds, room for two, so that a watch is refused; three registrations, two throws, one loop |
| `Maps_core` | `LiveIsMapped`, `LiveKeepsSlot`, `NoLeak`, `PinsExact`, `SweptInTime` | two addresses, two fds, four mappings, floors of two: an address and an fd are reused before the first finalizer runs, a collection is forced, by either counter, and it may find nothing |
| `Net_core` | `NeverDeaf`, `OwnsItsFd`, `ActsOnOwnFile`, `Accepted` (liveness) | two fd numbers for two servers, a datagram socket, connections and a file: every close gives a number to somebody else, and descriptors run out |
| `Fsw_core` | `NothingMissed`, `RightDirectory`, `Reported` (liveness) | two directories, a kernel queue of three and a Buf of two: both overflow; five calls, enough to stop and watch anew in a batch, and to recover from a refused watch |
| `Index_core` | `CursorExact`, the refinement `ImplementsMap`, `CommitSaves` | two keys, four puts, a page of three, three files, a drop, two deaths: one key in two runs and in the memtable, a merge, a page that collapses, a death that leaves a run and the memtable's file with the same rows. With a cursor in use (`CursorBound`): three puts and no death before it, two puts when both are |
| `Logs_core` | `Ascending`, `SeekExact`, `CursorOnRow`, `AckedSurvive` | rows of two and of three cells, of which the long one has a uri beyond the scan's pad; six cells; two views, three builds or openings |
| `Pack_core` | `ResolveExact`, `GrowEnough`, `BooksExact`, `BufExact` | two records behind a header or three without one (a chain of two deltas), objects above half of and at the largest number, so that doubling wraps, with just enough tries; a Buf of three to four bytes and four bytes in, for all its methods, also from the handler of an ingest |
| `Require_core` | `FloorExact`, `NoHalfBuilt` | two processes at a time, three starts, two ids, two versions, one with a script the other lacks; two modules, two ways to name them, modules that ask from the built-in scripts and from the top level, one change of the user's scripts. The loader runs in the first process, before a second starts (`LoaderBound`): it does not look at what the extraction shares |
| `Readdir_core` | `ScanExact` | all trees of three entries, all options, all answers; three levels let a stop leave through two nested scans |
| `Pol_nested` | counterexample: after a nested pol.run, pol.init frees the heap under the outer loop, against the comment at pol.cpp:22 | two loops |

All bounds are in guards, but the two of the MC modules, which are CONSTRAINTs, and
named where they are declared. Deadlock is checked in
Timers and Pol; in the others the program may really stop (a closed socket, a
program out of calls or of mappings, a scan that is done).

Fairness. Timers: the single thread keeps stepping (`LoopStep`) and time
passes; nothing obliges the program to call anything, an fd to be ready, or a
callback to throw. Socket: the loop polls and handlers return (`Handler`), and
the peer keeps reading; neither side has to write or end. Net: handlers return
(weak), and each round of the loop serves every fd that poll(2) reports, so that an
fd which is ready again and again is dispatched (strong). Fsw: the handler runs and
callbacks return, and a number that was taken by another file does not have
something to read for ever (strong, `drainOther`). The other modules state no
liveness; Maps in particular, since a collector guarantees nothing (io.cpp:560-564
only hints at the price, and forces a collection at the marks alone).

Every property of a passing run has a mutant, an operator named after the
definition it replaces (`Wanted_NoFin` for `Wanted`): a plausible slip in the
code, for which TLC finds the property violated.

## Proofs

The proofs hold for any constants that satisfy the `ASSUME` of the module (types
of the bounds, finiteness of the fd numbers and keys, disjointness of names):
any buffer size, any set of fds, addresses, keys and directories, any number of
processes. Two kinds of theorems need more, and say so: `FinInOrder`,
`ClosesGracefully` and `SocketImplementsStream` assume that the program does not
call `end()` in 'drain', and `NotFreedUnnested` and `FirstThrow` assume
`MaxRun = 1`, one loop at a time. Without these they are false (see the
divergences).

| module | theorems | what they say |
|---|---|---|
| `Clients_proofs`: Socket | `WakeupsKept`, `EndAfterInput`, `FinInOrder`, `ClosesGracefully`, `SocketImplementsStream` | `NoLostWakeup`, the order of data, end and FIN, `GracefulClose`, the refinement of `Stream` |
| `Clients_proofs`: Timers | `AlwaysArmed`, `DeadForGood`, `CalledOnce` | `WheelArmed`, `DeadStayDead`, `FiresOnce` |
| `Pol_proofs` | `ClaimsKept`, `NoStaleCall`, `FirstThrow`, `NotFreedUnnested` | `ClaimHonoured`, `NoStaleHandler`, and for one loop `FirstThrowSurfaces`, `NeverFreedUnderLoop` |
| `Net_proofs` | `FdOwned`, `NoneDeaf`, `OwnFileOnly` | `OwnsItsFd`, `NeverDeaf`, `ActsOnOwnFile` |
| `Files_proofs`: Maps | `LiveStaysMapped`, `LiveStaysBooked`, `NothingLeaks`, `PinsAlwaysExact`, `DescriptorsSwept` | `LiveIsMapped`, `LiveKeepsSlot`, `NoLeak`, `PinsExact`, `SweptInTime` |
| `Clients_proofs`: Fsw | `NeverMissed`, `RowsFindTheirDirectory` | `NothingMissed`, `RightDirectory` |
| `Require_proofs` | `FloorAlwaysExact`, `NothingHalfBuilt` | `FloorExact`, `NoHalfBuilt` |
| `Files_proofs`: Readdir | `ScansAreExact` | `ScanExact` |
| `Index_proofs` | `IndexIsAMap`, `CommitIsDurable`, `CursorsAreExact`, `RunsAscend` | the refinement `ImplementsMap` of `Kv`, `CommitSaves`, `CursorExact`, the order of values along the stack |
| `Logs_proofs` | `ClocksAscend`, `SeeksAreExact`, `CursorsStayOnRows`, `AcknowledgedRowsSurvive` | `Ascending`, `SeekExact`, `CursorOnRow`, `AckedSurvive` |
| `Pack_proofs` | `ChainsResolve`, `ScratchGrowsEnough`, `BooksAgree`, `BufsAreExact` | `ResolveExact`, `GrowEnough`, `BooksExact`, and `BufExact` of `Buf` |

For every component the type invariant is proved too. Some of these say more
than types: the memtable never exceeds its page and the files of an open handle its
dict (`IndexTyped`), a scan's path is a path of the tree (`ReaddirTyped`), an accept
always finds a socket object to give (`NetTypes`).

`Clients_proofs`, the socket. The inductive invariant is the type invariant with
the bound `wb <= written`, `NoLostWakeup`, and one part per question: `FinInv`
(the FIN was asked for, and the FIFO is empty at every point between the last
send and the FIN), `EofInv` (readEnded implies that the peer's FIN arrived
behind all data, unless reset), `CloseInv` (who may have closed the fd).
`SocketImplementsStream` maps every step to a step of `Stream` or a stutter.

`Clients_proofs`, the timers. `WheelArmed` alone is not inductive: whether a
call must arm POL's timer is read off `twOn`, whether POL keeps it off the
callback's answer. `HandsInv` adds that `twOn`, pol's `timer` and POL's heap
entry agree while nothing upset the wheel, and that no entry is so far away that
POL would remove the timer for it; `IdsInv` and `BatchInv` say that ids are
given out in order and that what a tick has still to call was not called. The
two roundings meet in one lemma about `MaxOf0` and the ceiling.

`Pol_proofs`. `HandledInv` (who counts on an fd whose handler is on the stack
counts on that handler, so that its return takes away only its own) and `EntryInv`
(an entry of the table is what its watcher counts on, or loose) hold at any nesting.
Two theorems look at the number of loops: with `OneLoop` the running flag is set
exactly while there is one, and `StashInv` says that the stash holds the least of
what the handlers of that loop threw, and nothing when there is no loop.

`Net_proofs`. A registration in pol and the frame on the stack are numbers that
outlive the file they were made for. `RegInv` and `FrameInv` say what each may
still name: its own file, no file, or a number in `reused`. `OneSock` says that
a number stands for one socket at most, from which a counting argument shows
that accept always has a socket to give.

`Files_proofs`, the mappings. The invariant says that wrappers are numbered in
creation order, that no two slotted wrappers share an fd and a generation
(`GenInv`), that a mapping not yet released is where its wrapper says
(`OwnInv`), and that what is mapped belongs to a wrapper not yet finalized that
still has its slot (`MapInv`). The heart is the lemma `StillOwnsExact`: the test
of `JABCMapFree` passes if and only if the kernel still maps the wrapper's own
mapping. Hence a finalizer releases its own mapping or nothing. A direct
`io._munmap` may release somebody else's mapping, but only a slotted one and
never one that is being made: with that in `OwnInv` the invariant holds of such
programs too, and nothing leaks in them. The lemmas `KeepStep`, `ReleaseStep`
and `UnmapStep` carry all actions that move a wrapper. `PinsAlwaysExact` counts
sets of wrappers and needs only the numbering. `DescriptorsSwept` follows the mark
of the descriptors (`SweepInv`): it is ahead of the counter whenever a mapping is
made, and never two floors above what the last forced collection left.

`Clients_proofs`, the watcher. A record is valid while the current watcher gives
its wd to the directory it came from. Records in the kernel's queue always are
(`QueueInv`), the drained rows are unless the watcher was stopped under them
(`RowsInv`), and every change owed is carried by a valid record, by an overflow
mark or by a wd the rescan has yet to visit (`TrackInv`). `PlaceInv` says where
the handler may be with rows or a rescan in hand.

`Require_proofs`. A published directory is right because the temporary one is
(`UntarInv`: what a process has written so far is whole and of its version), and
that one is because no two live processes share an id (`PidsInv`), whatever a
dead one left there.

`Index_proofs`. Rows are replaced by what they mean: `Mem` is the table the
memtable stands for, `SavedIn` the value a stack of runs has for a key, and
`GetMeans` shows that get answers the first, and else the second. Then sorting
and collapsing leave `Mem` alone (`SortedSame`, which needs that a finite set of
keys can be counted off in order, and `MemEmpty`), a merge leaves `SavedIn`
alone (`MergeSaved`), a seal moves the one into the other (`SealMeans`), and a
death that leaves a merged run on top of the runs it merges changes nothing
(`MergePushed`). Drop and death need an invariant. `Ages`: the values of a key
ascend along the stack up to the memtable, so that a dropped run brings older
values to light and never newer ones (`WithinSaved`). `RowInv`: a row of the
memtable's page, also one that a later row hides, is not newer than what the page
has for its key and not older than what the runs have; so whichever of the rows a
death leaves in the file, what comes back is between the saved value and the last
one (`LostRows`), also next to the run that was just sealed from them
(`LostSealed`). The cursors are a part of their own. A `Layout` says which rows
are at which addresses; `CursorInv` says that every slice of a cursor lies in its
source and that the merge of what they have left, read through the pointers, is
the table it has yet to deliver (`Good`, `Agrees`); placing it gives that from what
get answers (`PlacedGood`), moving every slice that has the least key keeps it
(`AdvancedGood`), and so does every operation that leaves the rows under the
slices in place, such as an appended row (`StillGood`). `BoundInv` adds the bounds
of page and files; that a query's sort fits the page is a counting argument
(`PageSorted`).

`Logs_proofs`. Everything follows from one fact about bytes: from offset 0 to
the write head they are the rows of the log, laid end to end (`TileInv`). A row
is therefore drained at the starts of rows and nowhere else (`DrainsOnlyStart`),
the newlines below the head are the ends of rows, so that the step back finds
the start of a row (`PrevRowIs`), and past the head of a booked log there is no
newline (`BookInv`), so that opening it after a death finds the head where it
was (`RecoveredIs`). `SidecarInv` says that the entries are the offsets of the rows
while the log is open, and whenever the sentinel names the end of the rows: an
opening that trusts the sidecar is right to, and one that does not scans the same
offsets (`StartsAre`). `ClockInv` ties the times in the rows to the clock of the
view that fed them. The invariant `LogInv` is these with the types, `Ascending`
and `CursorOnRow`, which are inductive with them.

`Pack_proofs`. `RecordInv` says that a delta's base lies before it (`Backward`),
that the records up to the end of the bytes hang together, also those of a pack that
is opened later (`Deltas`), and that a view counts no more than lies below its write
head; then every chain ends at a whole object, after at most as many steps as
there are records, and what resolve computes along it is the object fed. `LogPart`
adds the types and `BooksExact`. The scratch loop is followed through its tries
(`TriedIs`): up to half of the largest number it doubles (`DoubledIs`), and
`TriesAssumption`, which 2^16 and 40 satisfy for 2^31, gives that it gets there
(`FitsReach`). For the Buf, `BufHolds` says that DATA is the payload and
that the last view handed out lies in PAST with its bytes; each method is a
lemma about arrays and numbers alone (`SpliceHolds` for the edits in the middle, of
which `SelfPaste` is the case that pastes the Buf into itself). `BufInv` says it of
the Buf's own cursors between ingests (`AtRest`), and of the run's while one is
under way (`Running`), when a call of its handler may end it. `PackInv` is both.

`Files_proofs`, the scan. Every entry has exactly one path (`OnePath`), so that
the reference definition by names agrees with the one by parents
(`ReachedStep`). `ScanInv` says that each scan on the stack is of a directory
that was handed out and entered, and the only one of it, that what it has yet to
deliver was not handed out and the rest was unless hidden (`ScanOf`), and that
while nothing stopped the scan every directory that was entered is on the stack
or complete (`Covered`). One lemma, `HandStep`, carries the array form and all
answers of the callback. At the end the stack is empty, and a least
counterexample shows that all that is reached was handed out (`ReachedHanded`).

Induction over data, in the form of the library's theorems, is out of the
provers' reach. The proofs do without: they argue by least counterexample from
the well-foundedness of the naturals (`LeastIn`, `SmallestIn`), and what a
recursive function computes is written down without recursion, shown to solve
its equation, and shown to be the only solution (`AgreeUp` and `AgreeDown` of
Logs, the orbits of Pack).

The inductive invariants were also checked by TLC on the instance of the
component's run.

Only model-checked: liveness (`EventuallyFires`, `FinCloses`, `Drains`,
`Accepted`, `Reported`), which the prover does not do. Every invariant, safety
action property and refinement of the passing runs is proved, with the
restrictions named above (one loop at a time, and no `end()` in 'drain').

## Divergences met

One is a run of its own, `Pol_nested`. The others are visible in the models, where
a history variable or a set of allowed calls keeps them apart:

- `twTick` (net.cpp:377) copies the due entries and calls every one: a timer
  cleared by an earlier callback of the same tick is still called, unlike Node
  (NET.md:67 says "Node-identical").
- `twTick` (net.cpp:384) may answer an hour or more, which `pol._timer` takes for
  "remove", while `twOn` stays true: an interval of an hour does not keep the loop
  alive (NET.md:77 says it does).
- `_flush` (net.cpp:264) emits 'drain' and then sends the FIN if the program has
  ended, without looking at the FIFO again: `end(data)` inside 'drain' sends the
  FIN first (NET.md:45 says "flush, then half-close").
- `_poll` (net.cpp:243-245) and `_flush` (net.cpp:264) do not look at `_closed`
  again after 'drain': `destroy()` inside it is followed by a shutdown and a recv on
  the closed number (NET.md:46 says "drop both sides now"). The model makes those
  calls fail; it has one socket, so that a number taken by another file in between
  is not in it.
- The exception stash (pol.cpp:133, 142) is one for all loops: a pol.run called by a
  later handler of the same round throws what an earlier handler of the outer loop
  threw, and the outer one then throws nothing (pol.cpp:142 says "surface the first
  handler throw to run()'s caller").
- A sweep that is due for its mappings moves the mark of the descriptors, too
  (io.cpp:566): up to 511 of them are booked before a collection is forced
  (io.cpp:533 says "live booked fds tolerated before a collection" of the 256).
- Seek and range of an index point into the memtable, and every query sorts it in
  place (pup.hpp:138-142, 351): an open cursor then delivers rows that were put later,
  and passes over older ones. API.md:452-453 says "The memtable is snapshotted on
  `seek`" and "later puts are not reflected". Apart from that, API.md:413-460
  describes an index that did "NOT dedup across runs"; the code, INDEX.md and the
  tests deduplicate, and the model is of the code.
- A search of a log by uri (ulog.hpp:176) passes over every row whose uri is longer
  than the pad of 2048 bytes, which reads as empty (ulog.hpp:158-159 says "2=uri(prefix
  pfx[0..plen))", and ulog.hpp:37 of the getter, which had the same pad, "long URIs
  read back whole").
- A `feed` to a pack view whose write head was never set puts the record where the
  header goes, and a header written or finished later tears it (cont.cpp:183, 233).
- `pol.init` (pol.cpp:209) clears the handlers before the C side refuses the call
  (POL.md:134 says it is refused).
- A throw (pol.cpp:61) makes POL drop the fd and leaves the handler in the table
  (POL.md:130 says it is released at once).
- `io._munmap` (io.cpp:696) finds the mapping by address alone: a second call on a
  view releases what was mapped there since (io.cpp:688 says it is a no-op).
- The accept loop (net.cpp:309) and the return value of the datagram handler
  (net.cpp:349) go by the fd number, also after a handler closed it and the
  number was given to another file.
- Rows drained by a watcher that a callback stops are handed out by the watch
  descriptors of the watcher it opens next (fsw.cpp:142); a watcher whose
  pol.watch was refused is never polled (fsw.cpp:134).
- Building a view over a buffer resets the write head under the other views
  (cont.cpp:413).
- `finish()` of a reopened pack writes the number of records fed since
  (cont.cpp:233).
- Extracting into the leavings of a dead process with the same id may publish
  scripts of another version besides the right ones (require.cpp:102).
- `_ulog_close` (ulog.hpp:347) frees the box and does not null the handle, as the
  comment at ulog.hpp:250 says; the model takes programs that close once.

## Not modelled

`Socket`: the 'close' event, in which every call is refused or does nothing; the
growth of the FIFO; addresses. `Net`: payloads. `Pol`: interest masks (in `Socket`)
and the timer (in `Timers`). `Maps`: contents, lengths, `msync`. `Index`: the wh128
and u64 lanes, which are the same macro with other keys, and the reuse of a
handle's slot by a later open. `Pack`: the tree and commit parsers, the delta
codec, inflate. `Logs`: the rendering of hunks. `Require`: path functions and the
build step that makes the pack. Heap, hash and hit runs, weave and fold,
encodings, parsers and the terminal are marshalling for one call each into
libraries outside the repository; `weave.hpp` is included nowhere. The gates of
`arg.cpp` convert single arguments.

## Plan

1. What the liveness runs rest on, as safety: that whatever is owed (a timer, a
   byte, a change) has a step enabled for it, in the form of the invariants above.
2. `Net` over `Pol` with the interest masks of `Socket`, in one composition.
3. The wh128 and u64 lanes of the index, as one module over the order of rows.
