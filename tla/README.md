# Verification of libls

libls is a C library for Linux programs: an event loop, a daemoniser, ordered
containers, bitmaps, parsers and codecs.  This directory holds TLA+ models of
it, checked with TLC, and theorems about them, proved with TLAPS.  `src/` below
is the root of the repository; the library's code is in `src/src/*.c` and
`src/include/ls/*.h`.

## Inventory

| Component | State | Operations | Hard parts |
|---|---|---|---|
| event loop: timers (`loop.c`, `loop.h`) | red-black tree of armed timers, cached leftmost `next`, cached clock `realtime` | `add_timer`, `add_timeout`, `update_timeout`, `del_timer`, `__run_timers` | callbacks change the tree during a pass; cached pointer; rounding of the wait; clock set back |
| event loop: I/O | table `fd`, `activated`, epoll's interest | `add_io`, `del_io`, `close_io`, `free_loop` | three records of the same fact; refusals half-way; reuse of descriptor numbers |
| event loop: messages (ILC) | FIFO, batch buffer | `add_ilc`, `stop_remote_loop`, `__ilc_callback` | any thread posts; full FIFO; batches |
| event loop: `run_loop`, setup | event batch, `stopped`; what was acquired | `run_loop`, `stop_loop`, `alloc_loop`, `free_loop` | stale events, stop in mid-batch, timers armed between the two passes, last drain; unwinding |
| daemon (`daemon.c`) | pid file and its lock, notification pipe, processes, their descriptors and ids | `daemonize`, `daemon_notify`, `daemon_change_privilege` | process death, races for the lock, EINTR, closed standard descriptors, a failure between two changes of privilege |
| heap (`heap.h`) | array with back-indices | insert, delete, adjust | bounds, moved elements |
| priority tree (`prio_tree.c`) | pointer tree with balance bits | insert, adjust, erase | path to the last leaf |
| red-black, AVL tree (`rbtree.c`, `rbtree_augmented.h`, `avltree.c`) | pointer trees, augmented values | insert, erase, replace, walks | rebalancing over long sequences; propagation that stops early; balancing before unlinking |
| lists (`list.h`) | circular and hashed lists | add, del, move, splice, safe iteration | pointer surgery on neighbours |
| bitmaps, bit searches, counts | arrays of words | set operations, shifts, regions, formats, parsers | unused bits of the last word, boundaries |
| atomic bit operations, `compiler.c` | words shared by threads | CAS loops, CAS emulated with a mutex | interleaving, signals |
| CSV, INI, line reader | parser state | one pass over a file | end of input in every state |
| base64, percent, URL, hexdump | none | encode, decode, decode in place | lengths, padding, writing behind the reader |
| strings (`string.c`) | none | `strstrip`, `strv_append3`, `astrncat`, ... | part of the readers |
| jhash, `pr.c`, benchmarks | none | | not modelled: no state, output only |

The components meet in few places: the loop's timers use the red-black tree,
`run_loop` drives timers, I/O and messages, and a program daemonises before it
runs a loop.  What makes each correct:

* timers: fire once per arming, in order, not early, not in a stopped loop; the
  wait given to `epoll_wait` covers every armed timer;
* I/O: table, count and epoll agree, so that `del_io` never aborts and
  `free_loop`'s assertions about descriptors hold; only registered ios are called;
* messages: accepted ones run once and in order, and do run;
* daemon: one holder of a pid file, the parent learns the outcome, no waiting
  for ever on a dead child;
* containers: shape (balance, back-indices) and the abstract content (sorted
  sequence, bag, sequence, set);
* parsers and codecs: what is written is read back, at every boundary.

## Modules

| Module | Models | Abstract specification |
|---|---|---|
| `LoopTimers` | timer functions and `__run_timers` | `TimerService` |
| `LoopIo` | `add_io`, `del_io`, `close_io`, the table and epoll | |
| `LoopIlc` | `add_ilc`, the FIFO, `__ilc_callback` | `IlcChannel` |
| `Loop` | `run_loop`, which EXTENDS the three and conjoins their actions | both, through its parts |
| `LoopSetup` | `alloc_loop` with `__tmpfifo` and their unwinding, `free_loop` | |
| `Daemon` | `daemonize`, `first_child`, `save_pid`, `daemon_notify` as processes that may be killed | |
| `DaemonFds` | the descriptor table of one process on that way | |
| `Privilege` | `daemon_change_privilege` | |
| `TreeLinks` | nodes with parent and children, walks, rotation: used by the three trees | |
| `RbTree`, `AvlTree`, `PrioTree` | `rbtree.c` with `rbtree_augmented.h`, `avltree.c`, `prio_tree.c` | `NodeSet` |
| `Heap` | `heap.h` | `NodeSet` |
| `Lists`, `HLists` | the two kinds of lists of `list.h` | sequences beside the pointers |
| `BitWords` | arrays of words: masks and searches (`find_next_bit.c`, `find_last_bit.c`) | |
| `Bitmaps` | `bitmap.c`, `bitmap.h`: two bitmaps and all operations on them | sets beside the words |
| `Regions` | `bitmap_find_free_region`, `_release_region`, `_allocate_region` | |
| `BitLists` | bitmaps as text, in both formats | |
| `AtomicBits` | `bitops/atomic.h`, `compiler.c`, signal handlers | `AtomicWord` |
| `LineReader` | `file_each_line`, which `Csv` and `Ini` EXTEND | |
| `Csv`, `Ini` | `csv.c`, `ini.c` with the functions of `string.c` they use | what was written |
| `Codecs` | `base64.c`, `percent_encode.c`, `url_encode.c`, `hex2bin` | the data |
| `HexDump` | `hex_dump_to_buffer`, `print_hex_dump` | each character's place |
| `MCStart`, `MCContainers`, `MCData`, `MCAtomicBits` | put modules side by side for TLC | |
| `Heap_proofs`, `PrioTree_proofs`, `AvlTree_proofs`, `Bitmaps_proofs` | theorems and lemmas about the module of that name | |
| `Data_proofs` | theorems about bitmaps and regions in `MCData` | |
| `Loop_proofs` | theorems about `LoopTimers`, `LoopIo`, `LoopIlc` and `Loop` | |
| `Containers_proofs` | those about `Lists` and `HLists`, and those about lists, both heaps and the AVL tree for `MCContainers` | |
| `Start_proofs` | theorems about `Daemon`, `DaemonFds`, `Privilege`, `LoopSetup`, and about `AtomicBits` | |

### The event loop

The three parts have disjoint variables, so `Loop` is their composition: each of
its actions is an action of the loop's thread, of user code, of another thread
or of the clock, and says UNCHANGED for the parts it leaves alone.  `stopped` is
declared in `LoopTimers` because `__run_timers` reads it.

`root` is the in-order walk of `loop->root`: a search for the place of a new
timer ends behind every timer that expires no later, which is `Link`.  (That
`rbtree.c` keeps the in-order walk is what `RbTree` shows.)  `next`, `realtime`,
`expires`, `timeout` are the fields and locals of those names.  `tpc` is where
`__run_timers` is.  `fdTable`, `fdSize`, `activated` are the fields; `interest`
is the kernel's side; `closing` holds the descriptors between `close_io` and
`close(2)`, which the comment in `close_io` demands.  `fifo`, `batch`, `current`,
`batchSize` are the FIFO, `loop->ilc[0..n)`, the index of the running callback
and `ilc_size` in pointers.  `pc`, `eev`, `at`, `stage` are `run_loop`'s program
counter, event array, index and half of the event (write is dispatched before
read).

There is one action per operation, with all it changes.  User code is any
sequence of library calls, inside a callback or outside `run_loop` (`UserCode`).
The kernel accepts or refuses, `realloc` succeeds or fails, `epoll_wait` returns
any batch of events for watched descriptors in any order; only `ilc_fd`'s
readiness is tied to the FIFO.

`LoopSetup` is the order of acquisitions in `alloc_loop` as a table: what each
call acquires, which call follows and to which label a failure jumps; and of
releases, for the labels and for `free_loop`.  `astray` remembers a release of
what is not held.

*Contracts taken from the code.*  A timer is added when it is not armed
(`loop.c:16`).  A descriptor is open, and is registered once per direction
(`loop.c:125`), is unregistered before it is closed and has no duplicates
(`loop.c:181`).  `ilc_fd` is left alone, and only posting is done from other
threads.  `run_loop` is called once.

### The daemon

A start `d` is one call of `daemonize`: `caller[d]`, `first[d]` and `second[d]`
say where its three processes are, `pipe[d]` what was written to the
notification pipe, `lock` who holds the `flock` of the shared pid file and
`pidFile` what is in it.  An int is written and read whole.  A write to a pipe
whose caller has gone ends the writer: `daemonize` has set SIGPIPE to its default
action.  The caller's `read` is repeated on EINTR and otherwise returns an int or,
when no process has the write end any more (`HasWriter`), 0.  In `DaemonFds`,
`table` says what each descriptor is open on, `notify` and `fd` are the locals of
`first_child` and `step` is the next call.  In `Privilege`, `ids`, `dir` and `env`
are what the kernel and the environment know of the process, and each call may
fail; the kernel lets only the superuser change root directory and ids.

### Containers

A tree is a record `t` of root, parents and children, as the pointers are; a
cleared node is its own parent.  The mirror images that the code writes out are
one definition with a side as parameter.  The call itself (linking, unlinking,
replacing) is one action and each round of the loop that follows, with the case
it takes, another, so that `pc`, `node`, `parent` are the loop and its locals and
the invariants that the loops rely on can be stated between rounds.  The
augmented value is the largest of a subtree, kept by the three callbacks of
`RB_DECLARE_CALLBACKS`.  `Destroy` and `Free` are a caller's postorder loop that
frees each node it meets.

Cells of lists are heads and entries alike, an operation is its assignments in
the order of the code.  `seq` is what the operation means and is never read by
it.  An iteration may be at any entry while its body deletes or moves that entry
(safe iterations) or adds one at the end (the others); `todo` is what it has to
meet.

### Bitmaps, texts and codes

A word is the set of the offsets of its ones, so `&` is an intersection; an array
of words may hold anything in the unused bits of the last one, from the start
(`Init`).  The operations work word by word, with the code's masks, in the code's
order when source and destination are the same bitmap.  `set` is what the bitmap
means and is never read by an operation.  `Regions` has callers that claim, find
and release regions of any order.

A text is a sequence of digits and of one character of each kind that the code
tells apart (a NUL too, since `bitmap_parse` is told the size of a buffer); numbers
wrap at `UnsignedMax`.  `Csv` and `Ini` read a file in the
chunks of `fgets` with a buffer of `LineMax` that doubles, one round of
`parse_csv`'s loop or one line of `parse_ini` per step; a read, an allocation or
the callback may fail at any one.  The files are those that writers of the format
produce, and some with a line that is none; `means` is what was written.  In
`Codecs` a byte is split into digits by arithmetic; decoding in place is one step
per round, writing into the text it reads.  A character of a hex dump is known by
the byte it shows and how; a line is cut where the caller's buffer ends, as
`scnprintf` and the loops' conditions do it.  A buffer has room for the NUL at
least, and `hex2bin` gets as many characters as it is told.

### Atomic bits

Each thread has two contexts, its own code and the handler of a signal that may
interrupt it wherever it does not block signals; the thread waits meanwhile.
`pc[c]` is where a context is: `read` the word, `cas`, in the emulation of
`compiler.c` `lock`, `swap`, `unlock`, `unmask`, then `check` the result and go
round or return.  `emulated` chooses between the compiler's operation and the
emulation, which exists for words of four bytes.

## Runs

| Run | Module, configuration | Instance | Shows |
|---|---|---|---|
| `timers` | `LoopTimers`, `LoopTimers_safety.cfg` | 3 timers, clock 0..3 that may be set back, delays 0 and 1 ms, one absolute expiry | `TimersOrdered`: tree, cached pointer and armed timers agree; `ReturnsCoveringWait`, `ArmingOrderKept`, `ImplementsTimerService` |
| `loop_timers` | `Loop`, `Loop_timers.cfg` | 2 timers, delays 0 and 1 ms, 1 descriptor, a stop message | `WaitIsCovered`: no wait oversleeps; `NothingStartsStopped`; `TimerWakesLoop`: due timers fire, the timeout alone waking the loop |
| `loop_io` | `Loop`, `Loop_io.cfg` | 2 user descriptors, table of 1 and event buffer of 1 that grow | `RegistrationsAgree`: table, count and epoll; `NeverAborts`: neither the abort of `del_io` nor the assertions at `loop.c:397-400`; `EventsBounded`; `CallsWatched`: stale events |
| `loop_live` | `Loop`, `Loop_live.cfg` | FIFO of 2, buffer of 1, a descriptor that may always be ready | `ImplementsIlcChannel`, `BufferBounded`; `MessageRuns`, `StopReturns` |
| `io_highfd` | `LoopIo`, `LoopIo_highfd.cfg` | a descriptor of 5 with a table of 1 | finding: `SlotAssertionHolds` fails |
| `loop_drain` | `Loop`, `Loop_drain.cfg` | as `loop_live` | finding: `DrainTakesAll` fails |
| `start` | `MCStart` | 2 starts with one ident, any process killed at any step; descriptors 0..6 open in every combination; a change of privilege and a setup failing at any call | `PidFileNamesDaemon`, `OutcomeIsTrue`, `CallerReturns`, `FailedStartEnds`; `DescriptorsKept`; `GivenUpWhole`; `NothingLeft` |
| `containers` | `MCContainers` | red-black tree of 10 nodes, AVL tree of 8, two of one key, heap and priority tree of 6 with 3 priorities, lists of 2 heads and 3 entries | `RedBlackRules`, `BalanceRules`, `TreesAreSearched`, `HeapRules`, `ListsAreSequences`, `ImplementsNodeSet` |
| `atomic` | `MCAtomicBits` | 2 threads and their handlers, one bit | `SignalsHeldOff`, `ImplementsAtomicWord`, `SomeoneReturns` |
| `data` | `MCData` | two bitmaps of up to 6 bits in words of 2, any unused bits; regions of orders up to 3 in bitmaps of up to 9 bits, 2 of them taken before; lists of 9 bits, files of 1 or 2 records with a first buffer of 4, data of up to 5 bytes, dumps of up to 18 bytes in lines of 4 and 8 and every length of the buffer | `SetsAreKept`; `QuestionsAreAnswered`: searches, comparisons, counts, areas, maps; `UnusedAreKept`; `RegionsAreKept`; `TextsAreRead`, `FilesAreRead` |
| `bitmap_unused` | `Bitmaps`, `Bitmaps_unused.cfg` | bitmaps of up to 6 bits in words of 2 | finding: `UnusedBitsIgnored` fails |
| `list_printed` | `BitLists`, `BitLists_printed.cfg` | bitmaps of up to 9 bits | finding: `PrintedListsAreRead` fails |

The `MC` modules put models side by side, as alternatives of the initial state
that never mix (`kind`, `seen`): the variables of the others stay as they are.
`StartTypeOK`, `AllTypesOK`, `TimersTypeOK` are the types of what a run contains.

**Bounds.**  Three timers give an insertion before, between and behind two
others and the deletion of each.  A tick shorter than a millisecond
(`TicksPerMs = 2`) makes the wait round.  The table of 1 grows twice in
`loop_io`, the event and message buffers grow from 1.  A message buffer smaller
than the FIFO is the real ratio (a page to 64 KiB).  `MaxTime` bounds the clock
and nothing else does: sizes are bounded by the code, which `EventsBounded` and
`BufferBounded` state.  Two starts race for a pid file and its lock at every pair
of steps; the safety properties are proved for any number of them.  With
descriptors 0..6 every combination of closed standard descriptors is met, and 5
is the largest number that `first_child` can need.

Trees are tried in every shape that calls can reach.  With 10 nodes a red-black
tree has erasures whose recolouring climbs before it rotates, and every case of
both loops occurs (each is an action of its own, and each is taken); 8 nodes give
AVL trees of height 4, in which an erasure rotates more than once.  Six is the
least number of nodes of a heap with which the last element, moved to the place of a
deleted one, may have to rise in another branch than it came from: from the sixth
place to the fourth.  TLC exchanges four of the six (`Alike`): all six would be more
permutations than they save states.  Three entries on two lists
give each operation neighbours that differ, that coincide and that are the head.

Words of 2 bits put a boundary between almost any two bits.  Six bits give up to
three words, with and without an unused bit.  Regions up to order 3 are parts of a
word, a word and several.  For words of any width and bitmaps of any size all of
this is proved.  The texts of `BitLists` are
all those of up to 4 characters, blanks, line ends and NULs among them, and all lists
of two ranges; `UnsignedMax` of 15 keeps every number that two digits of base 4 write
and wraps those of three.  A buffer of `LineMax` 4
doubles once or twice, with lines shorter, of just its size and longer.  A byte
has `4 * Unit` bits and a digit of base64 `3 * Unit`, in the code with a `Unit`
of 2, here of 1; data of up to five bytes end with each padding, behind a full
group too.  The lines of a hex dump have 16 or 32 bytes in the code, 4 or 8 here,
and numbers 2 or 4 bytes; the fixed buffer is shortened in the same way.

**Fairness.**  Callbacks return and the loop's thread is scheduled
(`WF` of `LoopStep`); a wait with a timeout ends (`WF`); a FIFO that is readable
whenever the loop waits is reported in the end (`SF`), since it is watched
level-triggered and epoll rotates its ready list when the buffer is too small
for all; time passes.  A wait without timeout is not assumed to end.  Liveness
of timers is stated for programs that do not go on for ever to arm timers for an
instant that is already due (`ArmsLater`): with a delay of 0 a callback that
re-arms its timer keeps `__run_timers` busy for ever, and the I/O waiting.
Of a start, the first child, the daemon and the caller are each scheduled (`WF`);
that a daemon calls `daemon_notify` in the end is its author's duty, and nobody
has to be killed.  In `AtomicBits` every context is scheduled (`WF` of its
`Step`), where a thread whose handler runs, or that waits for the mutex, has no
step to take; nobody has to call an operation.  A single operation may be
overtaken for ever, so `SomeoneReturns` says that some operation returns.
The containers, bitmaps and readers run to their end alone: a step of theirs has
nothing to wait for, and that their loops end shows in the state.

## Proofs

The theorems hold for all sets of timers, descriptors, messages, starts, threads,
bits, nodes of the heaps, priorities, list heads and entries, and all sizes.  They assume
the named assumptions of the modules, which TLC evaluates in the runs.  Each rests on an inductive invariant that is stronger than what the
runs check; the proof that a step keeps it has a step per action.

**Timers** (`TimersStayOrdered`, `TimersImplementService`).  `NextIsLeftmost`
alone is not inductive: after a deletion the successor is the new leftmost node
only if a timer is in the tree once (`ArmedOnce`), and after an insertion the
comparison with `next` decides about the first place only if the tree is sorted
(`RootSorted`), which in turn needs that a timer is linked only when it is not
armed.  `WithoutIsTree` and `LinkIsTree` say this of `del_timer` and `add_timer`;
they rest on what `RemoveAt` and `InsertAt` do at each position.  With that
invariant each step is a step of `TimerService` or leaves its variables alone.

`RunTimersCovers` (`ReturnsCoveringWait`) is about what `__run_timers` returns: the
first timer of the tree is the earliest (`FirstIsEarliest`), and `WaitMs` rounds
down but never to 0, so it passes that timer by less than a millisecond and is no
busy poll (`WaitMsFits`), while `InRange` holds.  That hypothesis is not
empty: `FittingDelaysStayInRange` derives it from `FittingDelays`, delays and
instants that callers pass below `IntLimit` and a clock that is not set back.
Its invariant, `RangeInv`, adds that `realtime` is never ahead of the clock.
`TimersKeepArmingOrder` (`ArmingOrderKept`) follows what each operation does to the
order of two timers it does not move: a removal and an insertion keep it
(`WithoutOrder`), and an insertion puts its timer behind all that expire no later.  It
assumes that there is a timer to speak of.

**I/O** (`IoStaysConsistent`, `IoNeverAborts`).  `IoInv` adds to the mirror, the
count and the bounds: a descriptor between `close_io` and `close(2)` is still in
epoll (`ClosingWatched`), so that the kernel refuses its number to `add_io` and
table and epoll cannot part; the loop's own descriptor stays registered until
`free_loop` (`IlcStays`), whose assertion about `activated` counts on it; and the program ends by
an assertion of these parts or behind its table only for a descriptor far above it
(`Ending`).  `IoNeverAborts` is about `del_io` and `loop.c:397-400`; the assertion before
them, that no message is left (`loop.c:392`), is `pc = "asserted"` of `Loop`, and is
reached.
`OneSlotCounts` relates `activated` to a change of one slot.

**Messages** (`IlcBufferBounded`, `IlcImplementsChannel`).  The refinement needs
`BetweenDrains`: outside a drain no batch is left over.  What is read from the
FIFO and what is left of it make up the old queue (`RestElements`, `HeadTail`).

**The loop** (`Loop_proofs`).  `LoopInv` is the conjunction of the parts'
invariants and `LoopControl`, which says where `run_loop` may be while
`__run_timers` works.  With it every step of the loop is a step of each part or
leaves the part alone (`TimersOfStep`, `IoOfStep`, `IlcOfStep`), so the loop is a
run of each part (`LoopRunsParts`) and implements both abstract specifications
(`LoopIsTimerService`, `LoopIsChannel`).  `LoopStartsNothingStopped` follows from
`LoopControl`.  `LoopNeverOversleeps` shows `WaitIsCovered` by the arithmetic of
`WaitMs`, as long as `InRange` holds: an expiry so far away that its delay does
not fit an int is the case left out, and the code does go wrong there.
`LoopWakesInTime` has the same conclusion from what callers pass (`FittingDelays`).
`LoopEventsBounded` and `LoopCallsWatched` rest on `EventInv`: a batch has at
most an event per descriptor, the index stays in it while it is dispatched, and it
is empty from the second pass to the wait.  `LoopIsTyped` collects the types.

**The daemon** (`DaemonIsNamed`, `CallerTellsTruth`, `OneDaemon`).  `StartInv`
says of one start what its lock, its pid file, its pipe and its caller have to do
with the step its daemon has reached.  A step of one start leaves the others
alone, and lock and pid file too unless it may have them (`StepOfOne`), so each
action is proved about its own start only.

The other parts of the start are in `Start_proofs` too.  `DaemonKeepsDescriptors`:
`FdsInv` says for each call of `first_child` what every descriptor is at that
moment, for any number of descriptors; the pipe's end can only be 3 or 4 once it
has been moved (`NotifyKept`).  `PrivilegeIsGivenUp`: `PrivilegeInv` orders what is
gone by the next call, so that the user's id comes after groups, group and root
directory.  `SetupLeavesNothing`: `HeldAt` gives what is held before each call and
at each label, and `AcquiresHeld` and `ReleasesHeld` say that the tables of `LoopSetup` lead from
one to the other.  `StartIsTyped` puts the four side
by side.

**The heap** (`HeapStaysHeap`, `HeapIsNodeSet`).  `HeapOrder` speaks of the array
between calls.  Inside, `HeapInv` says where it is broken: between one node and
its parent while it rises (`UpOrder`), between one and its children while it sinks
(`DownOrder`), around a gap during a deletion (`GapOrder`); and the three need that
the children of that place do not exceed its parent (`Bridges`), without which one
exchange would break the order elsewhere.  `SlotsOK` is what every round keeps:
each entry in use is a node that knows its index, and a deletion's gap, with the
entry past the length that `heap_delete` compares, is within what was allocated.
`ParentOf` is the arithmetic of the indices.  The theorems assume that NULL is no
node and that there is a lowest priority (`PrioAssumption` in `MCContainers`).
They are about `Heap`; `HeapsStayRight` carries the first over to `HeapRules`, which
the run checks of the heap among the other containers.

**The priority tree** (`PrioTreeStaysRight`, `PrioTreeIsNodeSet`, and for `HeapRules`
again `HeapsStayRight`).  That the links are a tree is said by depths: `Tree` asks for
a function that makes every child one deeper than its parent, with a greatest depth.
It carries two inductions, from the leaves up (`FromLeaves`) and from the root down
(`FromRoot`), and by them the recursions of the model have solutions and only one
(`Recursion`, `WeightsOnly`): weights, the way up from a node (`Above`), the two
walks down, the contents (`LinkedIs`).  All that the operations do to a tree is three
changes, and for each it is shown what becomes of tree, ways up and weights:
two nodes change places (`Relabelled`, also when one of them is not in the tree and
only takes over a place), a leaf is hung on (`Hangs`), a leaf is cut off.  That
`Exchange`, with its seven assignments of pointers, is the first of these for a child
and its parent is `ExchangeSwaps`.  `PrioInv` has the weight bits with a set of nodes
for which they are still to be flipped (`Stale`): none but during an insertion, and
then those above the node that rises, which shrinks with each round.  Without it the
bits say nothing between the rounds, since a rising node takes the bit of its parent
flipped along.  From the bits follows that a node without a left child is a leaf
(`LeafBits`) and that the last leaf is one, so that cutting it loses nothing; that
the way to it takes the heavier side everywhere makes the bits right again once all
on the way are flipped (`PruneShape`).  `OrderInv` says where the order may be broken, as for
the heap.

**The AVL tree** (`AvlTreeStaysBalanced`, `AvlTreeStaysLinked`, `AvlTreeIsNodeSet`,
and `AvlTreesStayRight` for `BalanceRules`).  `Balanced` speaks of the tree between
operations, where the code has loops whose rounds leave it unbalanced.  As for the
priority tree, ranks that grow from a parent to its child make the links a tree
(`Ranked`, `Tree`) and carry the inductions.  A rotation moves whole subtrees, so no
depth survives it; but any ranks do, and a rotation needs new ones for two or three
nodes only (`RotatedTree`).  `Heights` says by each node alone what its bits mean: there is a
function `g` such that the bits of a node are the difference of what `g` says of its
children, and `g` of the node itself is one more than the higher, except that nodes of
`more` are one higher than `g` says, which is what their parents go by, and nodes of
`less` are one lower.  What is left to do is in these two sets: while an
insertion climbs, `more` is the cursor (`Growing`); while an erasure climbs, `less` is
the cursor, and `more` is the node to unlink, whose height `g` counts as if it were gone
(`Climbing`); then only the latter is left (`Unlinking`), and to unlink it makes
the heights right everywhere (`Even`), when they are those that `Height` computes
(`HeightsAre`).  Each of the rotations is shown to balance the nodes it touches, from
what the code has tested: one and two rotations for a difference of two
(`OnceLevels`, `TwiceLevelled`), and that of case 3a, which leaves the height
(`LeanLevels`).  A cursor that is level is a leaf, which is the reason why abort is not
reached.

That the node to unlink stays where it is needs more than heights: `Pending` says that
the chain from the left child of the victim to the right ends at it, and `Path` that
the way from the cursor down to it is a part of that chain or holds all of it and the
victim: a sibling that is rotated up was not on the way, so it comes above
it and breaks no chain (`ClimbPath`, `LiftPath`).  `Torn` is the tree while the
postorder loop frees it: the nodes that are left are whole but for a way from the root
to the node in hand; where that went right, the left child is gone.  The proofs
assume that NULL is no node (`NodeAssumption`; in `MCContainers` also that the AVL
tree's nodes are among `Node`, `AvlAssumption`), and nothing of keys: the order of the
keys is no part of the claims.

**The lists** (`RingsStayRight`, `ChainsStayRight` and, for both kinds side by side,
`ListsStayRight`).  `Rings` says of the circular
lists that no entry is in two of them or twice in one, and that from place to place
of each ring next and prev lead there and back; it also says what `list_del_init`
leaves, an entry that points to itself in both directions.  `RingsAreSequences` by
itself is not inductive: an insertion next to an entry that were on two lists would
break the other one.  Pointers change in a few cells only, so putting a path
into a ring and taking one out are lemmas about one ring, and the others have
no cell among those touched.  `Iterating` places an iteration: what it has to meet
is the rest of the list, in its direction, from a place `k`, its cursor is there
and, unless the iteration is of the unsafe kind, the saved pointer is at the next.
That is stronger than `IterationMeetsAll`, which only compares the first.
`Chains` and `HIterating` are the same for the lists with a single pointer as head, where
pprev names the cell whose pointer leads to the entry; an entry on no list is
`Loose`: unhashed, poisoned or a fake that points to itself, which decides what
`hlist_del` may be called with.  `Chains(l, Q, D)` leaves out the entries of `D`, in
the middle of an operation.  The proofs assume of the cells what
`CellAssumption` says: heads, entries, NULL and the poison are different.

**Atomic bits** (`SignalsStayHeldOff`, `OperationsAreAtomic`).  `AtomicInv` adds to
the masks that the mutex belongs to the context between `Lock` and `Unlock`
(`OneHolds`), that the mask saved in the emulation is the one of before
(`MaskSaved`), and that a thread is never interrupted where it has masked signals
(`HandlerInterrupts`): a handler that returns unmasks its signal and could
otherwise unmask it for a thread that holds the mutex.  `OneHolds` and
`HandlerInterrupts` together say that no handler waits for the thread below it.
For the refinement a compare and swap that finds the word as it was read is the
moment at which the operation takes effect (`SwapRefines`), whatever other threads
did in between and whether or not it is emulated; all other steps are calls,
returns or invisible.  These theorems do not mention how many bits or threads
there are, nor what handlers call.

**Bitmaps** (`SetsStayKept`, `QuestionsStayAnswered`, `UnusedStayKept`).  An
array `Means` a set when the bit at offset i of word k is set for its members
`k * WordBits + i`, whatever is above the size; `BitmapsMean` says so of every
bitmap, and each operation has a lemma that takes what its arguments mean to what
its result means and, unless it inverts, leaves no new unused bit (`Fits`).  The
two loops of the shifts run over the array they read when they are in place:
`RightRounds` and `LeftRounds` say after every round which words are those of the
result and which are still those of the source.  A search sees masked words
(`Sees`), and the first word with a bit has the first bit (`EarliestIs`).  The
weight is a sum over words in any order (`WeightIs`).  The search for a free area
goes on behind a taken bit, so the claim is proved from the last start down
(`AreaIs`).  `for_each_set_bit` visits the members of the set in their order
(`ForEachIs`), hence `bitmap_pos_to_ord` counts the members before a bit
(`Rank`), `bitmap_ord_to_pos` inverts it, and remap, onto and fold set what they
ought to (`RemapIs`, `OntoIs`, `FoldIs`).  Nothing is assumed but that a word has a
bit.  Induction over data is done by hand here: `UpTo` is induction up to a bound
for a set, and `Iteration` and `Following` say that a function exists whose values
follow each from the one before, or from one further on; with them and Zenon a
recursive function equals its definition.

**Regions** (`RegionsStayKept`).  `RegionIsInterval` is the core: the words and
masks of `__reg_op` are exactly the bits of the region if it is aligned, because two
powers of two divide one another, so that a region is a part of one word or a
number of whole ones.  The invariant adds to `RegionsAreBits` that regions that are
held are aligned (`HeldAligned`): otherwise a release would clear another's bits.
`RegionsAssumption` says that a word has a power of two bits.

`HeapInv`, `Rings` with `Iterating` and `Chains` with `HIterating` were checked by
TLC on the instances of the runs before they were proved.

Only model-checked:

* liveness, which needs fairness and ENABLED;
* the red-black tree (`RedBlackRules`), and of the AVL tree what depends on the order
  of the nodes: that keys do not descend and that the walks meet every node
  (`TreesAreSearched`; its links and `DestroySafe` are proved of the AVL tree).  The
  provers cannot instantiate an induction theorem, and the induction by hand that the
  proofs of the two other trees use has not been carried out for sequences of nodes and
  for black heights.  `ImplementsNodeSet` is proved of the heap, the priority tree and
  the AVL tree, and model-checked of the four side by side;
* `TextsAreRead` and `FilesAreRead`: the readers and codecs are recursive
  definitions over texts, for which the same holds.

## Findings

* `add_io` doubles the table once; a descriptor of twice the size or more is
  used as an index behind it (`loop.c:113`, run `io_highfd`).
* the last drain of `run_loop` reads one buffer; the comment on it and
  `free_loop`'s assertion (`loop.c:392`) expect the FIFO to be empty then
  (`loop.c:252`, run `loop_drain`).  That assertion also fails when a message is posted
  after `run_loop` has returned, as any thread may do.
* unused bits of a bitmap's last word affect results, against the comment at
  `bitmap.c:23`: `bitmap_and` and `bitmap_andnot` count them in what they return,
  and a shift to the right of a bitmap of one word brings them into it
  (`bitmap.c:185`, `bitmap.h:277`, run `bitmap_unused`).  `SetsAreKept` holds
  nevertheless for what it covers, all other operations, from any unused bits, and
  `UnusedAreKept` says why programs do not notice: operations on bitmaps
  without such bits make none.
* the list that `bitmap_scnlistprintf` prints for an empty bitmap is the empty text,
  which `bitmap_parselist` reads as bit 0, against "compatible" at `bitmap.c:494`
  (`bitmap.c:553`, run `list_printed`).  `ListsAreRead` holds for all other bitmaps.

Seen in reading, without a run:

* a delay of 2^31 ms and more becomes a negative timeout (`loop.c:80`; the runs
  bound the delays);
* an event of a closed descriptor may reach the io registered since under its
  number (`loop.c:226`);
* the result of `stop_remote_loop` is ignored in `examples/loop.c:116`;
* a daemon that reports an error by `daemon_notify` keeps the lock until it exits,
  so a caller that has read the error and tries again at once may find the pid
  file locked (`FailedStartEnds` only says that the lock is released in the end);
* `daemon_change_privilege` that fails leaves the root directory or the groups
  changed (`daemon.c:301`; `GivenUpWhole` says what holds all the same);
* a last line that has no end and just fills the buffer is not delivered by
  `file_each_line`, which returns 0 (`file.c:24`; `ReadWhole` is this exception);
* `csv_parse` gives the callback an unfinished record when the file ends behind an
  opening or a doubled quote, loses an empty last field at the end of the file, and
  does not free its context (`csv.c:109`; `WriteFile` and `Malformed` leave such
  files out);
* `bitmap_parselist` takes an item without digits for 0: it accepts ",", "1,,5" and
  "0-", where `bitmap_parse` refuses a chunk without digits, and it accepts a number
  that wraps below the bound as what it wraps to (`bitmap.c:587`); `ListSyntax`, a part
  of `TextsAreRead`, says for all short texts just what is accepted;
* `bitmap_parse` accepts a comma at the end of the buffer, but not before a NUL
  (`bitmap.c:431`; `HexSyntax`);
* the base64 decoder does not look at the character behind a padding in third
  place.

## Not modelled

* `pr.c`, and the prefixes of `print_hex_dump`: formatting and output.
* `jhash`: a mixing function about which nothing is documented but its constants.
* `hweight.c` and the searches in one word: bit tricks, taken for what they return.
* `list_empty_careful`, which is meant to be read beside another thread's
  `list_del_init`; the other threads' synchronisation is the caller's.
* Bounded printing and the other wrappers of libc in `string.c`.
* Benchmarks, examples and tests.
* Descriptors shared by `dup` or `fork`, which `loop.c:181` excludes.

## Plan

Done: all of the library's components but those above; theorems about the event
loop, the start of a service, the two heaps, the AVL tree, the lists, the bitmaps and
the atomic bits.  What would add most next:

1. The red-black tree, with the lemmas about rotations of `AvlTree_proofs` and black
   heights in place of heights.
2. The order of the keys in both search trees, and the walks: what a rotation does to
   the sequence of the nodes.
