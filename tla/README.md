# A TLA+ model of libnstd

libnstd is a C++ base library: containers, strings, threads and their
primitives, asynchronous calls, signals and slots, sockets and an event-loop
server, files, processes, a console with a line editor, JSON and XML. This
directory holds TLA+ specifications of it, TLC configurations that check them on
small instances, and TLAPS proofs. Paths below are relative to the repository's
root (`src/Future.cpp` is `src/src/Future.cpp` in `PROJECT.json`).

## 1. Inventory

What the parts keep, what they do, how they meet, and what makes them correct.
`PROJECT.json` has the full list with the source files.

| part | state | operations | hard because of | correct if |
|---|---|---|---|---|
| LockFreeQueue (`src/Future.cpp`) | ring of nodes with two tickets each, two ends | `push`, `pop`, `size` | lock-free access by any number of threads, stale tickets, wrap-around | nodes are owned exclusively, order is FIFO, a failure is justified |
| FastSignal, Signal, Monitor | a flag over a mutex and a condition variable | `set`, `reset`, `wait` | two flags kept in step without a lock; timeouts and spurious wakeups | no wakeup is lost or counted twice |
| ThreadPool (`src/Future.cpp`) | queue, counters, list of thread contexts | `run`, worker loop, destructor | growing and shrinking by racing clients, threads that do not start, shutdown | each job runs once and in the end, the count of workers is right, the destructor returns |
| Future | `_state`, `_aborting`, `_joinable`, result, Signal | `start`, `join`, `abort`, destructor | reuse, abort against completion, lazy creation of the global pool | join returns after its own call; nobody uses a destroyed Future |
| Callback | lists of slots per signal, entries per listener, stack of activations | `connect`, `disconnect`, `emit`, destructors | slots that change the lists being walked, or delete the objects | nothing deleted is used, the right slots are called |
| Server, Socket::Poll (`src/Socket`) | clients, listeners, timers, establishers, resolvers, interrupt flag; poll sets | event loop, `write`, `read`, `suspend`, `resume`, `remove`, `interrupt`, timers | objects removed in callbacks, partial sends, other threads, equal timers | no event for a removed object, bytes in order, flags match the buffers, no wakeup lost |
| Map, MultiMap | AVL tree threaded with a list | `insert`, `remove`, `find` | rebalancing, equal keys, hints | sorted, balanced, list and tree agree |
| HashMap, HashSet, PoolMap, List, PoolList | chains, free lists, blocks | insertion, removal, swap, sort | end items and free lists inside the objects | contents and order as in the abstract container |
| Array, Buffer | a block and the part in use | growth, removal at both ends, attach | the exact end of the block | contents as in the abstract sequence, no byte outside |
| String, Variant, RefCount | shared, counted payloads | copy, assignment, detach | copy-on-write by several threads | no write to a shared payload, counts balance |
| Json, Xml, Unicode, paths, tokens, Base64, command lines | none or a parse position | pure functions | boundaries | the text means what it should; round trips |
| Sha256 | block buffer, count | `update`, `finalize`, `hmac` | pieces of any size, the padding's boundary | the blocks are those of the padded message |
| Console::Prompt | line, caret, history, width | keys, output, resize | relative cursor moves, rows that are just full | the screen shows the output and the line |
| Process | pid, pipes; a wait shared by the process | `start`, `open`, `close`, `join`, `kill`, `wait`, `interrupt` | interrupt racing `waitid`, reused pids and descriptors | nothing leaks, no stranger is hit, an interrupt is heard |
| Mutex, Semaphore, Atomic, Thread, Time, Directory, Log, Library, Error, Debug, System, Math, Memory, Call, Base | system resources | system calls | the operating system | not the subject of a model |

Interactions. `Future::start` joins the Future's previous call, makes the pool
if there is none, and calls `ThreadPool::run`; `run` pushes a job into the
LockFreeQueue, sets `_enqueuedSignal`, and starts or ends worker threads; a
worker pops, sets `_dequeuedSignal`, and calls the job, which at its end calls
`Future::set`, that is `Signal::set`. Emitters and listeners hold pointers to
each other. `Server` sits on `Socket::Poll`, keeps its timers in a MultiMap and
its objects in PoolLists, and resolves names with a Future.

`hazards` in `PROJECT.json` says what is hard to test in this code, line by
line, and which property would notice; section 8 sums it up.

## 2. Modules

| module | models | based on |
|---|---|---|
| `BoundedFifo` | what the queue promises: an atomic bounded FIFO queue | |
| `LockFreeQueue` | `LockFreeQueue<T>` of `src/Future.cpp`, an access to shared memory per step | refines `BoundedFifo` |
| `LockFreeQueue_proofs` | inductive invariant, theorems, the refinement | |
| `ThreadPool` | `ThreadPool`, `FastSignal` of `src/Future.cpp`, with `Signal` and `Thread::start` | the queue as `LockFreeQueue` shows it |
| `ThreadPool_proofs` | inductive invariants and theorems | |
| `Future` | `Future<A>`, `startProc`, `Signal` | the pool as `ThreadPool` shows it |
| `Waiting` | `Monitor` and `Signal` over pthreads | |
| `Future_proofs` | inductive invariants and theorems of Future and of Waiting | |
| `Callback` | `Callback::Emitter`, `Callback::Listener` | |
| `Callback_proofs` | inductive invariants and theorems | |
| `Poll` | `Socket::Poll` on epoll, a connection in the kernel | |
| `Server` | `Server` without timers | `Poll` |
| `Server_proofs` | inductive invariants and theorems | |
| `AvlTree` | the tree of `Map` and `MultiMap` with its list, as functions | |
| `ServerTimers` | the timers of `Server` | `AvlTree` |
| `Trees` | `Map` and `MultiMap` objects | `AvlTree` |
| `Linked` | items, blocks, free lists, chains, quicksort | |
| `Containers` | `List`, `PoolList`, `HashMap`, `HashSet`, `PoolMap` objects | `Linked` |
| `Arrays` | `Array` and `Buffer` objects | |
| `SharedData` | `String`, `Variant`, `RefCount::Ptr` | |
| `SharedDataSteps_proofs` | inductive invariant; every step keeps it | |
| `SharedData_proofs` | every call begins soundly; the start; theorems | |
| `Scanning` | what the parsers share | |
| `Json`, `Xml`, `Text` | parsers, printers and the pure functions on text | `Scanning` |
| `Sha256` | blocks, padding, `hmac` | |
| `Prompt` | `Console::Prompt` and a terminal | |
| `Process` | `Process`: children, pipes, `wait`, `interrupt` | |
| `Process_proofs` | inductive invariants and theorems | |
| `MC...` | the instances for TLC | |

### LockFreeQueue

`tail`, `head` are `_tail`, `_head`; `nodeTail`, `nodeHead`, `data` are the
nodes' fields; `pc`, `loc`, `val` are each thread's place in `push`, `pop` or
`size` and its locals. A push is `PushBegin` (read `_tail`), `PushCheck` or
`PushFail` (compare the node's ticket), `PushCAS` or `PushRetry`, `PushWrite`,
`PushPublish`; a pop is the same with the roles exchanged. `excused` is
history: it records that the running call met an instant at which the node of
the next ticket was not ready, or that another call handed a node over.

Assumptions. Memory is sequentially consistent at the granularity of the
accesses (each hand-over is `Atomic::swap`, each ticket taken by
`Atomic::compareAndSwap`, both full barriers). Tickets do not wrap: they are
`usize`, and the node's fields are compared with `==` only. `_capacity` is what
the constructor rounded its argument up to, so `ticket & _capacityMask` is
`ticket % Capacity`.

### ThreadPool

Clients and workers run the same loop (`Move`): try, reset the signal the
others set, try again, wait; then hand the node over and set the other signal.
`Awaits` and `Sets` say which FastSignal plays which role. Every access to the
flag of a FastSignal is a step, as is every critical section of a Signal, and
the broadcast after it; a spurious wakeup repeats `WaitSignal` without effect
and is left out. Then `run` counts (`CountPushed`, `ReadProcessed`), decides
(`Adjust`), and grows (`GrowLocked`, `StartThread`, `StoreHandle`,
`StartFails`) or shrinks (`ShrinkLock` to `ShrinkReap`). `mutex` is held
across the shrink; growing under the mutex is one step, since nothing but
`threads` and `_threadCount` is touched there. `Main` runs the destructor when
no client is in `run`, as `~Framework` does.

The queue is abstracted: a node is free, claimed, filled or taken, and the
comparison of a ticket and the compare-and-swap are one step. That loses only
calls that fail with a stale ticket although the queue is ready. In the code
that takes three things: the call loaded its ticket, another call of its kind
took it, and the node of that ticket has been made ready again for the ticket
one round later, before the call compares. `overtaken` holds the nodes that
other calls took since a thread's try began, and `StaleTicket` asks for one of
them that is ready again. Such a failure changes nothing but where its thread
is, so it commutes with the steps of the others up to the hand-over that made the
node ready; the model takes it right there, while the thread that handed the
node over is before its next step (`LockFreeQueue!FailureExcused`, proved for
every instance, says that a failed call overlaps one). Workers and clients
meet stale tickets in `pool` and `pool_resize`; the push of a shrinking `run`
meets one in larger instances only, and the proofs cover it. The time of
`_idleResetTime` is abstracted to `idleTimeout`: whether two ticks can pass
while a pool has idle workers.

`WarmWorkers` workers exist and sleep in the initial state, as after an earlier
use of the pool: with an empty pool every job starts a worker of its own, which
looks into the queue first, so that the jobs would run even if no `set()` woke
anybody.

### Future

An owner is a thread with its Future. `Start` to `Run` is `startProc` with its
double-checked lock; `JoinTest`, `Wait`, `Reset` are `join`; `Destroy` and
`Destroyed` the destructor. A worker takes a pending call, stores the result
(`Call`), reads `_aborting`, swaps `_state`, sets the Signal and broadcasts.
`abort()` may come from any thread at any time. The n-th call returns n, so
that a stale result is visible. `new ThreadPool` and the store that publishes it
are one step, so that `OnePool` says nothing of a pool that is seen before it is
constructed.

### Waiting

Monitor and Signal, with `flag` for `signaled` and `at` for each thread's place. `Signal::wait` looks at
the flag before it sleeps and leaves it set; `Monitor::wait` sleeps first, in
the lock of its caller, and takes the flag with it. `set` stores the flag under
the mutex, and `notify`, after the unlock, is a step of its own; a timeout
(`Timeout`) and a spurious wakeup (`Spurious`) may come at any time. A `set()`
before any `Monitor::wait()` is not a wakeup by design, and `MonitorWakes` asks
for none.

### Callback

`slots`, `activation`, `dirty` are the fields of SignalData, `slotData` that of
a listener. `stack` holds one frame for each `emit()` in progress: its
SignalActivation, its loop variable `i` and whether it is inside a slot. When
it is, or when the stack is empty, user code runs and may do anything. List
nodes have numbers so that an iterator to a removed node can be told.

### Poll, Server, ServerTimers

`Poll` is the state of a `Socket::Poll`, the registered sockets and the events
that `epoll_wait` returned and that were not yet handed out (`selected`), with
`PollSet`, `PollRemove`, `Select` and `Take`; and of a connection in the
kernel, of which a send takes as much as there is room.

In `Server`, `loop` is where `run()` is. Its steps are those of the source:
close the clients that failed (`CloseClients`), poll (`Wait`), take an event,
dispatch it, visit the resolvers, look at `_interrupted`. A callback is a state
in which user code acts, and may call every member function on every object
(`UserCall`); `Return` ends it. Resolver threads (`resolve`) and `interrupt()`,
which sets the flag under the mutex and writes to the event descriptor after
it (`Notify`), run beside the loop; `Peers` send, receive, close and reset.
Addresses of freed objects are used again. Bytes are numbered in the order in
which they were written, so that a gap or a change of order shows.

The user's obligations: an object is not used after it was removed; a client
removed in `onAccepted()` or `onConnected()` is answered with null; `clear()` is
not called from a callback; no write of 0 bytes (`send` then returns 0, which
counts as an error). Under these the call of `deleteClient` at line 271 is never
reached, which `PointersLive` includes.

`ServerTimers` has the timer queue as the tree it is; time goes by in ticks, and
the timer of the default timeout is one of the items.

### AvlTree, Trees, Linked, Containers, Arrays

A tree is a record of functions on items: the cells (a child of an item, or the
root), parents, heights, slopes, and the list (`next`, `prev`, `begin`).
`Insert`, `InsertHint`, `RemoveItem` and `Find` do what the code does cell by
cell, rotations and the walk up the tree included. `Trees` runs every sequence
of operations on one Map or one MultiMap next to the sequence it stands for.

`Linked` is memory as the list and hash classes use it: items in blocks, free
lists, the end item inside the object, hash chains whose cells are pointers to
pointers. `Containers` runs two objects of a class. `Arrays` models blocks byte
by byte: what is outside the part in use is `Raw`, but for the zero that every
change of a Buffer writes behind it (`Terminate`). Memory that a Buffer is
attached to keeps its bytes (`lent` is what it held), and `MemoryExact` says that
nobody writes into it; `removeBack()` is the exception, as its zero goes into the
attached memory too, behind what is left.

Left out, where the code does not do what one would expect, or leaves its
memory: assignment of a container to itself and insertion of a container into
itself (`operator=` empties the object first, `List::append(self)` does not
end); for Buffer, `attach()` to a Buffer that has a capacity, or of nothing,
`reserve()`, `resize()` and assignments that give an attached Buffer less than
it holds, `removeBack(0)` of an attached one, `swap()` with a Buffer without
memory; for Array, `append()` of an element of the same Array.

### SharedData

Every thread has handles of its own, copies made before it started. A call is a
list of steps (`todo`), each one access to shared memory: an increment, a
decrement with its test, a read of the count, a write. A Variant block holds a
String or a container with at most one element, again a Variant, so that
payloads nest, three blocks deep with the operations there are. A thread
allocates from `PoolSize` blocks of its own and gets one that is not allocated; a
call begins when three are free, as many as a call takes, so that no call stops at
that bound. `counted` says whether a behaviour is about Strings and
Variants or about pointers. Left out: `Ptr::swap` (it exchanges `obj` and not `refObj`),
`Variant::operator=` of a container that is a part of the Variant, `Xml::Variant`.

### Json, Xml, Text, Sha256

Input is typed one symbol after the other, so that TLC meets every text up to
the bound, and the definition translated from the code is compared with a
reference: for Json the grammar, the string as its escapes mean it and the
document without what the comments of it are (`Uncommented`, computed from
where comments, strings and single characters begin and end); for Xml the document that was meant, with the line of every element;
for paths what a file system would make of them; for command lines the quotes
that delimit; for Base64 and UTF-8 the inverse function. `Sha256` is compared with FIPS 180-4 and RFC 2104 down to the
blocks that are compressed; the sizes are constants, in the code 64, 8 and 32,
and the run uses smaller ones with the same relations.

Some of these functions do not do everywhere what one would expect of them. The
reference is then compared where it holds, and what the code does elsewhere is
stated as a conjunct of its own, so that nothing is exempted in silence: a path
that leads nowhere becomes empty, and no longer absolute; `getRelativePath` is
empty unless the other path begins with a directory that `from` spells out;
`stripComments` takes a string to end behind the backslash of any escape but
`\"`, and keeps the asterisks of a block comment that do not end it; a Json
string that ends in a backslash is read beyond its end (`Beyond`); a Base64
character from 0x80 on is looked up behind the end of the table (`High`); a
backslash inside of quotes that no quote follows stops `splitCommandLine`
for ever (`Never`). They are listed again in section 4.

Left out: `readToken`'s numbers in Json; in Xml a comment followed by text in
the content of an element and line ends in attribute values, which `toString`
does not escape; drive letters. Nothing is said about where a relative path leads
from a path with a ".." behind the directory the two share, nor if only one of
the two is absolute.

### Prompt

`term` is the terminal: its width, its cells, its cursor. It understands only
characters, "\r", "\n" and relative moves, as the code uses them. `promptWrite`,
`promptClear`, `moveCursorPosition`, `saveCursorPosition` and
`restoreCursorPosition` say which commands are written for a line, a caret and
the width that the program believes in; each key, `handleOutput`, `handleResize`
and the two ends of `getLine` are actions. Assumed: keys arrive decoded, the
terminal neither scrolls nor reflows, output does not fill a row to its end
(the position reported then is that of the last column, and the next output
would start there), and the width changes once until the change is handled. A
terminal that is written to while it is narrower than the program believes is
`garbled`; nothing is said about what follows.

### Process

One thread, `main`, waits and uses the processes of `Mine`; each of `Others` is
used by a thread of its own. `wait()` is `waitNone` or `waitSome`, sleeping and
being woken, or `waitid` and what is done with its answer; `interrupt()` sets
the flag, wakes the sleeper or forks a child for `waitid` to report. Pids and
descriptors are numbers, the lowest free one first, so that one is used again as
soon as it can be. `openFails` is a fork that fails, where the pipes are lost
(`leaked`). Assumed: one waiting thread; a Process is used by one thread; the
fork of `interrupt()` succeeds; a child keeps none of the descriptors of
another.

## 3. Runs

| run | instance | shows |
|---|---|---|
| `queue` | 3 threads, 2 values, 2 nodes, 5 tickets | `NoDataRace`, `FailureExcused`, `SizeNoUnderflow`, `DestructorSound`, and `FifoSpec`, the refinement of `BoundedFifo` |
| `pool` | 2 clients, 2 jobs, one sleeping worker, at most 2 workers, one start failure | `EveryJobRuns`, `CleanShutdown` |
| `pool_resize` | 2 clients, 2 jobs, one sleeping worker, at most 2 workers, with and without an idle timeout | `JobRunsOnce`, `ThreadCountExact`, `NoJobStranded` |
| `pool_shutdown` | 2 sleeping workers, 1 job | **violated**: `DestructorReturns` |
| `pool_shrink` | 2 sleeping workers, 2 jobs, idle timeout | **violated**: `NoSleepOverJob` |
| `future` | 2 owners, 2 workers, 2 calls; and 3 waiting threads, one with a timeout, and 2 that set | `OnePool`, `JoinedMeansDone`, `AbortOfThisCall`, `CallOutlived`, `CallsReturn`; `MonitorOnce`, `MonitorWakes`, `SignalReleases` |
| `future_broadcast` | 1 owner, 1 worker, 1 call | **violated**: `BroadcastToLiveSignal` |
| `callback` | 2 emitters, 2 listeners, 2 slots per signal, 3 emit() deep | `ReceiverAlive`, `BothEndsAgree`, `ActivationSound`, `IteratorsValid`, `EmissionExact` |
| `callback_twice` | 1 emitter, 1 listener, 2 slots | **violated**: `CallsLiveReceiver` |
| `server` | 2 clients, 2 establishers, a listener; six programs (`MCBudgets`) | `PointersLive`, `PollInStep`, `DispatchWanted`, `StreamIntact`, `ResolversLinked`; `InterruptReturns`, `ResolverReported`, `Flushed` |
| `server_timers` | 2 timers, 2 ticks | **violated**: `NoActivationAfterRemove` |
| `library` | one class at a time, see below | `TreeExact`, `ContainersExact`, `MemoryExact`, `DataAlive`, `DataIsolated`, `ConversionsExact`, `PromptExact`, `ProcessExact`, `InterruptHeard` |

`MCLibrary` chooses a `subject` and leaves the variables of the others alone, so
that one run holds them all; so does `MCFuture` for Future and Waiting.
`ConversionsExact` is the property of Json, Xml, Text and Sha256.

Bounds. Two nodes and five tickets let the ring wrap around twice, so that a
thread can be a whole round behind; three threads are the least in which two
race for a ticket while a third moves the other end. In the pool two clients
are needed for `_threadCount` to be compared and changed by racing threads;
`MaxThreads = 2` (the constructor insists on 3) makes the limit reachable with
two jobs. One Future started twice, or two started at once, are the cases in
which its calls or the pool's creation can be confused. In Callback three nested
`emit()` calls with two emitters are the least in which a frame of another
emitter lies between two frames of a deleted one.

In the server a kernel buffer of one byte makes every second byte a partial
send; two clients are needed for the callback of one to remove the other with
an event pending, two resolvers for one to be freed while the loop stands on the
other. A program that did everything at once would be too large; the six of
`MCBudgets` each put the operations together that can meet. None has more than
one `interrupt()`, so that a second one that finds the flag set already is in the
model and not in the run. `select` returns all the events there are: the limit
of 64 and EINTR are not modelled.

In the library: trees of 8 keys, in which a removal rotates on two levels and
takes an item from the middle (7 is the least AVL tree that shrinks by more than
one rotation), and 3 copies of 2 keys; two containers of 3 keys with two buckets
and blocks of 2 items, so that chains, free lists and a second block occur;
two arrays or buffers of 4 elements together, beyond the capacity of 3 of the
first allocation; two threads that make 3 calls together on shared data (the
threads are alike, so the second one makes at most half of them); 8 tokens,
which nest arrays and objects, and 5 characters; documents of 15 symbols; paths
of 7 characters (`a/../..`), command lines of 6, with quotes and backslashes;
messages that end before, at and behind the place of the length in
the second block. The line editor has a prompt of one character and a terminal
of 2 or 3 columns, on which a line of 3 fills rows exactly and wraps twice, a
history of 3 lines and one character of output; the same properties were checked
with two letters, with two characters of output (lines of 2, 748,000 states) and
with lines and histories of 3. Processes: two that are waited for, one beside
them, 3 pids and 4 descriptors, scarce enough to be used again at once; one
`open()` with two streams takes all the descriptors.

Symmetry is used for invariants only; for `EveryJobRuns`, `OrderedSpec` and
`InOrder` of `MCThreadPool` let the same client call first in every behaviour and take
contexts in a fixed order, which drops nothing but the same behaviours under other names. Deadlock checking is off where the
program may stop: in the pool because of the hang of `pool_shutdown`, in
Callback once every object is deleted, in the server when the user's calls are
used up, in the library when an input has its largest size.

Fairness is weak fairness of each thread's own steps: a thread that can run is
scheduled, jobs and callbacks return, and a mutex is got in the end. Neither the
clients' decision to call nor `abort()`, `set()` or `interrupt()` is fair, and no
timeout, no timer and no spurious wakeup is relied on; in the server the peers
receive what they are sent. The spin lock of `startProc` needs no more, because
it is taken finitely often. `Flushed` asks for a connection without unread
input: input has precedence in the dispatch, and a client that never reads what
it is told of starves its own writes.

Each property of a passing run is accompanied by a mutant, a changed version
of one definition under which TLC finds the property violated; they stand
next to the definition they change (`Mutant:`).

## 4. Findings

1. **Shutdown can hang.** `FastSignal::reset` is a swap of `_state` and a
   `Signal::reset`. A `set()` by another thread that falls between them is
   undone in the Signal but not in `_state`; later `set()` calls do nothing,
   and a worker that is already past its load of `_state` sleeps on. If this is
   the signal of the destructor's last job, `join()` waits for ever
   (`pool_shutdown`). In the run's behaviour a job has been executed before, whose
   `set()` left `_state` set: a worker that finds the queue empty is between the
   swap and `Signal::reset` when the destructor sets the signal for its first job
   `{0, 0}`. The other worker, in `Signal::wait` since before the job, finds
   `signaled` false again and sleeps on, and the `set()` for the second `{0, 0}` does
   nothing. No stale ticket is involved.
2. **Shrinking can strand a job.** The job `{0, 0}` that ends a worker is
   pushed without `_enqueuedSignal.set()`. While it is claimed and not
   published, it hides the jobs behind it (`pool_shrink`).
3. **Signal::set broadcasts after unlocking**, when the Future that contains
   the Signal may be gone (`future_broadcast`).
4. **A slot connected twice** is not disconnected twice during an emission:
   `disconnect` and `~Listener` match a slot that is disconnected already
   (`callback_twice`). The properties of Callback are stated for histories
   without that (`ambiguous`), and hold then.
5. **A removed timer can be activated.** `Server::remove(Timer&)` looks for the
   timer from what `MultiMap::find` returns, the first equal item on the way
   down from the root, forwards; a timer of the same time that is before it in
   order is not found, stays queued, and is called back after it was freed
   (`server_timers`).

Also seen, without a run of their own: a start failure leaves `_threadCount` one
too high for good; a worker's context can be removed before `Thread::start` stores
the handle in it; `isFinished()` stays true when a Future is started again; a timer
with the interval 0 never lets the loop go on; `Process::open` loses its pipes
when the fork fails, and two threads in `Process::wait` disturb each other; a
key handled before a pending resize garbles a terminal that became narrower.
And of the functions on text, as the conjuncts of `ConversionsExact` state them:

- `simplifyPath` turns "/" and "/a/.." into "", which is not absolute
  (File.cpp:461-515); `getRelativePath("a", "b")` is "" though "../b" leads there,
  and so is that of "/a" and "/" (File.cpp:533-547); with "../.." and "../b" it is
  "../b", which does not lead there.
- `stripComments` leaves a string at the backslash of an escape (Json.cpp:563-566)
  and looks at what follows as if it were outside: it cuts `"a\nb//c"` in the
  middle, and keeps the comment behind `"\\"`, although "Strips C/C++ style comments
  from JSON data" (Json.hpp:29) says otherwise. It keeps the asterisks inside of
  a block comment (Json.cpp:545).
- A backslash at the end of the data inside a Json string makes `readToken` step
  over the terminating zero (Json.cpp:163-166).
- `fromBase64` compares a char with 'z' that is negative from 0x80 on where char is
  signed, and reads behind its table of 123 entries (String.cpp:454-457).
- `splitCommandLine` does not end for a backslash inside of quotes that is not
  followed by a quote (Process.cpp:102-108).
- `removeBack` of an attached Buffer writes its zero into the memory that it
  does not own (Buffer.hpp:186), and `removeBack(0)` right behind it.

What the modules leave out for such a reason is said with each module above.

## 5. Proofs

Every safety property of the runs of the queue, the pool, Future, Waiting,
Callback, Server and Process, and `DataAlive` of SharedData, is a theorem of the
specification, for every value of the constants. The proofs of a module are in `<module>_proofs`; each has the
inductive invariant as a conjunction of named parts, lemmas that say what a step
does to the few expressions a part is about, one lemma per part or per action,
and the theorems. All the invariants were first checked with TLC.

| module | theorem | property |
|---|---|---|
| `LockFreeQueue_proofs` | `DataRaceFreedom`, `FailuresExcused`, `SizeSound`, `DestructorExact` | `NoDataRace`, `FailureExcused`, `SizeNoUnderflow`, `DestructorSound` |
| | `Refinement` | `FifoSpec`: the queue implements `BoundedFifo` |
| `ThreadPool_proofs` | `NoJobTwice`, `CountIsExact`, `NoneStranded`, `ShutdownIsClean` | `JobRunsOnce`, `ThreadCountExact`, `NoJobStranded`, `CleanShutdown` |
| `Future_proofs` | `JoinSound`, `AbortSound`, `LifetimeSound`, `PoolUnique` | `JoinedMeansDone`, `AbortOfThisCall`, `CallOutlived`, `OnePool` |
| `Future_proofs` (Waiting) | `OneWaitPerSet` | `MonitorOnce` |
| `Callback_proofs` | `EmitKnows`, `NoIteratorDangles`, `EmissionIsExact`, `EndsAgree`, `NoDanglingReceiver` | `ActivationSound`, `IteratorsValid`, `EmissionExact`, `BothEndsAgree`, `ReceiverAlive` |
| `Server_proofs` | `ResolversAgree`, `NoDanglingPointer`, `SocketsInStep`, `NoStaleEvent`, `StreamInOrder` | `ResolversLinked`, `PointersLive`, `PollInStep`, `DispatchWanted`, `StreamIntact` |
| `Process_proofs` | `AllAccountedFor`, `InterruptIsHeard` | `ProcessExact`, `InterruptHeard` |
| `SharedData_proofs` | `DataAliveAlways`; `DataInductive` | `DataAlive`; the counts are exact during calls too |

The type invariants (`TypeCorrect` twice, and a part of the invariant in the
other modules) are proved and not part of the runs.

**LockFreeQueue.** `NoDataRace` is not inductive: that no two threads own a node
follows from what the node's two tickets say about the phase it is in. The
invariant `IInv` adds: the ends are at most `Capacity` apart and bound the
tickets in the nodes (`NodeInv`); a node between the ends carries its ticket
(`TicketInv`); an owner's node is in the phase its program counter says
(`OwnerInv`); what a thread checked still holds if its compare-and-swap succeeds
(`CheckedInv`); an old `_head` is not above the new one (`SizeInv`); a call
without excuse sees an open queue (`ExcuseInv`). For the values,
`ContentsInvariance` adds that a node holds a value from the write of the push to
the read of the pop (`ContentsInv`), that a node gets tickets of its own slot only
and is one round behind at most, and that a push has a value until it has written
it (`CarryInv`). A successful call takes effect at its compare-and-swap: there, and
nowhere else, the sequence of values between the ends changes, and every other
step maps to a step of the abstract call or to a stutter.

**ThreadPool.** `CoreInv` follows each job from its client into a node, to a
worker and into `ran`, and says that it is in exactly one of these places; each
node has one owner (`RingInv`, `OwnInv`), and each context one thread
(`ContextInv`). `ThreadCountExact` is inductive on top of it. `NoJobStranded` is
about a wakeup that could be lost between the two tries to pop: `SignalInv` says
who will see `_state` if it is set, `QueuedInv` that a job in the queue is seen
by a worker on its way, by a caller on its way to `set()`, or by `_state`;
`NoWorkerInv` that a pool without a thread has a client about to start one. It is
stated for pools that do not shrink, which finding 2 shows to be necessary.

`CleanShutdown` holds in all pools, and needs the most. The queue is a FIFO, so a
job is reached if there are more workers than jobs `{0, 0}` before it, counting
the ones that workers carry (`Enough`). Shrinking can break that for a moment,
when a client claims a node behind a job that another has pushed and not counted.
`RepairInv` says that then some client is still going to compare the number of
threads with that of the jobs, and will start a thread; it compares numbers that
are not too small (`WorkInv`: `_pushedJobs` and `_processedJobs` differ by the
jobs in between, but for those not counted yet), and no second client shrinks
the pool meanwhile (`MutexInv`, `SpareInv`). When the destructor runs no client
is left to repair, so every job is reached. This is why `PoolAssumption` has
`MaxThreads >= 2`: with one thread at most, TLC finds `RepairInv` violated. The
constructor makes it 3 or more.

**Future.** A joinable Future has exactly one call, in exactly one of three
phases (pending, with a worker, signaled), and one that is not joinable has none
(`CallInv`, `PhaseInv`); what the members hold in each phase (`ResultInv`,
`AbortInv`); and who is behind the lock of `startProc` (`PoolInv`).

**Waiting.** A `set()` of a Monitor is handed over as the flag, so `TokenInv`
counts the flag together with the waits that returned true. The lock itself is
the pthread mutex, which is assumed.

**Callback.** `EmitInv` is about the frames of nested `emit()` calls. The frames
of a signal form a chain from its activation inwards, and those of a deleted
emitter end in one that was told (`Chain`, `Activations`); each loop stands on
a node of its list, has called what it passed and nothing else, and knows what is
connected (`Loops`); and a list is cleaned up only while nobody walks it (`Dirt`).
`Agree` compares the two ends of every connection by number: a listener has as
many entries for a slot as the emitter has nodes for it. That fails once a slot
was disconnected that is twice in a list being walked (finding 4), so `EndsAgree`
and `NoDanglingReceiver` are, like their properties, about histories without that
(`ambiguous`); the other three theorems are about all.

**Server.** `ResolverInv`, by itself, says that establisher, resolver and thread
point at each other, and that the iterator of the loop over the resolvers stands
on one that is there; resolvers have numbers in the order of their creation.
`ObjectInv` says that a registered socket belongs to an object and waits for what
the object needs (`Registered`, `Unregistered`), that a selected event is for a
flag the socket still waits for (`PollSound`, `Dispatched`), that only the client
being introduced has no callback yet (`CallbackKnown`), that a client that failed
is listed once and is there (`ClosingSound`), and that what was sent and what is
in the buffer are, together, what was written (`Streams`).

**Process.** `WaitInv`: a child is that of one Process or of `interrupt()`
(`ChildrenOwned`), `wait()` and `interrupt()` agree on `waitState` and `signaled`
at every place `wait()` can be in (`Handshake`), and what `waitid` told stays true
until it is used (`ToldSound`). `FdInv`: an open descriptor is a member of one
Process, a local variable of one `open()`, or leaked (`FdsOwned`), and in one place
of it (`OwnEnds`).

**SharedData.** `DataAlive` says what the counts are between calls, when every
reference is in a handle or in a block. During a call a thread also has references
in its hands: one that `operator=` has taken and not stored yet, one of a block
whose destruction has begun. They stand in no variable, but can be read from the
steps the thread has still to take: what it gives up later and does not take before
(`Carried`). So `AllCounted` says that the count of a block is the number of places
that keep it, leaving out those a thread is about to set or to destroy (`Kept`), and
of the references carried (`Tokens`). `AllSound` says that no rest of a list of
steps gives up more than it takes. What a thread may do next rests on what it owns,
carries, or can reach through a block it owns: it takes a reference to nothing else
(`HeadOk`), writes only a block whose one reference is its own (`WriteOk`, which
makes copy-on-write right: no other thread can raise a count of 1 it does not own),
allocates what is free (`NewOk`), deletes what has no reference, once (`DelOk`); and a
block with the count 0 is about to be deleted or to be referred to (`ZeroOk`).

`SharedDataSteps_proofs` shows that each kind of step keeps this: it looks at the
head of a list and at what that head changes in the counts. `SharedData_proofs` shows
that each call begins with a list that fits (`Begun`), from its pieces, the last
first: `Good` is what a piece may be put before, and `Copied`, `Exchanged`, `Cleared`,
`Wrapped`, `Inserted` and `Contained` say what putting a copy, an assignment and so on
before a good list makes of it. The assignment that holds the new data before it
releases the old is needed here: with the order of the mutant `AssignReleasesFirst`
the list takes a reference the thread no longer has. The proof attempt also corrected
the model: `swap()` of a Variant with itself had two steps of an assignment which the
code skips.

**Assumptions.** Those named in the modules, which TLC evaluates in the runs:
`CapacityAssumption`, `BoundAssumption`, `RawAssumption`; `PoolAssumption` (the
kinds of threads are disjoint and finite, there are contexts for all threads, at
least two of which may run); `FutureAssumption`; `NobodyAssumption`;
`CallbackAssumption` (finitely many signals, because `~Listener` visits them all);
`ServerAssumption` (addresses of different objects differ); `ProcessAssumption`
(pids are positive, `open()` knows three streams); `DataAssumption` (threads are
numbered from 1, because 0 names the blocks of the start; at least two different
texts). The bounds are natural numbers, of any size.

**Only model-checked.** All liveness (`EveryJobRuns`, `CallsReturn`, `MonitorWakes`,
`SignalReleases`, `InterruptReturns`, `ResolverReported`, `Flushed`): fairness is
beyond the proof system. `TreeExact`, `ContainersExact` and `ConversionsExact`: they
compare what recursive definitions compute (walks up and down a tree, along chains
and through a text) with a reference, for which the proof is an induction over
data. `MemoryExact` and `PromptExact`: folds over blocks of bytes and over
the commands to a terminal, again an induction. `DataIsolated`: it says what a call
leaves in a handle, for which an invariant would have to predict what the rest of
each list of steps makes of a text; the part of it that threads can disturb, that
nobody writes what another has a reference to, is proved (`WriteOk`).

## 6. Plan

Done: the modules of section 2, and the theorems of section 5. Open: `DataIsolated`
as a theorem, on top of `DataInv`; the relation between the actions of `Future` and
those of `ThreadPool` that stand for its pool, as a refinement; lemmas about the
operators of `Poll` and `Process` that their proofs repeat.

## 7. Not modelled

- Wrappers of system calls, whose behaviour is that of the operating system:
  Directory, Time, Log, Library, Mutex, Semaphore, the rest of File, Socket and
  Process (reading and writing, environment, daemonize, socket options).
- The Windows variants, and the variants of Poll on `poll` and `kqueue`: the
  epoll variant, which is what the tests run on, is modelled.
- The compression function of Sha256, number formatting and conversion in
  String, Variant and Json: arithmetic, which a small instance says little about.
- `Process::Arguments`, the decoding of keys in Console, `Xml::Variant`: loops
  over characters without a reference to compare them with, and a second copy of
  what SharedData has.
- Atomic, Call, Memory, Base, Debug, Error, Math, System: no behaviour of their
  own.

## 8. What is hard to test here

- Interleavings of two or three memory accesses of different threads
  (`LockFreeQueue`, `FastSignal`, `startProc`, shared data), which a stress test
  meets once in a million runs.
- A wakeup that is lost only if a thread stops between two instructions, or a
  child ends, or a wait expires, in that instant.
- Threads that are started and ended by other threads' decisions, on counters
  read at different times.
- Shutdown, which every program does once.
- Code called back from the middle of a loop over the structure it changes
  (`Callback`, `Server`).
- Sends that take a part, while the user suspends, resumes and removes.
- Long sequences of operations that unbalance a tree, corrupt a list or move a
  cursor only in the end.
- Texts, messages and lines whose length is exactly a boundary.
