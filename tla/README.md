# Formal models of CodeSnippet

CodeSnippet is a collection of independent programs: two teaching kernels, a
transport protocol, a game server of two processes, a job-control shell, a web
proxy, an in-memory file system, the laboratories of a systems course, a
regular-expression engine, data structures and C++ idioms. Nothing but the
repository ties them together, so the project models them one by one: TLA+
modules, TLC runs on small instances, and proofs checked by TLAPS for instances
of every size.

Contents: [components](#components), [modules](#modules), [runs](#runs),
[bounds](#bounds), [fairness](#fairness), [proofs](#proofs),
[what the code does otherwise](#what-the-code-does-otherwise),
[what is not modelled](#what-is-not-modelled), [plan](#plan).

To check: `tlc -workers 2 -config X.cfg M` for each run below, and
`tlapm MProofs.tla` for each module of proofs.

## Components

### MiniprocOS (`src/OS/WeensyOS/MiniprocOS`)

*State.* `proc_array`: for each descriptor a state, a queue of the pids that wait
for it, an exit status and the saved registers; `current`. The console and its
cursor; the memory that the loaders fill.
*Operations.* The system calls getpid, fork, newthread, kill, yield, exit and
wait, each a branch of `interrupt()`; `schedule()`; the boot loader and the
loader of programs; formatted output.
*Interactions.* Applications trap into the kernel and the kernel goes back to the
one `schedule()` picks. Processes meet in sys_wait: a waiter is blocked in the
queue of another process, which hands it its status when it exits.
*Hard.* Calls of several processes in any order; entries that are reused with
what their last owner left in them (queue, status, stack); a status that takes
two ways, through the table or straight into a waiter's register; kill; segments
that are not aligned.
*Correct means.* No waiter is lost and none is woken by mistake; a status reaches
whoever waits, before or after the exit; a process keeps to its own stack; every
runnable process runs; the demonstration applications count and print what they
started and what it ended with.

### MemOS (`src/OS/WeensyOS/MemOS`)

*State.* `processes[]` with their two-level page tables, `pageinfo[]` (an owner
and an 8-bit reference count for each frame), `current`; the modifiers of the
keyboard; console and cursor.
*Operations.* getpid, yield, panic, exit, page_alloc, fork; the timer interrupt
and page faults; `virtual_memory_check()`, which runs at each trap and asserts
that counts and tables agree; soft reboot from the keyboard; `keyboard_readc()`,
printf, the loaders.
*Interactions.* fork copies writable frames and shares the others, so frames
outlive the processes that own them.
*Hard.* A fork that fails after it has copied some pages; frames that run out; a
count that wraps; a frame whose owner is gone; page_alloc over a mapped page;
keys that are held, released and repeated in any order.
*Correct means.* A frame that a process writes, or that holds its page table, is
nobody else's; no frame is lost; the kernel's own assertions hold; every process
gets the processor; what is printed, typed and loaded is what was meant.

### SRT (`src/Networks/DartNet/SRT`)

*State.* On each side a table of TCBs, a free list and a table from ports to
sockets, shared without a lock by the application's thread and the seghandler;
the overlay connection.
*Operations.* sock, connect, disconnect, close on the client; sock, accept, close
on the server; both seghandlers; `sendseg()` and `recvseg()`.
*Interactions.* SYN, SYNACK, FIN and FINACK segments, each of which may be
discarded; state variables that one thread polls and the other writes.
*Hard.* Lost segments and retries; answers that come after the last try; a check
and a write with the other thread in between; TCBs that are used again; marks in
a stream of bytes that are not escaped.
*Correct means.* A client that is connected is connected to something; what a
call has reported stays true; calls return; a segment arrives as it was sent.

### tsh (`src/C/CSAPPLab/shell`)

*State.* The job list `jobs[]`, `nextjid`, the signal mask; the children and what
`waitpid` has not yet told.
*Operations.* Reading and parsing a line, eval, fg and bg (`do_bgfg`), `waitfg`,
and the handlers of SIGCHLD, SIGINT and SIGTSTP.
*Interactions.* Handlers interrupt the main loop between any two of its steps and
change the list that it reads.
*Hard.* Exactly that; and quotes, blanks and buffer ends in what is typed.
*Correct means.* The list is what the children are; keys reach foreground jobs
only; the shell waits for nothing that is dead; a command has the words its line
has.

### ScissorPaperRock (`src/Networks/ScissorPaperRock`)

*State.* The server process: `Session` objects with a read and a write buffer, a
queue of timers, `round2timer`. The game process: `s2u` (the user of each session
*address*), `usernameSet`, rounds with their users, counts of casts and gestures.
*Operations.* Accept, read a message, write an answer, disconnect, timeouts of
sessions and of rounds; the handlers login, logout, open, join, quit, cast,
shutdown and round timeout; the verdict.
*Interactions.* Two FIFOs. The server sends client messages, SHUTDOWN and
ROUNDTIMEOUT to the game; the game sends STARTROUNDTIMER, DISABLEROUNDTIMER and
answers for clients back.
*Hard.* Addresses that are used again while messages about the old session are
in the FIFO; a timer that points to a session that has been deleted; a round
timer that fires while the message that disables it is in the FIFO; a user who
disconnects in any state; streams that are cut anywhere.
*Correct means.* No client speaks for the user of another; rounds, users and names
agree; a cast is answered, by a verdict or by a timeout; a message is handled as
it was sent; who has won has won by the rules.

### Web proxy and csapp (`src/C/CSAPPLab/proxy`)

*State.* Threads with their sockets and their position; the log and its lock; the
static result of `gethostbyname()`; the buffer of each `rio_t`.
*Operations.* Accept, read a request, resolve, connect, forward, log, close;
`rio_readn`, `rio_readlineb`, `rio_readnb`, `rio_writen`.
*Hard.* Threads that share the resolver; calls that fail in one thread and end
all; reads that are short, interrupted or at the end of the stream.
*Correct means.* Requests are logged once; descriptors and blocks are given back;
bytes are neither lost nor repeated; a complete request is served.

### SimpleFS (`src/FileSystem/SimpleFS`)

*State.* Entries on the heap; `allEntries`, the list all look-ups go through; the
`dirent` list of each directory.
*Operations.* create, mkdir, unlink, rmdir, write, truncate; getattr, access,
readdir, open, read.
*Hard.* Two lists that record one tree, with early returns between their updates.
*Correct means.* Both record the same tree, and FUSE's answers are that tree's.

### Laboratories (`src/C/CSAPPLab`)

csim: per set a list of used and one of free lines; a trace. mdriver: the payload
ranges a trace has live, the heap of memlib, sizes and high-water mark; fcyc.c:
the samples of a timing. btest: the puzzle under test, its values, the alarm.
bits.c and pointer.c: functions on words.
*Hard.* Replacement after any trace; an allocator that returns anything; a test
that never ends beside an alarm that is never cancelled; signed boundaries.
*Correct means.* The simulator counts as LRU does; the driver accepts what is
right and nothing else; points are earned; puzzles compute what they say.

### Algorithms and data structures (`src/Algorithm`), regular expressions (`src/PL/Regex`), C++ idioms (`src/CPP`)

Ring queue, stack, heap, union-find, two hash maps, sorting, selection, shuffling,
searching, a sieve; parser, derivatives, NFA and a pool of objects; the order of
destruction at exit and type lists.
*Hard.* Full and empty, doubling and halving, erased slots, odd sizes, equal keys,
empty ranges; two engines for one language; nodes used again.
*Correct means.* A container holds what was put in and not taken out and
implements its abstract type; an algorithm agrees with its definition.

### The others

`PROJECT.json` lists every component with its sources and the reason for its
status.

## Modules

Concurrent and reactive components, each the module of its own runs:

| module | models | state and actions |
|---|---|---|
| `MiniprocOS` | `kernel.c` | one function per field of `proc_array`; one action per system call, with the `schedule()` it ends in |
| `ProcessService` | the comments of `process.h` and `kernel.h` | the life of a process without table, queues or scheduler: `SSpec` is the service of `process.h`, where one of several waiters gets a status; `SharedSpec`, which `MiniprocOS` implements, also lets all of them have it |
| `MemOS` | `kernel.c`, `k-hardware.c` (lookup, map, panic, reboot) | tables as functions from pages to frames; one action per system call, fault, interrupt and key |
| `SRT` | `srt_client.c`, `srt_server.c` | one action per stretch of a thread between two accesses to what the other thread writes |
| `Tsh` | `tsh.c` | one action per stretch of the main loop between two points where it matters that a handler runs: `addjob()` writes the pid of a slot in one and its state in the next; handlers whole, except that the key handlers read `fgpid()` and kill in two steps |
| `RoundGame` | `MsgHandler.cpp`, `User.cpp`, `Round.cpp` | one operator per handler, for the message at the head of the FIFO |
| `RoundServer` | `Server.cpp`, `Timer.cpp`, `Fifo.cpp`, clients | extends `RoundGame` with sessions, timers and clients, and composes the two processes |

Components that `MCServices` runs, one per behaviour:

| module | models | state and actions |
|---|---|---|
| `Proxy` | `proxy.c`, `open_clientfd` of `csapp.c` | one action per system call or access to shared state of a thread; `socket()` comes before the resolver is asked, and `connect()` after |
| `Rio` | rio functions of `csapp.c`, `readn`/`writen` of the game | one action per `read()`, `write()` or copy out of the buffer |
| `GameSession` | `Session.cpp`, the reading and writing of `Server.cpp` | read and write buffers of a session, cut messages, answers to an address that is used again |
| `SegWire` | `seg.c` | the automaton of `recvseg()`, one byte at a time |
| `Judge` | `Round.cpp`, `User.cpp` | gestures, counts, verdicts and gains of one round |
| `ProcApps` | `p-procos-app*.c` | extends `MiniprocOS`: the three programs on the kernel, one step per system call |
| `Console` | both `lib.c`; `keyboard_readc` of `k-hardware.c` | a conversion and its argument; console and cursor; the buffer of `vsnprintf`; mem and string functions; keys held, scan codes waiting, modifiers, escape |
| `Loader` | `boot.c` and `k-loader.c` of both kernels | memory as a function from addresses to bytes of the image; one action per program header |

Components that `MCStructures` runs, one per behaviour. Those that are proved for every
size are composed in `Containers` (`ContainersSpec`, side by side), which states what
they hold and implement; `MCStructures` extends it and adds the others.

| module | models | state and actions |
|---|---|---|
| `FileTree`, `SimpleFS` | `simplefs.cpp` | the promise: a tree of names; the code: entries, `allEntries`, `dirent`; one action per callback |
| `LRU`, `Csim` | `csim.c` | the promise: least recently used blocks; the code: two lists per set; one action per line of a trace |
| `BoundedQueue`, `ArrayContainers` | `Queue.hpp`, `Stack.hpp` | the promise: a bounded sequence; the code: array, two indices, two flags; and the array that doubles and halves |
| `HeapQueue` | `PriorityQueue.hpp` | the heap beside the bag of what was pushed |
| `UnionFind` | `UnionFind.hpp` | forest and weights beside the classes that connect() makes |
| `Dictionary`, `SeparateChaining`, `LinearProbing` | the hash maps and `HashCode.hpp` | the promise: a function; the code: lists, or slots with three states |
| `CachedObject` | `CachedObject.hpp` | pool, queue of free objects, the heap |
| `LifetimeTracker` | `LifetimeTracker.hpp` | sorted array of trackers beside the functions atexit() has |
| `MallocDriver` | `mdriver.c`, `memlib.c`, `fcyc.c` | one action per request of a trace, in three phases; one per sample |
| `DataLab` | `btest.c`, `bits.c`, `pointer.c` | the run of tests with its alarm; puzzles as functions on sets of bit positions |
| `BinarySearch` | `BinarySearch.cpp` | one action per round of a loop |
| `Sorting` | `BasicSort.hpp`, `Partition.hpp`, `Selection.hpp`, `sort.h`, `Shuffle.hpp`, `find_kth_prime.cpp` | functions of sequences |
| `Regex` | `PL/Regex` | parser, both engines, as functions |
| `CommandLine` | the parsing of `tsh.c` | lines, words and the command that is meant, as functions |
| `TypeLists` | `Utils.hpp`, `AbstractFactory.hpp`, `MultiDispatcher.hpp` | what the compiler computes from templates |

The theorems are in modules of their own: `MiniprocOSProofs`, `MemOSProofs`,
`SRTProofs`, `TshProofs`, `RoundServerProofs`, `SimpleFSProofs`, `ServiceProofs` (the
proxy, the verdicts and the sessions of the game, the streams) and `StructureProofs` (containers,
searches and the order of destruction).

Why a handler is one step. Both kernels run with interrupts off and every handler
ends in `run()`, in the loop of `schedule()` or in a panic. The game process
handles one message at a time. The server process is one epoll loop, whose
handlers do not wait. The shell's SIGCHLD handler is interrupted by nothing that
the model has. FUSE runs SimpleFS with `-s`. In SRT and in the proxy nothing is
atomic but a single access, so actions are small there.

`MCStructures` and `MCServices` put components that share nothing into one run. A
behaviour begins with the choice of one, and only that one takes steps: their
states add up and do not multiply. Liveness and refinement are stated for each.

Some correspondences that are not one to one:

* MiniprocOS keeps `%eax` and `%esp` of the saved registers. An application puts
  anything in range, and just out of range, into its arguments, and traps from a
  stack of any depth. `ProcApps` puts the three programs in its place.
* MemOS numbers frames and pages. Frame 0 stands for all frames that are reserved
  or the kernel's. `find_free_physic_page` is first fit over the owner field;
  what the loop of `copy_writable_page` takes in its i-th turn is stated as the
  i-th free frame. What an application does is limited by `Events`.
* In SRT, connect and disconnect are one loop with other constants (`Try`).
  `usleep` and timeouts take any time. `Fresh` is what `malloc` may leave in
  `client_portNum`, which the code reads before anything sets it. `NServe` bounds how
  many of its TCBs the server opens; ports and clients are free of it.
* In Tsh a stop that `waitpid` has not reported is a state of its own
  ("stopping"), since SIGCONT forgets it.
* In RoundServer time is left out: an active timer may fire at any moment. A
  client is a number, which the program does not know; it is carried by the
  messages and stored as `owner` of a user so that the properties can say whose
  user it is. A timer whose `Session` is gone is counted in `stale`. When it
  fires, the memory is either another session's (which is shut down) or nobody's
  (then the descriptor that is read there is not in the epoll set, and nothing
  happens). The callback of a round timer reads a map node that it has just
  erased; nothing is allocated in between and the model takes the value it had.
* Variables like `dict`, `bag`, `classes`, `lastUse`, `tracked` or `lately` are not
  the program's: they record what was asked for, and the properties compare the
  program's state with them.
* The allocator under `MallocDriver` returns anything, since the repository's own
  does not compile: the driver has to notice.

## Runs

| run | question and answer |
|---|---|
| `miniproc_wait` | Three processes make every call but kill. `NoLostWaiter`, `QueuesAreCurrent`, `RunningIsRunnable` and `OwnStack` hold in every state, `ImplementsService` shows that the kernel refines `SharedSpec` of `ProcessService` (the service of `process.h`, `SSpec`, it does not: see [below](#what-the-code-does-otherwise)), and `NoStarvation` that a runnable process runs |
| `miniproc_kill` | With kill, entry 0 stays unused (`TypeOK`), and the status of a process that has ended goes in two ways only (`StatusIsCollected`): a sys_wait returns it, or the end of a process whose queue names the entry makes it runnable again |
| `memos_apps` | The fork programs of the repository on a machine that runs out of frames: `KernelInvariants`, `WriterAlone`, `NoLeak`, `NoStarvation` |
| `memos_any` | Any application, faults, panics, counts that wrap, reboots: `TypeOK` and `Exclusive` |
| `memos_failedfork` | Violated: a fork that fails half way leaves counts raised, and the assertion of `kernel.c:545` fails at the next trap after an exit |
| `srt_once` | Two clients, two server ports and a port that `malloc` may leave in `client_portNum`; every TCB is opened once: `NoPhantom`, `FinSeen` |
| `srt_any` | Sockets reopened at will, and garbage in `client_portNum`: `TypeOK`, `ConnectedStays`, `CallsReturn` |
| `tsh_jobs` | Two children run, stop and die between any two steps: `TypeOK`, `ListIsExact`, `OnlyForeground`, `DeadIsNotAwaited` |
| `tsh_onefg` | Violated: fg races the death of its job, and then two jobs are in the foreground (`OneForeground`, from `tsh.c:34`) |
| `rounds_any` | Two clients send anything, disconnect and are timed out, at two addresses that are used again: `TypeOK`, `UsersAreClients`, `RoundsAreExact`, `NamesAreUsed`, `CastsAreTimed`, `CastsAreSettled` |
| `structures` | The sequential components. `ContainersHold` and `FilesAreTree`: what was put in is there, no cached line is lost, and two records of one thing agree. `ContainersImplement` and `ImplementsFileTree`: the ring refines `BoundedQueue`, the chained map `Dictionary`, the simulator `LRU`, the file system `FileTree`. `AlgorithmsAgree`: sorts, searches, the heap and the probing table, engines, parsing, puzzles and type lists against their definitions. `ToolsAreExact`: what mdriver, fcyc and btest can tell. `RunsEnd`: tests end, and the searches but `FindFirstGT` |
| `services` | `BytesArriveInOrder`: streams through rio, sessions and frames. `ServersAreExact`: the proxy's log, descriptors and resolver; verdicts; what the programs of MiniprocOS check. `DevicesAreFaithful`: printing, console, keyboard, loaders, mem and string functions. `AllAreServed`: requests, commands, responses and programs come to an end |

The properties of the last two runs are conjunctions of the properties that each
component's module states, each with its comment there. Where the code does not do
what its name or a comment promises, the property says exactly what it does
instead: "with the exceptions" in the comments refers to that, and the section
below lists them.

Every property of a passing run has a mutant, an operator in the module that
changes the code's definition as a plausible mistake would (marked `Mutant:` in
the modules), with which TLC finds the property violated.

## Bounds

* MiniprocOS: `NPROCS = 4`, so three processes besides the unused entry 0: one
  waits, one is waited for, and a third forks into the entry that gets free, or
  waits too. One status other than 0 and -1. `StackSize = 1` gives two depths and
  a neighbour to run into; the run with kill has 0, as it asks nothing of stacks.
  `ProcApps` has the sources' sizes, except that app2 starts 100 processes.
* MemOS: memory is so small that all frames are used after one or two forks, so
  every way of failing is reached. `MaxRef = 1` in `memos_any` makes counts wrap
  at once, and the counts in `memos_apps` stay in range, as they do on the real
  machine for fewer than 127 sharers.
* SRT: `MAX_RETRY = 3` (5 in the code) gives two sends, so one retry. `Window = 2`
  is the number of segments the overlay holds; a send waits for room. Two clients
  in `srt_once` need two TCBs, and dial two ports, of which the server opens one
  (`NServe = 1`): a SYN to the other one is there to be lost or ignored, and the one
  socket to be asked for by both clients. One of the two client ports is what
  `malloc` may leave. `srt_any` has one TCB, so that reuse is at once. The theorems
  have any number of sockets on both sides.
* tsh: two children and three slots, so that a slot is free when both are listed;
  `MaxJid` ends a run after a few commands.
* RoundServer: `Clients = 2` connections in all, at two addresses, so that the
  second may get the address of the first or play with it; one round, two names.
  `MaxQueue` bounds when clients send: internal messages may come on top.
  `MaxCasts` bounds the casts in a round and on their way, and so lets one be
  judged, with one to spare for the next game.
* Containers: a ring of 4 slots and a stack of up to 6 items go around and double
  and halve more than once; a heap of 5 items has three levels; 5 elements make
  trees of depth 2 to compress; the probing table grows from 3 to 7 and 15 slots with
  keys that collide; the chained one has 2 buckets.
* SimpleFS: two levels of names below the directory that `main()` makes, files of
  up to 2 bytes, 8 addresses. csim: 2 sets of 2 lines, tags enough to evict, an
  address of the same block, traces of 5 lines. mdriver: three traces that grow,
  enclose and reuse, with right and wrong headers, in a heap of 6 places.
* Algorithms: all arrays of up to 6 elements with 3 keys; searches of up to 4
  numbers; all patterns of up to 4 of 7 characters and longer ones that use each
  construct, on all strings of up to 3 letters; all texts of up to 5 characters
  with a line buffer of 4; words of 32 bits at and around every boundary.
  Arrays for `sort.h` have elements of one and of two ints.
  `HeapBuilt = 3` (11 in the code), `INTRO_LEN_THRESHOLD = 3` (16) and a short
  depth limit reach every branch of `intro_sort()` with 6 elements.
* Services: two connections and two hosts in the proxy; streams of 3 bytes with a
  buffer of 2; messages longer than a read, longer than the buffer, and equal; SRT
  segments of 3 bytes, with every mark in them; three players; numbers of 4 and 9
  bits, so that sign and width show; a console of 2 by 2; two keys held at once;
  sectors of 2 and pages of 4 bytes.

The proofs have none of these bounds.

## Fairness

* MiniprocOS: `WF(Yield \/ Exit \/ Wait)`. The kernel is cooperative, so a process
  that never makes a call that ends in `schedule()` starves the others, and that
  is the applications' promise and not the kernel's. Forking and killing for ever
  is not excluded by it, but ends when a scheduling call is made.
* MemOS: `WF(Timer)`. The hardware interrupts whatever application runs on.
* SRT: weak fairness for each thread while it is inside a call or a handler. What
  an application calls next, and whether, is not fair. Segments may always be
  lost, so no run claims that a connection is ever made.
* tsh: `SF(Main)`, since a pending signal disables the main loop for a moment and
  it goes on after each, and `WF` for the handlers. Commands, keys and what
  children do are not fair.
* RoundServer: `WF` of the game process's loop, of reading responses, and of the
  timer of each round. Timers are only looked at when `epoll_wait` finds nothing
  ready, so the last one assumes a moment without traffic. Clients are not fair.
* MCStructures: `WF` of a search and of the test run: a function that is called
  runs on. A puzzle that never answers takes no step; the alarm does.
* MCServices: `WF` of each thread of the proxy, of `do_read` and `do_write` (epoll
  is level-triggered and reports what can be read or written as long as it can),
  and of the program that runs on MiniprocOS. Peers are not fair.

## Proofs

All of it is checked for every value of the constants under the assumptions the
modules name; TLC evaluates those assumptions in the runs (`ContainersAssumption` for
all of `Containers`). Other components that `MCStructures` and `MCServices` instantiate
have no module of a run to evaluate an ASSUME, so what is needed of their constants is
a named hypothesis of the theorem. `Powers`, a fact of arithmetic the provers do not
know, is one too.

`MiniprocOSProofs` (needs `NPROCS >= 2`, statuses that are numbers).
`TypeCorrect` is inductive by itself, because entry 0 is `EMPTY` and `schedule()`
only picks runnable ones. `StacksAreSeparate` needs more than `OwnStack`: a pid
that is in somebody's queue may be woken after its entry is free, so `StackInv`
covers entries in use *or queued*. `WaitersAreWoken` assumes that "kill" is not
among the calls and proves that the conjunction of `RunningIsRunnable`,
`NoLostWaiter` and `QueuesAreCurrent` is inductive with the types: none of them is
alone, since a waiter that is woken must have been blocked, in one queue only.
`RunnersAreRunnable` and `QueuesStayCurrent` are the other two parts of it.
`StatusIsKept` is `StatusIsCollected`, with kill: it follows from the invariant that
the running process is no zombie, so that no call but sys_wait reaches the entry.
`KernelImplementsService` is the refinement of `SharedSpec`: under the mapping (`Life`, `Left`,
`WaitsFor`, `Results` of `MiniprocOS`) the initial state is the service's, and
every step is one of its steps or a stutter. There is one lemma per action of the
service (`CreateStep`, `ExitStep`, `ReapStep`, `BlockStep`) and one for what is
invisible to it (`OtherStep`). They rest on the invariants above: that the running
process is runnable gives the service's guards, and that queues are current makes
`WaitsFor`, which chooses the live process in whose queue a blocked one is, the
one that it waits for (`WaitsForOne`).

`MemOSProofs` (needs a memory that holds the boot processes, `BootAssumption`).
`Exclusive` speaks of pairs of processes. The invariant used is of one process at
a time: every private frame has the process as owner in `pageinfo` (`Owned`), and
no process has one frame in two private places (`Apart`). With the types this is
inductive, although reference counts may be wrong or wrap: a frame is handed out
only if its owner is `PO_FREE`, and `release_page` frees only what is in the name
of the process. `FramesAreExclusive` follows.
`KernelIsConsistent`, `WritersAreAlone` and `NothingLeaks` are about the programs
that fork, as `memos_apps` is: one program is booted, its first process stays, and
nothing is asked for twice (`ForkPrograms`). `memos_failedfork` shows that the
first is false when that process may exit. The invariant is `Counted`: every page
that can only be read is the code of the first process; a frame that is free is
not counted; any other frame but the code has the count 1, and the process that
owns it is there and has it in its table. The code's own count does not matter as
long as nobody lets go of it. The step that matters is a fork that fails: the new
slot's table is a copy of the parent's of which some entries have been replaced,
and `release_pagetable` must give back those and leave the others
(`release_page` looks at the owner).

`SRTProofs` (needs a port that is nobody's, at least one try and one TCB).
`TypeCorrect` and `ConnectionsStay` share `Inv`, which says what each thread holds
between two accesses: a TCB that has left CLOSED has dialled, and a FINACK that the
client's seghandler has read, and not yet acted upon, is for a socket that is not
CONNECTED (`LateClose`). `ConnectionsAreReal` and `DisconnectsAreSeen` assume `Once`: a TCB is used once. There may
be any number of ports and sockets, and any port in a fresh `client_portNum`; then
`NoPhantom` itself excepts clients whose port is such a one, because the server really
answers them without having heard of them (`srt_server.c:197`). `FinSeen` excepts
nobody.
`OnceInv` follows an answer from the server's seghandler, which holds it before the TCB
says so, through the overlay to the client's seghandler and TCB. What justifies it
(`Heard`, `Held`) only grows, because no TCB is opened again: that needs the free lists
to have no TCB twice and none in use (`FreeInv`). That the answer is from the port the
client has dialled, though the source of a segment is not looked at, is a second layer
(`DialInv`): a client port is given to one TCB only, that TCB dials one server port,
and so whatever is on the wire or recorded for the client port is about that one
(`PortsOnce`, `WireDialled`, `SrvKnows`).

`TshProofs` (needs a list with at least one slot and process ids that are positive).
`TypeCorrect` takes along where the main loop and a handler may be, and that
SIGCHLD is blocked while a job is being added. `KeysReachTheJob` is `OnlyForeground`
with its exception, a slot in which `do_bgfg()` has written FG after its job was gone:
the history variable `stray` has those slots, and the invariant `FromMark` says that a
slot in FG without a process, or whose state is yet to be written, is one of them.
`KeysReachTheJob` and `ListStaysExact` share `LInv`: no process is listed twice (`Once`), what is listed
has not been reaped (`NotReaped`), and a job that is being added is of a new
process (`NewProcess`). The second one also needs `Listed`, the other direction,
which holds only as long as there are not more processes than slots: `RoomForJob`
is the pigeonhole argument that addjob() then finds a free slot.

`RoundServerProofs` (needs `None` to be no client, no round and no user record).
`TypeCorrect` takes `StatOK` along (a user in state ROUND has a round).
`NobodyIsImpersonated` is `UsersAreClients`. It is not inductive: a LOGIN that
waits in the FIFO of a client who has gone makes a user for that client. What
makes it so is `CommandsAreFollowed`: each command in the FIFO is of the client
connected at its address, or the SHUTDOWN of that client comes after it.
`TimersAreStarted` is `CastsAreTimed`, which is inductive with the types: a round
with casts has START as the last message about it, or none and an armed timer, or
a timeout on its way. The step that matters is that a verdict is only sent when
the casts go back to 0, so that a DISABLE is never behind the START of a later
game. `RoundsStayExact` and `NamesStayUsed` are inductive with the types; each
handler that ends a membership or a login updates both sides.

`SimpleFSProofs` (needs paths of names, buffers of bytes, sizes that are numbers and at
least six addresses; `FsConstants`). The invariant `FsInv` is that of the code's two
records: no address is listed twice; a directory that is listed has its children
once, each listed, with it as parent and with its path and one more name;
everything listed but the root is in its parent's `dirent`; paths are unique; only
directories have children, only files bytes, and what is not listed has no children.
`ListStaysTree` and `NamesStayUnique` are read off it (`InvariantHolds`). That the
heap may hold entries nobody lists is part of it, as failed insertions leak.
What the destructors of rmdir take away, what a path leads to from the root and the
size of a directory recur along `dirent`, which has no depth that is known. For each,
a closed form over paths is shown to satisfy the recursion (what is destroyed is what
lies below the path, `DestroyedIs`; a path leads to the entry that has it,
`FollowedIs`; the bytes below a directory are the union of those below its children,
which have nothing in common, `ChildrenAreApart`), and then that nothing else does, by
the entry with the longest path at which another solution would differ: names only
get longer on the way down, and are bounded (`NamesHaveBound`). With these the tree of
the abstract file system is a function of the listed entries alone (`TreeIs`), and each
handler is its step: `CreateMakes`, `MkdirMakes`, `RemoveDeletes`, `WriteAdds`,
`TruncateCuts`, or a stutter that returns the same error. `FileSystemImplementsTree`
puts them together with `InitKeeps`, for what `main()` makes. `HandlersSeeTree` and
`SizesStayExact` are about the handlers that only look; sums are taken as the number of
bytes there are, each known by its file and place (`SumOfSizes`). `TreeStaysWhole` is
all of `FilesAreTree`.

`ServiceProofs`, the proxy, for any number of connections. A thread is at one place
(`PlacesOK`), and each step moves one thread (`PlaceStep`). `LogEntriesAreExact`:
the semaphore and the number of threads between P() and V() make 1, and the log
lists each thread that is past its write once. `NothingIsLeaked`: descriptors and
blocks are a function of the places. The server's descriptor is a thread's own from `socket()`
on, also while it resolves and connects. `OnlyOthersMisdirect`: a thread connects to its
own host, or to one that another thread has resolved after it (`between`).
*The verdicts.* The invariant (`GameInv`) relates the counts to the users: in a
regular game there are as many casts of a gesture as users who have cast it, which
is a bijection that each cast extends, so a verdict meets exactly the last casts
(`RegularGamesAreFair`). `WinnersBeatLosers` holds of the other games too.
*The answers* (needs sizes that are numbers). Ids and clients grow along both FIFOs
and each buffer, and everything in a buffer comes before what is in the FIFO of
responses, and that before the requests (`FifoInv`); so what is left for an earlier
client comes first (`ForeignAnswersComeFirst`).
`ResponsesArriveWhole` (clients numbered from 1): what a client has received and the
write buffer are the accepted responses, one after the other (`WholeInv`), while the
Session is its own, and a beginning of them after that.
*The commands* (needs a length word that is not empty and fits into the buffer, and
messages that are not empty). What was handed on is a whole number of messages, and the
handled ones, the buffer and the socket are all that the client has written
(`CutInv`); so what comes first in a buffer that is not empty is the first byte of the
next message, and the length that `do_read()` takes is its size (`NextMessage`).
`CommandsArriveInOrder` says besides of a session that `readBuf()` ends on its own, as
distinct from timers, errors and hang-ups (`shutBy`), that a message which does not fit
was the next one.
*The streams* (needs sizes that are numbers). Taken bytes, buffer and stream are what
arrives (`StreamInv`); in a line the bytes taken by the call are no newlines
(`LineOpen`), which gives the values of `LinesAreMeasured`. `BytesStayInOrder` needs
besides that the direct readers run with an empty buffer (`Direct`), as callers see to.
`FlattenSeq` is a recursive function, and what appending to a list does to it is proved
from the smallest index where it could fail (`JoinsExist`, `JoinsAgree`,
`FlattenAppend`).

`StructureProofs`. The ring needs at least one slot: `RingIsTold` proves that
indices stay in range and that the flags follow them whatever number of times they
go around; `RingImplementsQueue` maps each step to `Put`, `Take` or a stutter of
`BoundedQueue`. `StackInBounds` and `StackItemsSurvive` say that nothing below the
top is lost when the array is moved, as long as there is an array.
The chained map needs a bucket and codes that are numbers (TLC checks of strings
that they are): each key is in its own bucket's list and once (`KeysStayOnce`), and
that is why erasing the one node makes the dictionary forget the key
(`ListsAreDictionary`). `PoolStaysPartitioned` numbers the objects in the order in
which the heap gave them out; held and free ones make up all numbers, and their
counts the length of the pool.
The searches, on a sorted array of any length: `SearchInv` has what lies to the left
and to the right of the two ends, with each loop's own comparison (`SearchesFind`).
`FindFirstGTSpins` proves a fault: on two places of which the second is greater,
`FindFirstGT` never returns.
The order of destruction: the array is sorted by longevity and age, each object that
was made is in it or destroyed, and there is one call for each in it, also while a
destroyer makes another (`OneCallForEach`, `LongestGoesFirst`).
The simulator needs a geometry of positive numbers and finitely many addresses; the
provers know nothing of powers, so that `2^(s+b)` is a product is in the hypothesis
(`CacheSizes`), and that a block has one set and one tag is proved from it
(`AddressParts`, `Division`). The invariant says of each set that its two lists have
every line once (`TwoLists`), and that the used one is in the order of the last uses
of the blocks held, while a used block that is not held was replaced when all lines
were in use, and everything held has been used since (`Stacked`). Then the blocks
used since a block was are as many as the lines in front of its own (`HeldIsCounted`),
which is what the reference cache asks. An access that hits, fills or evicts brings a
line to the front in the same way (`BroughtToFront`). `LinesStayPartitioned`,
`BlocksAreHeldOnce` and the refinement `SimulatorCountsLRU` follow.
The union-find, for any number of elements: weights at least double on the way to a
root, a class is closed under parents and has one root, and the root's weight is the
size of the class (`ForestInv`; the other weights are what they were when their element
stopped being a root). The way to a root is the least set that is closed under parents
(`Upward`), which is what the recursion of `root()` passes, because weights grow along
it (`PathIs`). Compression changes parents to the root of the same class and so keeps
the invariant (`CompressedKeeps`), as connecting two roots does (`MergedKeeps`);
`ClassesAreConnected` follows, and `TreesStayFlat` since each step at least doubles the
weight and weights are at most the size (`WayIsShort`, with what is used of powers as
the hypothesis `Powers`).
`ContainersStayWhole` and `ContainersRefine` put the components together: they state
the run's `ContainersHold` and `ContainersImplement` of `ContainersSpec`.

Only model-checked: liveness, which needs ENABLED (`NoStarvation`, `CallsReturn`,
`DeadIsNotAwaited`, `CastsAreSettled`, `RunsEnd`, `AllAreServed`). The other
properties of `structures` and `services` are conjunctions over several components, and
some of those recur on data or are computed by RECURSIVE operators, so the theorems are
about conjuncts and not the conjunctions: proved of `AlgorithmsAgree` are the searches;
of `ServersAreExact` the proxy and the verdicts; of `BytesArriveInOrder` all but the
frames. The probing map, the heap, sorting, the regular expressions, the drivers, frames,
loaders and devices are not proved.

## What the code does otherwise

The two runs with an expected violation each contradict a line of the repository.
More was met on the way, and is in the models as it is in the code:

* MiniprocOS: every waiter gets the status of an exit (`kernel.c:212`), where
  `process.h:167` and `p-procos-app3.c:85` expect -1 for all but one. The service of
  `process.h` is `SSpec`, and the kernel does not implement it; `ImplementsService` is
  about `SharedSpec`, which has the sharing and no other difference. Of app3 no
  property says what its two waiters print. With kill, a process stays a zombie with another blocked on it
  (`kernel.c:181`, against `kernel.h:12`), a stale pid in a queue may wake a
  process that has gone on, or a zombie, whose status is then lost
  (`StatusIsCollected` has that as its third case), and the entry of the running caller may become `EMPTY`;
  hence `WaitersAreWoken` is without kill. printf cuts numbers that are longer than
  their precision and puts `+` or a blank before any conversion; it has no `%p`, of
  which it prints the letter and takes no argument (`lib.c:164-209`).
* MemOS: with the real width, 255 forks bring the reference count of the shared
  code to 0 while it is in use, where `kernel.c:46` says that 0 means free. Nothing
  is handed out because of it, since a free frame is known by its owner.
  `copy_pagetable` with one frame left loses it, and fork goes on with a table at
  address -1, which panics. A process that faulted keeps its frames for ever.
  INT_MIN is printed as a huge number. `vsnprintf` returns the length it has
  stored. The keyboard forgets that one of two Shift or Control keys is still held
  when the other is released.
* Both loaders of programs round the address down but not the source, so a segment
  that is not aligned is shifted, though comments promise any address.
* SRT: a retry puts SYNSENT over CONNECTED when the SYNACK is handled just before
  (`srt_client.c:127`), so connect() may fail although the server has accepted,
  where lines 147-148 promise to return 1. accept() polls for CONNECTED and misses
  a client that disconnects before it looks (`srt_server.c:123`, against line
  115). With sockets that are reopened, `NoPhantom` fails: `port2sock` keeps
  closed sockets, segments carry no sequence number, and a SYNACK of an old
  connection connects a client to a server in CLOSEWAIT. The first SYN at a server
  socket is answered to whatever is in its `client_portNum` (`srt_server.c:197`), so
  that the client of that port may be told of a connection another one asked for;
  `NoPhantom` excepts such ports (`Fresh`). Marks within a segment are
  not escaped (`seg.c:60`), so such a segment is cut.
* tsh: a key between a fork and the child's `setpgid()`, or after a death, makes
  `kill` fail and ends the shell. fg of a job that has just been deleted waits for
  pid 0, and puts FG into a slot that is empty: `addjob()` then writes the pid of the
  next job into it before its state (`tsh.c:509-510`), and a ctrl-c in between kills a
  background job. `OnlyForeground` excepts that one way and no other. A stop between SIGCONT and `job->state = FG` is overwritten. With a full
  list addjob() fails and eval() goes on. An unclosed quote drops its word; a quote
  inside a word is an ordinary character; a quoted last word that starts with `&`
  means background, and is dropped; a line that fills the buffer is cut into two
  commands and loses a character; a last line without a newline is not evaluated.
* ScissorPaperRock: `~User()` takes a name out of the set that another user may
  have by now (`User.cpp:188`), so names are not unique; `NamesAreUsed` is the
  direction that holds. A round counts casts and not users: a verdict may meet
  users who have not cast, whose gesture is that of an earlier game, casts of users
  who left stay counted, and a second cast counts again. A user who joins a round
  that has all its casts is not judged until somebody casts again. An accepted cast
  is not answered, though `castHandler` prepares "Cast Successfully". A session is also shut by its timer, by errors and by
  hang-ups (`Server.cpp:97-100`, `:256`). The timer of a
  deleted session shuts down whoever has its memory, and an answer may reach the
  session that has taken the address.
* csapp and proxy: `rio_readlineb` returns one more than it stored at the end of the
  stream, or with a full buffer, without a newline (`csapp.c:674`), and its callers
  then send a zero byte. The proxy calls `open_clientfd()` and not its thread-safe
  variant, so a request may go to the host that another thread has resolved since; it spins when the stream
  ends within the headers (`proxy.c:93`) and sends the whole buffer as request line
  (`proxy.c:89`).
* SimpleFS: every write appends, whatever its offset; rmdir deletes what is in the
  directory.
* mdriver: `add_range` accepts a payload that encloses another (`mdriver.c:409`), where
  line 407 says that payloads must not overlap; `FaultsAreCaught` claims that accepted
  ones are disjoint or that the newer encloses the older, no more. And
  the largest index of a trace ignores its `f` lines, so a freed id may be out of
  bounds. btest: the alarm is never cancelled, and may go off after its test; the
  constant for NaN (line 147) is none, though lines 138-139 say that NaN is tested, and
  `largest_norm` is not the largest: `FloatRegionsAreTried` claims the other regions only;
  a range of exactly `MAX_TEST_VALS + 1` values overflows the array; `get_num_val`
  tests the wrong pointer. `float_twice` gives NaN for the largest finite exponent
  with a mantissa that is not 0.
* Containers: `Queue::dequeue()` returns an item as a bool. pop() of the only item of
  an array of one place leaves a stack without places for ever. A probe does not
  move on at an erased slot (`LinearProbingHashMap.hpp:36`), so keys behind it are
  hidden and may be inserted twice. The destructor of the chained map reads
  `n->next` after `delete n` (lines 90-91); string hashes keep only the last 7
  characters.
* Algorithms: `heap_sort` builds a heap of 11 ints whatever the length and the size of
  an element (`sort.h:240`). Of elements of one int, as in `sort.c`, nothing is lost,
  and `intro_sort`'s last insertion sort puts them in order. Larger elements are torn
  apart, by `heap_sort` and by an `intro_sort` that falls back to it:
  `SizedSortsAgree` claims of `heap_sort` that their ints are still there, of
  `intro_sort` that it sorts short arrays of them, and of `insertion_sort` and
  `quick_sort` that they sort all. The merge sorts are not stable, though comments
  (`BasicSort.hpp:146`, `:229`) say so: they take the right one of two equal elements
  first, and only their order by keys is claimed. `shuffle()` never swaps an
  element with itself (`Shuffle.hpp:19`), so it makes permutations of one cycle only.
  `FindFirstGT` spins (`BinarySearch.cpp:69`), also on four of the five calls of its own test
  (lines 109 to 112). No property claims that it ends; `ResultIsRight` is about
  what it returns when it does. `FindFirst` goes by the place
  before the array when all elements are greater. Regex: the digits of a number are
  added up, what follows an unmatched `)` is ignored, and a `)` where a factor should
  be is a character.
* `Singleton::getInstance` never creates its instance (its test is inverted).

## What is not modelled

Within components: the contents of stacks and of frames other than page tables;
boot sectors and the set-up of segments, interrupts and devices; the transfer of
data in SRT, which is a stub; SIGQUIT and listings in tsh; a FIFO that is full, the
wording of STATUS and the client's screen in ScissorPaperRock; bytes and headers in
the proxy; the error wrappers of csapp, which end the program; clocks, options and
printing of the laboratories' drivers; the printing of syntax trees and the number
of a group in Regex; power-off in MemOS beyond the end of a behaviour.

Components: `mm.c` holds unresolved merge conflicts and does not compile; the
blocked transposition is about numbers of misses that TLC cannot count at the sizes
that matter; the cache lab driver is vendored course material; bomb and buffer
laboratories are solutions to exercises on binaries; the thundering-herd program is
an experiment on the operating system; the Python scripts and the SICP exercises
have no state worth a model. Visitor, YCombinator and UnitTest only forward calls.

## Plan

Done: the kernels, SRT, tsh and the two processes of the game, with proofs; the
services and the sequential components above; the refinements of the kernel, the
ring, the chained map, the simulator and the file system; proofs of the proxy, the
verdicts and answers of the game, and of the containers and searches named above.

What would add most, in this order:

1. Both FIFOs of the game with a capacity: the two processes may then wait for each
   other.
2. Transposition as a sequence of block accesses on `Csim`, at small sizes.
