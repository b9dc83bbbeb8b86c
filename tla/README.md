# Formal model of the JACK Plugin Launcher

TLA+ specifications of the launcher library (`loader.c`, `klist.h`, `catdup.c`) and
the daemon (`jpld.c`), the TLC runs that check them, and TLAPS proofs about them.

## The system

The program is single-threaded C.  What makes it hard is that its one thread is
interrupted by signal handlers between any two steps, that child processes run,
write, stop, exit and get reaped at any time, and that the operating system reuses
pids, descriptor numbers and memory.

| Component | State | Operations | Interacts with |
|---|---|---|---|
| Child registry (`loader.c`) | the list `jpl_g_children` of `struct jpl_child`, with `ctx`, `pid`, `dead`, `exit_status` | `jpl_init`, `jpl_execute` (parent side), `jpl_run`, `jpl_uninit`, `jpl_get_app_count`, `jpl_sigchld_handler` | kernel (fork, SIGCHLD, waitpid), the host program through `on_child_exit` and the log callback, from which it may call `jpl_execute` again |
| Linked list (`klist.h`) | two pointers per node | every call that changes a `list_head` or an `hlist_head`, with its `_rcu` variants, and the walks | changed by one thread; walked by the signal handler in the middle of a change.  The comments of the `_rcu` calls allow another thread to walk, too; nothing in the repository does, and `rcu_dereference`, which those walks need, is not defined |
| Output reader (`loader.c`) | per descriptor: a line buffer, the last line, a repeat count | `jpl_read_child_output`, `jpl_check_line_repeat_end` | child process through a pipe or terminal, log callback |
| Descriptors (`loader.c`) | the descriptor tables of parent and children, `stderr_pipe`, the fields `stdout` and `stderr` | pipe, fcntl, forkpty, close, dup2, exec | kernel, which gives out the lowest free number; host program, which has descriptors of its own |
| Child side (`loader.c`) | environment, session, directory, argument vector, blocks of memory | `set_ldpreload`, `jpl_exec_program` | string helpers; what was inherited from the host program |
| String helpers (`catdup.c`) | the block a call returns | `catdup`, `catdup3`, `catdup4`, `catdupv`, `catdup_array` | `set_ldpreload`; the host program |
| Daemon (`jpld.c`) | signal dispositions, `g_quit`, bus connection and object | `main`, `connect_dbus`, `disconnect_dbus`, `install_term_signal_handler`, `term_signal_handler` | libdbus, cdbus, signals.  The call of `jpl_run()` in its loop (`jpld.c:212`) is commented out, so daemon and launcher do not interact in this code |
| D-Bus interface (`appman.c`, XML) | none | eight methods with empty bodies | not modelled: no state |
| `main.c`, build files, documents | none | | not modelled |

What has to be right, by component:

* registry: every exit is reported, once, with its own status; output is read;
  no walk of the list touches freed memory; the count is right; no SIGCHLD lost;
* list: a walk begun between two stores visits the list and ends; a concurrent reader
  that only loads misses nothing and meets nothing that was taken away;
* reader: how the kernel cuts the output into reads does not show in the log, and
  no line is lost or miscounted; the buffer never overflows; the loop ends;
* descriptors: nobody closes or reads what belongs to somebody else; nothing leaks;
* child side: the program gets the environment that was asked for and the hooks before
  all else, memory is freed once, and the child never goes on as a second host program;
* string helpers: what is counted is what is copied;
* daemon: a termination signal ends it, whenever it comes; failures are undone.

The hazards behind these, each at its line, are listed in `PROJECT.json`.

## Modules

| Module | What it is |
|---|---|
| `ChildContract` | what `loader.h` promises of a launched process: called, refused or accepted, alive, exited, reported once |
| `Loader` | the registry with handler, kernel, client and host program; its safety and liveness properties; refinement mapping to `ChildContract` |
| `LoaderInv` | the inductive invariant `IInv`, in named parts |
| `LoaderProofs` | the theorems about `Loader`: its state, and what a call of `jpl_run()` achieves |
| `MCLoader` | symmetry sets for the runs of `Loader` |
| `AtomicList` | the list changed by one node, or one list put in front, at a time, as `Loader` uses it |
| `KListCalls` | the calls of `klist.h`, each as the sequence of its stores |
| `KList` | those calls made by one thread, interrupted by walks after any store; refines `AtomicList` |
| `KListInv`, `KListProofs` | the inductive invariant of `KList`, in named parts, and the theorems about it |
| `LineReader`, `LineReaderProofs` | the output reader for one descriptor, and the theorems about it |
| `Spawn`, `SpawnProofs` | descriptors of parent, children and host program, and the theorems about them |
| `Catdup` | the helpers of `catdup.c`, with the bytes they write |
| `Program`, `ProgramProofs` | the child between `fork()` and the program, which calls `Catdup`, and the theorems about it |
| `Daemon`, `DaemonProofs` | `jpld.c` and the theorems about it |
| `DataLemmas` | what the proofs share: extrema, sequences without duplicates, induction over sequences, `FlattenSeq` |
| `FoldLemmas` | what `FoldLeft` makes of a sequence element by element, for any step; instantiated once for each fold of the models |

`Loader` is the core; the others zoom into what it abstracts.  `Loader` treats the
list as a sequence, changed in one step: `KList` shows that the handler cannot tell.
Of output it has only how much waits to be read: `LineReader` has the characters.  It treats
descriptors not at all: `Spawn` has them, and leaves the handler out.  For both the
child is a process that may write and exit: `Program` has what it does before.

### How `Loader` corresponds to the code

* `proc`, `pidOf`, `sigchld` are the kernel's: the life of each process, its pid, one
  pending bit (SIGCHLD is not queued).  `children`, `heap` and the fields `ctx`, `dead`,
  `exit_status`, `pid` are the program's.  `pc`, `epc` and `reaping` say where the
  main thread and the handler are; main steps need `~reaping`, since the handler runs
  on the same thread, while processes change at any time.
* `InitHandler` and `InitList` are the two statements of `jpl_init()` in their order.
* `ExecuteLink`, `ExecuteFork`/`ExecuteForkFails`, `ExecuteRecordPid`/`ExecuteUndo` are
  the steps of `jpl_execute()` between which the handler can make a difference:
  the struct is listed, the process exists, the pid is stored.  `pid` and
  `exit_status` are not written before: the struct keeps the value of its last life, or
  any value of the constant `Garbage`.
* `HandlerEnter`, `HandlerReap`, `HandlerReturn` are the entry, one turn and the exit of
  the `waitpid()` loop.
* `unread` is the output of a child that waits in its pipe or terminal, in pieces, a piece
  being what one `read()` returns; a child may write for ever, but waits while `Capacity`
  pieces are there.
* `RunBegin`, `ReadChild`, `RunBury` are the reading pass of `jpl_run()`, one `read()` at a time:
  `ReadFull` is a turn of the loop of `jpl_read_child_output()` that got all it asked for and goes
  round again, `ReadShort` one that got less and goes on to the next child, whether the
  pipe is empty or not.  Nothing bounds the turns.  The history `cutShort` names the launches
  whose output the current `jpl_run()` has left in part, which is what a promise
  about output has to leave out.
* `BurySkip`, `BuryDead`, `BuryFree`, `BuryEnd` are the pass of `jpl_zombies_bury()` with
  `node_ptr` and `next_ptr` as `cur` and `nxt`.  Between `BuryDead` and `BuryFree` the main
  thread is in `on_child_exit`, where the client may call `jpl_execute()`.
* `Uninit` buries without reading.

### How the others correspond

* `KListCalls` and `KList`: an action such as `list_add_tail(new, h)` computes the stores of
  the call from the neighbours it reads, and `Store` performs the next one.  The order is
  that of the source; gcc keeps it at -O0, -O1 and -O2, though nothing in the source
  makes it.  A walk is the handler's (no store happens before it ends, which is how
  `loader.c` uses the list), a reader's, or that of a reader that has read the next node
  already (`list_for_each_safe_rcu`).  `owed` and `retired` are ghosts: what a reader must
  visit, and what it may still stand on and the writer therefore may not reuse.
  `list_splice_init()` is one step, since no walk may run during it.  The readers are those
  of `__list_for_each_rcu()` and `list_for_each_safe_rcu()`, the two walks meant for another
  thread that only load, and only over a `list_head`.  The others call `prefetch()`, which
  `klist.h:41` defines as `x = x`: compiled without optimisation they store what they loaded
  back into the node, which the handler may do, since nothing changes meanwhile, and
  another thread may not.  Nothing is shown of them as readers.
* `LineReader`: `Read(n)` is one turn of the do-while loop with a `read()` that returns
  `n` characters, and does all the turn does: every complete line through the repetition
  filter (`LogLine`), the rest kept or, if it fills the buffer, logged and dropped.
  What the C library does not see behind a NUL is not seen (`UpToNul`).  The repeat
  count is an unsigned int, counted modulo `CountMod`.
* `Spawn`: one action per system call of `jpl_execute()` that touches descriptors, each with
  its failure.  A field or variable that the code leaves unwritten holds a value of
  `GarbageFd`.  `close()` and `dup2()` of a number that is not open do nothing.
* `Catdup`: a block is its size and the bytes written, at addresses relative to what
  `malloc()` returned, inside the block or not.  A string is the sequence of its
  characters.
* `Program`: one action per call of `set_ldpreload()` and `jpl_exec_program()`, each with its
  failure, whether the code looks at the result or not.  `refused` has the variables whose
  last `setenv()` failed, `trouble` the other calls that did.  `heap` keeps every block, what it
  is meant to hold and how often it was freed.  A second kind of initial state is a host
  program that calls the other helpers with any arguments.
* `Daemon`: one action per call of `main()` and `connect_dbus()`, each with its failure;
  `Deliver` is a signal.  `signal()` does not fail for these signals (`jpld.c:165-169`).

## Runs

| Run | Bounds | What it shows |
|---|---|---|
| `loader_safety` | 2 structs, 2 launches, 2 pids, 2 pieces of output waiting at most; fairness, hence no symmetry | `TypeOK`, the inductive invariant `IInv`, `ReportedOnceAfterExit`, `UnreportedListed`, `KnownDeadOutputLogged`, `ImplementsContract`; under fairness `RecordedExitReported`, `LinesLogged`, `HandlerReturns` |
| `loader_walk` | 3 structs, 3 launches, one in a terminal, no output, 1 process of the host program, 3 pids, reused, `Garbage` every pid; symmetry | `WalkNeverDangles`, `AppCountExact`, `SigchldNotLost`, `RunBuriesKnownDead` |
| `loader_fast_exit` | 1 launch | violation of `ExitReported` |
| `loader_pid_reuse` | 2 launches, 1 pid | violation of `StatusIsOwn` |
| `loader_late_output` | 2 launches, one in a terminal, 1 piece of output | violation of `AllOutputLogged` |
| `klist` | 3 nodes, 2 heads, either kind of list | the inductive invariant `IInv` with its types, `WalkVisitsList`, `ReaderSound`, `ListAsAsked`, `BackwardAgrees`, `CarefulMeansDone`, `WalkEnds`, `ActsAtomically` |
| `lines` | buffer of 4, repeat count of two bits, 7 characters over a letter, newline, NUL | `TypeOK`, `ChunkingInvisible`, `LogTellsOutput`, `LinesAccounted`, `ReadReturns` |
| `spawn` | 3 launches (one in a terminal), 9 descriptors, 1 of the host program | `TypeOK`, `ProgramHoldsOnlyOwn`, `ReadsOwn`, `HostKeepsItsOwn`, `NothingLeaks` |
| `spawn_stderr` | 1 launch | violation of `StderrIsPiped` |
| `program` | 2 libraries, 2 pairs of variable and value, strings of 2 characters, `LD_PRELOAD` inherited or not | `TypeOK`, `MemorySound`, `HooksFirst`, `EnvironmentAsAsked`, `NeverComesBack` |
| `daemon` | all initial dispositions, all failures | `TypeOK`, `EverythingUndone`, `EndsWhenAsked` |
| `daemon_ignored` | the same | violation of `SignalsAsAsked` |

Why the bounds are enough.

* Two launches are needed for one child to be mistaken for another, two structs for a
  list with a neighbour, three for a walk that stands between two others while
  `on_child_exit` adds or fails to add a third.  One piece tells read from unread, two a
  short read that leaves something from one that does not.  A struct
  freed after a failed fork or a burial can be the next launch's, with what its fields
  held, and `Garbage` covers memory used by others before.
* Three nodes give a list with a first, a middle and a last, and room to replace, move or
  take off two neighbours while a reader stands between them.  The second head is for the
  moves and the splice.
* A buffer of four characters holds an empty line, a line that fits, one that just does
  not and one cut twice, and seven characters are three equal lines and another, or two
  cuts.  A repeat count of two bits wraps within them, as 32 bits do in a long run.
* Nine descriptors are the three standard ones, two per child on a terminal, the slave
  side of a terminal that `forkpty()` needs for a moment, and one of the host program.
* Two libraries and two variables have an order, a first and a last; values may be
  empty, an inherited `LD_PRELOAD` may begin or end with the separator or have it twice,
  and the same variable may be named twice.

The proofs remove these bounds for the theorems below.

`CHECK_DEADLOCK FALSE` is set where the system really stops: after `jpl_uninit()`, when all
launches and their bounded output are used up, when a child is buried, when the child has
become a program, when the daemon ends.  `klist` checks deadlock.

Every property of a passing run has a mutant, a definition placed before the one it
replaces and named in `PROJECT.json`, with which TLC finds the property violated.

## What the violations show

* **A child that exits at once is never reported** (`loader_fast_exit`).  The pid is stored
  after `fork()` returns; SIGCHLD before that finds no struct, and the process is
  reaped as unknown.  Its struct stays on the list, counted by `jpl_get_app_count()`.
* **A reused pid misdirects an exit status** (`loader_pid_reuse`).  The look-up does not skip
  structs that are dead already.  The theorems about reporting therefore assume that
  pids are not reused while a struct has them.
* **Last output is lost** (`loader_late_output`).  A child that writes and exits between the
  two passes of `jpl_run()` is buried with its output unread: the handler runs while
  `jpl_zombies_bury()` is under way.
* **Standard error is logged as standard output** (`spawn_stderr`).  The child closes the
  pipe before it calls `dup2()` on it, so its standard error stays the terminal.
* **The wrong signal is ignored** (`daemon_ignored`).  `install_term_signal_handler()` ignores
  SIGTERM instead of the signal it was called for.

Also reachable in the models, or seen while writing them, without a text in the
repository that a run could hold against the code:

* a host program that has children already crashes when one exits inside `jpl_init()` (`pc`
  is `crashed` in `Loader`);
* after a failed `pipe()`, or `fcntl()` on the terminal, the launcher uses descriptor numbers
  it does not own, and a failed `forkpty()` leaks the pipe (`trouble` in `Spawn`).  A failed
  `fcntl()` on the pipe is harmless only because the terminal gets a number just
  closed, so that `stdout` and `stderr` name the same descriptor; `ReadsOwn` says so;
* a last line without a newline is never logged: `jpl_zombies_bury()` closes the descriptors and
  drops it with the buffer.  `LogTellsOutput` and `LinesAccounted` count it as held (`LineReader`);
* after a truncated line the notice "last line repeating" can be about another line; a NUL
  hides the lines behind it; after 2^32 equal lines the notice is lost (`LineReader`);
* a caller that names `LD_PRELOAD` in `env_vars` takes the hooks away, and so does a failed
  `setenv()`, whose result is not looked at; `HooksFirst` leaves both out;
* `loader.h:69` and `:71` say that the arrays end with an empty string, while the code ends
  them at NULL.  `HooksFirst` and `EnvironmentAsAsked` are therefore stated for libraries and
  values that are not the empty string (`LibrariesPlain`, `ValuesPlain`), on which both
  readings agree;
* `catdup.h:64` says that `catdup_array()` puts the delimiter in between the strings, while it
  comes after the last one too.  `MemorySound` leaves the content of that one block open;
  in `LD_PRELOAD`, where the delimiter is a space, it is harmless, which `HooksFirst` shows;
* a child that writes as fast as it is read keeps `jpl_run()` for itself: the other children
  are neither read nor buried (`KeptReading` in `Loader`).

## Fairness

`Loader`'s `FairSpec` has weak fairness for the handler (a pending unblocked signal is
delivered and nothing else runs on the thread until it returns) and strong fairness for
the main thread's steps, which the handler disables for a while again and again; it
includes that the client keeps calling `jpl_run()`, as the loop of `jpld.c` is meant to.
Nothing is assumed of children, which may write for ever, of calls of `jpl_execute()` or of
`jpl_uninit()`.  Hence `RecordedExitReported` and `LinesLogged` each allow for one behaviour,
`KeptReading`: `jpl_run()` reads one child for ever, which writes again and again.  `KList` and `LineReader`
assume that a walk or loop that was begun goes on; nothing is assumed of the writer.
`ReadReturns` holds because the child of the model writes a bounded number of characters,
that is, pauses at some time: a child that never does keeps the real loop busy.
`Program` assumes that the child is scheduled, `Daemon` that `main()` is and that libdbus
answers, its calls having timeouts.  Host processes and signals are never fair.

## Proofs

For every value of the constants:

| Module | Theorem | Property | Assumes |
|---|---|---|---|
| `LoaderProofs` | `TypeCorrect` | `TypeOK` | |
| | `NoDanglingWalk` | `WalkNeverDangles` | |
| | `NoSigchldLost` | `SigchldNotLost` | |
| | `AppCountIsExact` | `AppCountExact` | |
| | `ReportedOnce` | `ReportedOnceAfterExit` | `PidsDistinct` |
| | `UnreportedIsListed` | `UnreportedListed` | `PidsDistinct` |
| | `Refinement` | `ImplementsContract` | `PidsDistinct` |
| | `Inductive` | `IInv` | `PidsDistinct` |
| | `ListUsedAsMeant` | `AtomicList`'s `Spec` | |
| | `KnownDeadBuried` | `RunBuriesKnownDead` | |
| | `KnownDeadRead` | `KnownDeadOutputLogged`: read to the end or to a short read | `PidsDistinct` |
| `KListProofs` | `Invariant` | `IInv` | |
| | `HandlerWalks` | `WalkVisitsList` | |
| | `ReadersAreSafe` | `ReaderSound`, for the walks that only load | |
| | `ListsAreAsAsked` | `ListAsAsked` | |
| | `PointersAgree` | `BackwardAgrees` | |
| | `EmptyIsDone` | `CarefulMeansDone` | |
| | `Implements` | `ActsAtomically` | |
| `LineReaderProofs` | `AlwaysRoomToRead` | `RoomToRead`, a part of `TypeOK` | |
| | `ReaderTypeCorrect` | `TypeOK` | |
| | `ReaderChunkingInvisible` | `ChunkingInvisible` | |
| | `LogTellsTheOutput` | `LogTellsOutput` | |
| | `EveryLineAccounted` | `LinesAccounted` | |
| `SpawnProofs` | `SpawnTypeCorrect` | `TypeOK` | |
| | `ReadsOwnAlways` | `ReadsOwn` | `Unharmed`: no `pipe()` and no `fcntl()` on a terminal has failed |
| | `HostKeepsItsOwnAlways` | `HostKeepsItsOwn` | `Unharmed` |
| | `ProgramHoldsOnlyOwnAlways` | `ProgramHoldsOnlyOwn` | |
| | `NothingLeaksEver` | `NothingLeaks` | `Unharmed`, and no fork has failed |
| `ProgramProofs` | `ProgramTypeCorrect` | `TypeOK` | |
| | `EnvironmentIsAsAsked` | `EnvironmentAsAsked` | for the variables: `ValuesPlain` |
| | `MemoryIsSound` | `MemorySound` | |
| | `HooksAreFirst` | `HooksFirst` | `LibrariesPlain`; `LD_PRELOAD` neither refused nor in `env_vars` |
| | `BlocksFreedOnce` | `FreedOnce`, a part of `MemorySound` | |
| `DaemonProofs` | `DaemonTypeCorrect` | `TypeOK` | |
| | `UndoneAlways` | `EverythingUndone` | |

These are all the invariants and all the action properties that the passing runs check,
the two refinements among them.

Beside the assumptions on the constants that each module states, `PidsDistinct` says that
the kernel does not reuse the pid of a process of this session and that fresh memory
holds no pid (`PidReuse = FALSE`, `Garbage = {}`); `loader_pid_reuse` shows that the first is
needed, and without the second the handler can mark a struct whose pid is not written yet.
The assumptions named in words are hypotheses of the properties themselves.

**Registry.**  None of its properties is inductive.  `IInv` (`LoaderInv`) adds, in layers:

1. `SetupInv`, `HeldNodes`, `ExecuteInv`, `ListInv`: what is on the list, allocated and held by
   `cur`, `nxt` and `new` at each place of the main thread.  This is where the
   argument for `list_for_each_safe` lies: `nxt` is on the list when `on_child_exit` is
   called, and the only struct the client can take off there is one it put on.
2. `InProgress`, `CallInv`, `OwnerInv`, `LaunchInv`: which launch owns which struct, and in what
   stage `result`, `proc`, `reported` and the list agree.  The count follows by a
   bijection between the list and the unreported launches.
3. `KernelPidInv`, `StalePid`, `PidInv`, under `PidsDistinct`: a pid in a struct is that of its
   owner, or stale, that is, of a process that is reaped and cannot be looked up again.  So
   the handler marks the right struct.

Layers 1 and 2 need nothing of the pids, which is why six theorems hold for any use of them.
The refinement goes step by step: every action maps to one action of `ChildContract`
for one launch, or stutters.
`ListUsedAsMeant` closes the gap to `KList` below: the registry lists only structs that are on
no list and takes off only those that are, which is what `KList` assumes of the caller, and what
`Loader` takes `list_add_tail()` and `list_del()` for is what `KListProofs` shows of their stores.

**A call of `jpl_run()`.**  Both promises compare the end of a call with its begin.  `BuryInv`
says that a child that was dead at the begin is reported or still ahead of the burying
walk, whatever `on_child_exit` adds or takes off, since that is at the end of the list;
`LogInv` says that its output is read to the end or to a short read (`ReadUp`), or it is still ahead
of the reading walk, and that nothing more is written, which needs that the mark is on
the right process.

**Descriptors.**  `StepInv` (the standard three, where each call is), `OwnInv` (each number a
listed child holds is its own file, no file has two numbers, and none is the host
program's), `HeldInv` (what a child process holds at each stage) and `LeakInv` (what is open
is accounted for).  The hard case is the `fcntl()` that fails on the pipe, where the next
free number is one that was just closed.

**List.**  What a call will have done is not in the state while it is at its stores, so
the invariant speaks of the stores still to come.  `PlanInv` says that there is a course
from the list as it is to the one the call is to make: a list for each of those stores, each
led to by the pointers as they will be then, and one store changes it by one node that
comes, goes or takes another's place (`OneStep`).  With that, a walk of the handler between
any two stores finds one of these lists, and each `Store` is one step of `AtomicList` or none.
For every call a lemma gives the course from the neighbours that the call reads.
A reader does not see one list but pieces of several.  `ReaderInv` gives it a path that it
would go if nothing more changed: from some point on the path is the list as it is now, and
before that it consists of nodes that were taken off and whose forward pointers lead there
(`OnPath`); of each entry that stays, old or new after a replacement, one is on the path.
`RcuInv` keeps those pointers, `WalkInv` keeps the nodes from being used again.
`CarefulInv` says that the store that makes an entry look empty is the last.

**Reader.**  `RoomToRead` is inductive: the rest of a line is kept only while it is at least
two characters shorter than the buffer.  The other three properties compare what a turn of
the loop does with a buffer to what happens character by character.  The lemma
`LinesGrow` says what one character more makes of the lines and the rest of a buffer, so that
`Gather`, all lines of a buffer through the filter, grows like the reference `Feed`; by
induction over the characters of a chunk `ChunkingInvisible` is kept by a turn of the loop.
`LogTellsOutput` then needs no buffer any more: it is proved of the reference, by induction
over its characters, with the log understood message by message.  What is not yet
told is in the filter (`Untold`), and as long as no line came too often the count is that of
the equal lines at the end (`Counted`).  `jpl_zombies_bury()` tells the rest.
`LinesAccounted` has to hold behind a NUL, too, where the reference does not apply.  `AccountInv`
keeps books instead: lines read are accounted for, or lost with the count, which takes
away `CountMod - 1` of them at a time and cannot happen before there were `CountMod`
(`Sane`), or hidden in what is held, or cut, at most `BufferSize - 2` at a time, since
a rest that fills the buffer contains the NUL that hid them.

**Child.**  `PlaceInv`, `EnvironInv` and `HeapInv` say what the environment and the blocks are at
each place of `set_ldpreload()` and after each pair (`PairsInv`: each variable has its last
value or was refused).  The helpers of `catdup.c` go over their
strings twice, to count and to copy; each is a fold, and string by string the block is
filled up to where the count is (`TextInv` then says that every block is `Sound`).  `HookInv`
follows the value of `LD_PRELOAD` from the hooks to the environment, and reading it as a list of
names, a fold over its characters, finds the hooks before what was inherited.

**Daemon.**  `BusInv` ties connection and object to the place in `main()`.

**Induction over data.**  The theorems of the library that take a predicate cannot be used
here, and recursive operators cannot be proved about.  The models fold instead of
recurring, and the proofs state induction with a set in the place of the predicate
(`SequenceInduction` in `DataLemmas`): the sequences with a property contain the empty one and
with each its prolongations, hence all.  `FoldLemmas` unfolds the definition of `FoldLeft`
once, by the recursive function on sets of indices that it is made of.

Only model-checked:

* liveness, which needs fairness: `RecordedExitReported`, `LinesLogged`, `HandlerReturns`,
  `WalkEnds`, `ReadReturns`, `NeverComesBack`, `EndsWhenAsked`;
* that the properties of the runs that expect a violation are violated.

## Not modelled

* The wording of log messages; `fprintf` in handlers (a hazard of the C library);
* what the `exit()` of a child (`loader.c:357`) does beside ending it: the exit handlers of the
  host program run in the child, and its buffered output is written again;
* in `jpld.c`, a failing `signal()` (165-169), which POSIX does not allow for these signals, and
  the disposition of SIGPIPE (198-201), which nothing else in the daemon depends on;
* a second `jpl_init()`, and `jpl_run()` or `jpl_uninit()` called from `on_child_exit`: the code
  does not say whether a client may;
* several threads in the launcher: the library has no locks and is not meant for them;
* descriptors at or above a lowered `RLIMIT_NOFILE`;
* the memory behind an array that does not end as the code reads it;
* in `klist.h`, `list_splice()`, which is `list_splice_init()` without its last statement and
  leaves the other head pointing into the list, the macros that walk backwards or
  from the middle, and as readers the walks that call `prefetch()`;
* the D-Bus methods, which are empty, and the composition of the daemon with the
  launcher, whose one call is commented out (`jpld.c:212`): there is nothing in this commit
  that the composed model would be faithful to.

## Plan

Done, in this order: `Loader` with `ChildContract`, its invariant and proofs; `LineReader`,
`Spawn`, `Daemon`; all of `klist.h` that changes a list, with concurrent readers; `Catdup` and
`Program`; proofs of `jpl_run()`'s promises, of `Spawn`, `Program`, `Daemon`; the invariant of
`KList` and its refinement; the reader; the helpers of `catdup.c`.
Left:

1. **A re-entrant client.**  `jpl_run()` and `jpl_uninit()` from `on_child_exit`, a second `jpl_init()`,
   once the code says what it allows.
2. **Spawn with the handler**: descriptors and burial under the interleavings of `Loader`.
3. **Composition** with the daemon when its loop calls `jpl_run()`.
