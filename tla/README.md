# A verification development for OS_CS238P_Proj1

TLA+ models of the five course projects in this repository: a user-thread
scheduler, a file-backed allocator with a persistent AVL tree on top of it, a
log-structured key-value store with a background writer, an expression compiler
and a system monitor. TLC checks the models on small instances; TLAPS proves the
safety properties of seven of the components for every value of their constants: the
scheduler's, for any number of threads and steps, as far as SIGALRM leaves them true; the
log's, and that its ring is a bounded queue, for any size of blocks, caches and device; the allocator's, for any file
and any number of kills; the key-value store's, and that it is a map, for any keys and
any hash function; the tree's, and that it is a bag, for any words and any number of
levels; the shell's, and that it edits a text with a cursor, for any size of its
history; and the compiler's, for any argument of any length.

## 1. Inventory

| Component (source) | State | Operations | Interacts with |
|---|---|---|---|
| **logfs** (`project-4/logfs.c`, `device.c`) | `struct logfs`: the block being filled, a ring of blocks to write (`wcache`), a direct-mapped read cache (`rcache`), a mutex, two condition variables, `done`; the device | `logfs_open/append/read/close`; the worker `thread()`/`write_to_device()` | two kernel threads share the ring; used by kvraw |
| **kvdb, kvraw, index** (`project-4/kvdb.c`, `kvraw.c`, `index.c`) | the record log, an open-addressing hash table, the counters `size` and `waste` | `kvdb_open/close/insert/update/replace/remove/lookup` | appends and reads the logfs; not synchronised with the worker other than through logfs |
| **scheduler** (`project-2/scheduler.c`) | a linked list of jobs with `head`, `curr`, `prev`; a saved context per job; a stack per job | `scheduler_init/create/execute/yield`, SIGALRM's `interrupt_handler` | setjmp/longjmp between stacks, an asynchronous signal at any instruction |
| **scm** (`project-3/scm.c`) | a mapped file: `size_info[0..2]`, a row of chunks with headers; `used_bytes`, `user_bytes` in memory | `scm_open/close/malloc/strdup/free/utilized/mbase` | the file outlives the process; used by avl |
| **avl** (`project-3/avl.c`) | the tree and the counters `items`, `unique`, all inside the mapped file | `avl_open/close/insert/delete/exists/traverse/items/unique` | nodes come from scm |
| **shell, main** (`project-3/shell.c`, `main.c`) | a history of fixed slots, the last of which is edited in place; cursor and length of the line; the saved terminal settings, behind the history in memory | the editing keys, recall, the commands | drives avl |
| **lexer, parser, code generation** (`project-1/lexer.c`, `parser.c`, `main.c`) | token stream, expression DAG, out.c | recursive descent, C output | feeds jitc |
| **jitc** (`project-1/jitc.c`) | a child process, a handle of a shared object | compile (fork, exec gcc, wait), open, lookup, close | operating system |
| **monitor** (`project-5/main.c`) | counters of /proc, terminal | one round per second | operating system |
| helpers (`system.c`, `term.c`) | none, or the terminal | strings, time, terminal | all |

What is hard in it:

* *logfs*: two threads with two condition variables; the address of a block is
  read after the mutex is released; `logfs_close()` never takes the mutex; a block
  may be found in four places (read cache, current block, ring, device), each of
  which can be stale.
* *scheduler*: a signal handler that jumps to another stack from anywhere,
  including the scheduler's own list manipulation; `prev` computed at dispatch and
  used when the thread ends, perhaps much later.
* *scm*: the process may die between any two writes to the mapped file; the
  counters of the file and of memory can differ; unsigned arithmetic wraps.
* *kvdb*: records with the same hash share a chain; the table grows under the
  chains; reads can fail after the index has been changed.
* *avl*: deletion moves the successor's item and count and then deletes it
  elsewhere; rotations on several levels; counters maintained apart from the tree.
* *avl in the file of scm*: every assignment to a node is a write to the file, and the
  process may die behind any of them; `avl_open()` then takes what it finds.
* *shell*: a line is edited where it is kept, in the history, by eight keys that move
  its bytes and count cursor and length apart from them; a command trims its argument
  in that same memory, and the line may be recalled later.

`PROJECT.json` lists these hazards at their lines with the properties that would
catch them.

What makes each component correct:

* logfs - the ring is a bounded FIFO; what was queued is never lost; a read returns
  the bytes that were appended at its offset; appends and closes return; queued
  blocks reach the device.
* kvdb - every call behaves as on a plain map, a failed call changes nothing
  visible; the counters are exact; the index can never fill up; chains are complete
  and acyclic.
* scheduler - the list holds exactly the unfinished threads; no dead memory or
  stack is used; turns are round robin; `scheduler_execute()` returns if and only
  if all threads have ended, with everything freed.
* scm - chunks tile the used region; what the client owns is never handed out
  again and survives close, kill and open; the file is current between calls;
  `scm_utilized()` is what is in use.
* avl - the tree is a bag: sorted, balanced, with exact counters; in the file, the
  blocks in use are those of the tree, and a killed call loses as little as its order
  of writes allows.
* compiler and jitc - the value printed is that of the argument; invalid arguments are
  refused; no file outlives a call, unless it is killed or its gcc is.
* shell - the line in memory is what a text with a cursor would be; a recalled line
  makes the same call again; the line and the history stay within their arrays.
* monitor - descriptors are given back.

## 2. Modules

| Module | Models | Correspondence |
|---|---|---|
| `LogFS` | logfs.c, device.c | variables carry the field names; `mpc` and `wpc` are the control of the client and of the worker; one action per critical section or device call |
| `BlockQueue` | abstract: a bounded FIFO | `ImplementsFifo` maps the ring to it |
| `LogFSProofs` | - | the inductive invariant, the theorems about what is stored and read, and the refinement |
| `Scheduler` | scheduler.c, main.c of project-2 | `pc` names the line that comes next; every load and store of the list that other threads can come between is an action; `interrupt_handler` is enabled at the places in `Alarms` |
| `SchedulerProofs` | - | the inductive invariant and the theorems |
| `Scm` | scm.c | `info`, `hdr` are the file; `used`, `user` are memory; every write to the file that a kill can separate is a step |
| `ScmProofs` | - | the inductive invariant (a row of chunks in the file) and the theorems |
| `KvDb` | kvdb.c, kvraw.c, index.c | one action per public call (the three layers run in one thread, under no lock) plus the calls whose reads or allocations fail |
| `KvMap` | abstract: a map with replies | `ImplementsMap` maps the log to it |
| `KvDbProofs` | - | the inductive invariant of log and index, the theorems, and the refinement |
| `Compiler` | lexer.c, parser.c, main.c, jitc.c of project-1 | one operator per parser function, which takes the calls it makes from `run`; `parse()` ties them together; one action per step of `main()` that reads or writes a file |
| `CompilerProofs` | - | the parser against the meaning of an argument, the generated code, the inductive invariant of the driver, and the theorems |
| `Avl` | avl.c | the recursive functions of the code as recursive functions on trees |
| `WordBag` | abstract: a bag of words with its two counters | `ImplementsBag` maps the tree to it |
| `AvlProofs` | - | what the functions on trees do, the invariant, the theorems, and the refinement |
| `AvlStore` | avl.c in the memory of scm.c | composes the two: nodes and words are chunks, pointers are chunk numbers, a call is the sequence of its writes; `ImplementsAvl` maps the heap to `Avl` |
| `Shell` | shell.c, main.c of project-3 | the bytes of the history and of the settings behind it; one action per key |
| `LineEditor` | abstract: a text with a cursor, and the lines before it | `ImplementsEditor` maps the bytes to it |
| `ShellProofs` | - | the inductive invariant and the theorems about the bytes |
| `EditorProofs` | - | the refinement of `LineEditor`, from the invariant of `ShellProofs` |
| `MCLogFS`, `MCScheduler`, `MCScm`, `MCKvDb`, `MCAvl`, `MCAvlStore`, `MCShell`, `MCCompiler` | - | the instances TLC checks |

### LogFS

The code never looks at the bytes it stores, so the byte appended at log offset
`p` is the number `p + 1`, and a property can say where any byte came from. A
critical section of the client is one step: everything in it is touched by the
worker under the mutex only, with two exceptions, the `blk` of the slot being
written out and `done`, and neither can be seen half changed. The critical section
of the worker is split, because `logfs_close()` takes no mutex and can come in
between: after the lock, between the loop condition and `pthread_cond_wait()`, and
after the mutex is released and before the address is read (`write`). Spurious
returns of `pthread_cond_wait()` are an action of their own.

`logfs_close()` relies on what the C library does when a mutex or a condition
variable in use is destroyed, which POSIX leaves undefined. The model follows
glibc: destroying a mutex that is locked, or that a thread will take back from
`pthread_cond_wait()`, fails with EBUSY and has no effect; a lock of a destroyed
mutex fails with EINVAL (and the worker then calls `exit(1)`); destroying a
condition variable waits until nobody waits on it.

Two history variables mark the two ways in which the code departs from its
promises. `misread` is set when a read of the device fails, which leaves its cache
slot tagged (logfs.c:340): the next read of that block finds the tag and succeeds with
whatever the slot held. `reused` is set when the client refills a slot while the
worker has still to read that slot's address. It is the one interleaving in which
data is misplaced (run `logfs_slot_reuse`). The run `logfs` shows that there is no
third one: its properties exclude these two and nothing else.

### Scheduler

One kernel thread executes all user threads, so the model has one control variable,
and a user thread is the number of steps it has left. SIGALRM may come between any two
instructions and let the other threads run for as long as they like, so each load and
store of the list that they can affect is a step: in `scheduler_create()` the test of
`head` (line 57), each step of the walk (62 to 65) and the store (58 or 68); when a thread
has returned, the test of `prev` (109), the loads and the store of line 111 or 113, the
two `free()`s and the step back. What these hold in locals and registers in between
(`fresh`, `last`, `target`, `value`) is kept per thread. Lines 85 to 92 are one step,
because an alarm inside them leaves what it leaves before or behind them.

The program is compiled with `-ansi`, so `signal()` has System V semantics: one delivery
per installation and no blocking, so that leaving the handler by `longjmp()` leaves
nothing behind. The alarm is re-armed for one second at every delivery, so an interrupted
thread is taken to have made a step since it was dispatched (`ran`); without it no user
thread need ever advance, and no scheduler could promise anything. `scheduler_init()` does
not assign `curr`, and `scheduler_execute()` reads it. In this program that memory is zero
(the first `malloc()` of the process, or the block just freed, whose `curr` was NULL), and
the model starts from there.

Three constants say what is looked at. `Alarms` are the places where SIGALRM is delivered,
`Creators` those where `scheduler_create()` is called: by `main()` before it sets the
alarm, as in this program, and perhaps by threads as well. `Trims` says whether `free()`
may give pages back to the system: line 116 frees the stack the processor is on, and lines
117 to 119, `free()` included, go on using it. A stack is four pages, which glibc usually
keeps, and the properties other than `TypeOK` and `ReturnsAfterAll` assume that it does.

SIGALRM does no harm in a thread outside `scheduler_create()`, when a thread has returned
and `prev` is still to be tested, and between that test and the loads of line 111: the
first job stays the first. Elsewhere it does:

* between the test of `prev` (109) and its use (113) the job in `prev` may end: NULL is
  dereferenced;
* between the loads and the store of line 113 or 111 another thread may change the list
  behind the one that leaves it: a thread created meanwhile is lost, or a freed one linked;
* between finding the last job and the store of line 68, in a thread that creates
  another, a thread created meanwhile is lost, or the store goes to a job that was freed;
* between the unlinking and line 118 `curr` is not in the list, or is freed;
* in the loop, the context saved lies on a frame that is given up, or `curr` is NULL;
* in `scheduler_yield()` behind line 144 the context saved is overwritten by a later one.

The state `undefined` stands for all that may happen once NULL or freed memory is used or
a context on a dead frame is resumed. A job that has been freed is not given to another
thread as memory, and an alarm does not interrupt `malloc()`, `free()` or `printf()`
halfway.

### Scm

Offsets count from `base_addr`, in units of eight bytes; the counters wrap at
`Word`. `Killed` may happen between any two writes to the file; the header of a new
chunk and `size_info[1]` are written in one step because no walk reads a header at
or behind `size_info[1]`, so a kill between the two is a kill before both.

### KvDb

Records are numbered, so that an offset is the number of records before it and the
sentinel has offset 0. `Pad` is the constant 97 of `grow()`; with `Pad = 1` the
table grows twice within a few keys. The log below either returns what was appended
or fails; module `LogFS` shows under which conditions it does. In particular a read that is
made again after one that failed is taken to be right or to fail, which logfs.c:340 does not
give (section 5).

### Avl

A tree is a value, as it is always reached from the root; each C function that
returns the new subtree becomes an operator, and its recursion a function on `Trees`, the
trees of up to `MaxLevels` levels. `LeastOnce` is the assignment through the pointer
`find_min()` returned. `Total` measures a tree without regard to its order, so that the
search and the counters have something to be compared with. The allocator is left out
here and comes in with `AvlStore`.

### AvlStore

What the file holds is one record: whether the first chunk (that of `struct state`)
exists, `size_info[2]`, the fields of `struct state`, and the chunks of nodes and of
words in the order of their addresses. Each function of avl.c becomes an operator that
yields the sequence of the memories the call goes through, one per assignment to the
file. The program is compiled with `-g` and without optimisation, so these are the
order of the statements. `avl_insert` and `avl_delete` leave the last memory;
`KilledInsert`, `KilledDelete` and `KilledOpen` leave any other. The chunks in the
allocator's own terms (headers, first fit over all lengths, the walk) are what module
`Scm` is about. Here words are shorter than a node, so that the chunk of a freed
word is never large enough for a node, and each copied word is a new chunk: `scm_strdup()`
does not search.

`damage` says what killed calls have done: `"leak"`, if the tree they left is still a
balanced tree in memory that is in use, `"broken"` otherwise. Calls on a broken tree
are not followed (`CallOnRuins`). Three ways to break it: a killed rotation leaves a
node reachable twice; a killed deletion leaves a pointer to the node it has freed; an
insertion killed between linking a new node and rotating leaves a tree whose
depths are wrong, and a later insertion takes a rotation through a NULL child.

### Shell

`mem` is the memory from the first byte of `history` to the first of `termios`, the
field behind it. A slot has `N` characters, and nothing but the code keeps a line in
its own. The model has the string functions as they are called, so a line whose end is
one slot further is measured, copied and trimmed with what follows it. The name of a
command is one character. A key is an action; what is drawn on the screen is left out.
`EnterBlank` is a line of blanks, for which `read_line()` returns NULL and is called again.
When the history is full, `state.n` is `H`, and what is typed from then on is written
over the settings; the state `undefined` stands for what happens then.

### Compiler

The argument is a sequence of lexemes without blanks, and values are symbolic: a
number is its place in the argument, so that two results agree only if they are the
same expression. The functions of the parser return the tree, the token they have
come to, and whether they formatted a message with an entry past the end of `TBL[]`;
what that does (a crash or a strange message) is a choice. `Meaning` defines what an
argument denotes in another way, by dividing it at the last operator that binds least.
The generated code is a sequence of instructions; `Variables` is what they leave in the
variables they declare, and `evaluate` is the last of those. A number is of one of three
kinds. `%f` keeps six decimals, so a constant with more (`"tiny"`) is another one in the
code. `strtod()` also reads `inf`, `nan` and numbers too large, such as `1e999` (`"inf"`),
and `%f` writes a word for them, which gcc takes for the name of a variable that nobody
declares: `Code` says that an instruction uses what is declared before it, `Accepted` that
there is no such word either.

The recursion of the code is a recursive function in each case: the parser's over its
calls (a function and a token, `Calls`), the generator's over the trees that the argument
has numbers for (`Dags`), the meaning's over the parts of the argument (`Parts`). A loop of
the parser is its turns, as many as there are tokens, of which those after the last operator
change nothing. Where the loop of `expr_multiplicative()` calls itself, it takes the turns
that are left, and the loop around it ends.

The program is one call: `Init` has an out.so or not, whole or in part (`Torn`), as an
earlier call left it, and `LeavesNoFile` shows that only two kinds of calls leave one: a
call that is killed, and one whose gcc was ended by a signal, after which `main()` deletes
only out.c (main.c:107-111). A gcc that fails or is ended leaves the file that was there,
none, a part of one, or all of it (`Leftovers`): when the driver is ended, its linker may
carry on, so that the file appears later still; the gcc of an earlier call is taken to have
ended before this one. Of the out.so that is found it is assumed only that this program
had it made, or begun: gcc has accepted it (`OldCodeAssumption`). `waitpid()` is taken to
succeed, as the program waits for its only child and handles no signal.

## 3. Runs

| Run | Checks | Shows |
|---|---|---|
| `logfs` | `TypeOK`, `NoBlockLost`, `ReadReturnsAppended`, `ImplementsFifo`, `AppendReturns`, `QueuedReachesDevice`, `CloseReturnsUnlessRacing` | appends, reads and a close against the worker, with failing device operations and a device that fills up: a FIFO, no loss, right bytes, no lost wake-up |
| `scheduler` | `TypeOK`, `ListIsExact`, `PrevIsPredecessor`, `NoUndefined`, `NoOvertaking`, `ExecuteReturns` | threads that yield, return and create threads, with SIGALRM at the three places where it does no harm: list and `prev` stay exact, nobody is overtaken, `scheduler_execute()` returns |
| `scheduler_alarms` | `ReturnsAfterAll` | SIGALRM between any load and store, stacks that vanish when they are freed, `main()` creating all threads: much breaks, but `scheduler_execute()` does not return before each thread has made its steps |
| `scm` | `TypeOK`, `ChunksTile`, `LiveIsKept`, `UtilizedUntilReuse` | allocation, release, close, kill and open in every order; live chunks are kept and never shared |
| `kvdb` | `TypeOK`, `WasteIsExact`, `IndexIsSound`, `ChainsAreComplete`, `ImplementsMap` | colliding hashes, growth, tombstones, failing reads; the store is a map, its size included |
| `avl` | `TypeOK`, `ListIsExact`, `IsBalanced`, `ImplementsBag` | insertions and deletions in every order; `avl_traverse()` and `avl_exists()` agree with the bag, and so do the counters |
| `avl_store` | `TypeOK`, `HeapIsExact`, `LeaksAreHarmless`, `KilledCallsKeepWords`, `ImplementsAvl` | the tree in the file, with a call killed between any two of its writes: whole calls implement `Avl` and lose no block; what a killed call may lose; what is only leaked does no harm later |
| `shell` | `TypeOK`, `RecallIsFaithful`, `SettingsAreKept`, `ImplementsEditor` | every sequence of keys: the bytes are edited like a text, a recalled line makes the same call, the settings survive |
| `compiler` | `TypeOK`, `ParsesAsWritten`, `AnswerIsRight`, `LeavesNoFile` | what is accepted is parsed, compiled and printed as what it denotes, whatever gcc refuses or leaves; no file stays behind but after a kill or a signal to gcc |

Three runs end in a violation, each a disagreement between the code and what the
repository says of it:

| Run | Property | What happens |
|---|---|---|
| `logfs_slot_reuse` | `ReadIsRight` | the worker reads `wcache_unit->blk` after unlocking (logfs.c:110); the client has refilled the slot, and the old block goes to the new block's address |
| `scheduler_late` | `ExecuteReturns` | SIGALRM between unlinking a finished job and freeing it |
| `avl_reopen` | `OpensAgain` | a chunk that `scm_malloc()` reuses is not counted (scm.c:141) but is subtracted when freed, so `scm_utilized()` reaches 0 with a word in the tree; `avl_open()` takes that for an empty region and its assertion (avl.c:246) fails |

### Bounds

* *LogFS*: blocks of two bytes make every position in a block a boundary. Two slots
  in the ring and five blocks appended make it wrap twice; appends of 0, 3 and 4 bytes
  end inside, at and beyond a block's end; reads touch one or two blocks, at every
  offset. Two read-cache slots make blocks share one. The device has two blocks, so
  that it fills up and both range assertions of device.c fail (the one of
  `device_read()` only after a slot was reused). One spurious wake-up is enough for
  each wait to be entered again.
* *Scheduler*: four threads give a first, a last and two middle ones; two steps each
  let a thread be interrupted before and after others end; two rounds reuse the
  program's static state. With SIGALRM anywhere there are three threads: one that leaves
  the list, one before and one behind it.
* *Scm*: room for three chunks, of two lengths, so that first fit reuses a longer
  chunk for a shorter request; one kill.
* *KvDb*: four keys, two with the same hash and one whose probe wraps around the end
  of the table; capacities 1, 3 and 6; three records after the sentinel,
  enough to insert, remove and insert again, or for two keys to interleave in one chain.
* *Avl*: twelve words, because a deletion that rotates on two levels needs a tree of
  twelve nodes; one word occurs twice. `MaxLevels` bounds the levels of the tree, as the
  functions on trees need a set of trees as their domain: no tree of twelve words has
  more than five, so that six exclude nothing.
* *AvlStore*: four words are the smallest tree of which a deletion rotates, and four
  strings allow for the copy that the deletion of an inner node makes; one word occurs
  twice, so that a node outlives a deletion. One kill, in any call, followed by any
  calls. The lengths (a node 5, the state 3, a word 2) are those of the code in units
  of eight bytes; `Wrap` is above all that can be allocated, so that the counter wraps
  only by falling below zero.
* *Shell*: three slots, so that a line can be recalled over another and one slot is
  followed by a slot that is kept and by one that is edited; three cells, which hold a
  command, a blank and an argument, or are filled by them. A command with an argument, one
  without, a character that is neither, and the blank.
* *Compiler*: all arguments of up to five lexemes, unreadable ones included, which
  covers every pair of operators and every place for an error or a number that C cannot
  write; three operators, plain or with parentheses on either side, in the longer ones.

Deadlock is not reported where the system may stop: the client is not forced to make
another call, the log may be closed, the process may have ended.

### Fairness

`LogFS!FairSpec`: weak fairness of the client's steps inside a call and of the
worker's steps. Both are runnable threads of the operating system; a mutex that is
free long enough is obtained, because neither thread holds it while it waits for
the other. Starting a call is not fair. `Scheduler!FairSpec`: weak fairness of the
one process; SIGALRM and the creation of threads are not fair.

## 4. Proofs

`SchedulerProofs` proves, for every `MaxJobs`, `MaxWork`, `MaxRounds` and `Creators` with
`SchedulerAssumption`, `Alarms \subseteq {"run", "unlink", "l111"}` (`Harmless`) and
`~Trims`:

| Theorem | Statement |
|---|---|
| `InvHolds` | `Spec => []Inv` |
| `ListCorrect` | `Spec => []ListIsExact` |
| `PrevCorrect` | `Spec => []PrevIsPredecessor` |
| `NeverUndefined` | `Spec => []NoUndefined` |
| `ReturnCorrect` | `Spec => [](ReturnsAfterAll /\ NothingLeaked)` |
| `TurnsAreFair` | `Spec => NoOvertaking` |

The argument. `Inv` is the conjunction of `TypeOK`, `NoUndefined`, `ListIsExact` and
six strengthenings: `MemoryInv` (a job's memory says whether it was created and whether it
has steps left), `ControlInv` (what `curr` and `prev` are at each value of `pc`: in the
loop `curr` is the job after `prev`), `AddInv` (what `scheduler_create()` has found of the
list is still so: `last` is in it, and at line 68 the last), `LoadInv` (what lines 109 to
113 have read is still so), `ContextInv` (every suspended job has a context on its own
stack, at one of the harmless places, and one suspended before the loads of line 111 is
still the first job), and `TurnInv` (who may have been dispatched since a job last was, as
a relation between the job, `curr` and the creation order). None of the safety properties
is inductive alone: that the right job is unlinked needs `prev`, that `prev` is right needs
the list to be exact, and that no dead stack is entered needs the contexts. The list is
exact because jobs are appended and removed only, so its order is that of creation; this
spares the proof any induction along `next`. There is one lemma per action; each derives
the conjuncts of `Inv'` that the action can disturb.

Without an assumption on `Alarms` and `Trims`, SIGALRM between any load and store, it
proves:

| Theorem | Statement |
|---|---|
| `TypeCorrect` | `Spec => []TypeOK` |
| `NeverReturnsEarly` | if `Creators \subseteq {"main"}`, `Spec => []ReturnsAfterAll` |

The argument. `ListIsExact` is false then: a job that was interrupted while it left the list
may leave it again, later and elsewhere, and freed jobs stay linked. What is left of it is
that no link passes over a thread with steps to do: none lies between a job and the one
that its `next` leads to, none before `head`, and none behind a `next` that is NULL
(`Skips`, in `Linking`). This is inductive because a job only leaves when it has nothing
left to do, and what it has loaded before an interruption keeps to the same rule
(`Leaving`): as nobody is added any more, a link that skipped no such thread when it was
loaded skips none later, when fewer have steps to do. That is where the assumption comes
in: with threads that create threads, a value loaded as NULL at line 113 may be stored after
a thread was added behind, and that thread is lost. `Building` says what `main()` has built
before that, `ContextUse` that no context is used twice and that the threads with steps
left are of the current round. Since `scheduler_execute()` returns only if `head` is NULL,
no thread is unfinished then.

`LogFSProofs` proves, for every value of the constants of `LogFS` that satisfies
`LogFSAssumption`, every interleaving of the two threads, every failure of the device and
`logfs_close()` at any time included:

| Theorem | Statement |
|---|---|
| `InvHolds` | `Spec => []Inv` |
| `TypeCorrect` | `Spec => []TypeOK` |
| `NothingLost` | `Spec => []NoBlockLost` |
| `ReadCorrect` | `Spec => []ReadReturnsAppended` |
| `QueueCorrect` | `Spec => ImplementsFifo` |

The argument. Blocks are numbered in the order in which they fill up; `Queued` of them
have been queued and `popped` taken out. `RingInv` says where each is: block `b` can only
be in slot `Place(b)` = `b % WCacheBlocks`, `head` and `tail` are the places of the next
block to be queued and to be taken, and the last `WCacheBlocks` blocks are in theirs,
whether they are still to be written or not. `DeviceInv` says that every block that was
taken is on the device, except the last one while the worker has it in its hands, and
then `WorkerInv` says that it is still in its slot too. `NoBlockLost` follows, and is not
inductive without them: `device_write()` reads the address from a slot the client may
have refilled, and only `PlaceAgain` (a slot is used again exactly `WCacheBlocks` blocks
later) shows that the client then met the worker at `unit = head`, which is what sets
`reused`. For the reads, `CurrentInv` says that the current block holds the end of the log,
and `CacheInv` that a tagged slot of the read cache holds the bytes of its block - all of
them, or as far as they had been appended when the block was the current one, which is
still all of them because `logfs_append()` drops that slot before it changes the block.
While a block is being looked up its slot is tagged already and holds anything (`Looking`);
this is the gap in which a failing read leaves `misread`. `ReadInv` adds that a block not
found in the ring is older than the ring, so the device has it. The lemmas before the
invariant are the arithmetic of block addresses and of the ring, from the uniqueness of
quotient and remainder (`DivisionUnique`). The refinement then needs only that the slots
from `tail` on hold consecutive blocks (`QueueIs`).

`ShellProofs` proves, for every `H`, `N`, `Chars`, `Blank`, `Faces`, `Argc` and `Quit`,
with `ShellAssumption`:

| Theorem | Statement |
|---|---|
| `InvHolds` | `Spec => []Inv` |
| `TypeCorrect` | `Spec => []TypeOK` |
| `SettingsKept` | `Spec => []SettingsAreKept` |
| `RecallCorrect` | `Spec => []RecallIsFaithful` |

The argument. The keys move bytes relative to the ends of strings, so the invariant says
where strings end: while a line is edited, the line ends at its recorded length, and
everything behind its slot is empty, as it was when `configure()` returned. From this
follows that no `memmove()` goes beyond the next slot. That a recalled line makes the
same call again is not inductive: trimming has changed the line since its call was made.
The invariant says instead that every earlier line that did not fill its slot is
`Settled` (to trim its argument again changes nothing), and that its call is `CallOf` the
bytes it occupies, without any trimming. `EnteredIs` shows that Enter leaves such a
line, and all other keys are `Edited` steps, which change one slot and the end of it only,
so `EditedInv` carries the invariant over all of them. `Least` and `Extremes` show
that `Min` and `Max` of the visible characters are what their names say, `StrLen`
that `safe_strlen()` finds the first end.

`EditorProofs` proves, under the same assumption:

| Theorem | Statement |
|---|---|
| `EditorImplemented` | `Spec => ImplementsEditor` |

The argument. Where strings end is known from the invariant, so a string is known cell by
cell (`StringIs`), and so is what the sequence operators of `LineEditor` return (`Inserted`,
`Removed`, `TrimmedSeq`). `TrimmedString` is the central lemma: what `safe_strtrim()` does to
bytes is the trimming of a text, which `EnterKeeps` uses twice, for the line and for its
argument. `LinesKept` shows that no key touches the lines before the one that is edited,
`CopyText` that `strncpy()` shows them again as they were. One lemma per key then compares
the two descriptions of the line. `NoneFull`, that no line entered so far fills its slot, is
the hypothesis of `ImplementsEditor`, and needed: a line that fills its slot runs together
with the next one (section 5).

`ScmProofs` proves, for every `Size`, `SizeInfo`, `AddrInfo`, `Lens`, `MaxUsed`, `MaxKills` and `Word`
with `ScmAssumption`, kills between any two writes to the file included:

| Theorem | Statement |
|---|---|
| `InvHolds` | `Spec => []Inv` |
| `TypeCorrect` | `Spec => []TypeOK` |
| `TilesCorrect` | `Spec => []ChunksTile` |
| `LiveCorrect` | `Spec => []LiveIsKept` |
| `UtilizedCorrect` | `Spec => []UtilizedUntilReuse` |

The argument. None of the properties speaks of the file while it is closed, so the
invariant does (`RowInv`): at any time there is a set `S` of offsets whose chunks tile
the region from 0 to `size_info[1]` (`Tiles`), the client's chunks are in it, in use and
long enough (`OwnedInv`), and the counters are the sum of the lengths in use, or one step
behind it (`CountedInv`). The row survives each write (`RowKept`, `RowExtended`) and so
each kill. What `scm_malloc()` sees is the set its walk visits, and `ChunksAre` says that
this is `S`. Of the constants, `ScmAssumption` asks that `MaxUsed`, up to where
`scm_strdup()` may go, is at least the file's size and below `Word`: the counters do not
wrap. Both hold of the code, where a region of 2^64 bytes cannot be mapped.

`KvDbProofs` proves, for every `Keys`, `Vals`, `HashOf`, `Pad` and `MaxLog` with
`KvDbAssumption`, whether reads and allocations may fail or not:

| Theorem | Statement |
|---|---|
| `InvHolds` | `Spec => []Inv` |
| `TypeCorrect` | `Spec => []TypeOK` |
| `WasteCorrect` | `Spec => []WasteIsExact` |
| `IndexCorrect` | `Spec => []IndexIsSound` |
| `ChainsCorrect` | `Spec => []ChainsAreComplete` |
| `MapImplemented` | `Spec => ImplementsMap` |

The argument. `LogInv`: each record points to the newest older record with its hash.
`IndexInv`: the table is one in which each entry is where a search for its hash ends
(`Table`), and each entry points to the newest record with its hash (`Indexed`). Three
facts about open addressing carry it: the probe sequence of a hash passes every slot
(`WayThrough`), so that a search ends while a slot is free; an entry put where the search
for it ends changes no other search (`Put`); and `grow()` makes a larger table with the
same entries (`Rehash`), early enough that a slot is free (`GrownIs`). From the two
invariants `Searched` follows: `chain_lookup()` stops at the newest record of the key,
although it skips the records of other hashes. So `mutate()` and `kvdb_lookup()` see the
current value (`OldIs`, `LookupIs`), and each call is the call of `KvMap`. `CountInv` is
needed as well: `kvdb_size()` is the size of the map only because each call changes the
counter by what the key had before (`PresentChanged`). The keys may be infinitely many.

Both modules reason about recursive functions: the walk, the search along a chain, the
rehashing, the sum over a finite set. The equation that defines such a function is shown to
have a solution, and any solution to be what the lemma says, by taking a least argument
for which it is not (`Least`, `Greatest`, `Minimal`).

`AvlProofs` proves, for every `Words`, `MaxCount` and `MaxLevels` with `AvlAssumption`:

| Theorem | Statement |
|---|---|
| `InvHolds` | `Spec => []Inv` |
| `TypeCorrect` | `Spec => []TypeOK` |
| `ListCorrect` | `Spec => []ListIsExact` |
| `BalanceCorrect` | `Spec => []IsBalanced` |
| `BagImplemented` | `Spec => ImplementsBag` |

The argument. `Inv` is that the tree is `Good`, within its levels, and that the two counters
are its totals. A tree is `Good` if at each of its nodes the depth is right, the subtrees
differ by one level at most, the count is not 0, and the words on the left are smaller and
those on the right larger. `Total(t, W, once)` measures what is in `t` for any set `W` of
words; that an operation adds or takes away one word is an equation about all `W`, and
`avl_exists()`, `items` and `unique` are three of its cases. The core is the rotations:
`RotateRight`, `RotateLeft` and, through `Middle`, the two double ones make a good tree of
one whose subtrees differ by two, with the same total, and the depth known to within one;
`RebalancedIs` sums them up for `delete()`. For `update()` this is not enough: it chooses the
rotation by comparing the word with the child's, not by the child's balance. So `Updated`
also says on which side a subtree that became higher did so, which makes the two choices
agree. For `delete()` of a node with two subtrees, `LeastOnceCorrect` says what becomes of
the total while the successor's count is set to 1, and `DeleteBoth` that moving its item and
count up and deleting it below loses exactly one word. `delete()` then calls itself on a
tree that is no subtree of its argument, only one with fewer levels, so that
`DeleteCorrect` takes a least counterexample in levels. The bound `MaxLevels` gives the
recursive functions a domain; it appears in the guard of `avl_insert` alone, and as a
constant it is any number.

`CompilerProofs` proves, for every `Arguments` and `OldCode` with `CompilerAssumption` and
`OldCodeAssumption`, any step of the program failing or being the last before it is killed:

| Theorem | Statement |
|---|---|
| `Invariant` | `Spec => []IInv` |
| `TypeCorrect` | `Spec => []TypeOK` |
| `ParserCorrect` | `Spec => []ParsesAsWritten` |
| `AnswerCorrect` | `Spec => []AnswerIsRight` |
| `FilesCorrect` | `Spec => []LeavesNoFile` |
| `ProgramIsRight` | for a tree of an argument, `Program` is code; it is accepted, if no number is `"inf"`; and if it is, `evaluate` of it is the tree, if no number is `"tiny"` |

The argument. The parser reads from left to right and looks one token ahead; `Meaning` looks at
the whole argument and divides it from the right. That they agree has two directions.

`Accepts`: what denotes an expression is found. `AllFound` is by induction over the parts
of the argument, smaller ones first (`PartInduction`): if the lexemes from `a` to `b` denote
the tree `t`, the function of that level, called at `a`, comes to `b + 1` with `t` - at some
turn of its loop, for sums and products, as more of them may follow (`Finds`). A turn takes
the operand behind the operator at which `Meaning` splits (`ProductFound`, `SumFound`), and
the turns after the last operator change nothing (`MultStays`, `AddStays`). `WildRefuses`
follows: a message is made from behind `TBL[]` only for an argument that denotes nothing.

`ParsesSoundly`: what is found is what the argument denotes. Of the calls of the parser, take
the first that is wrong, in the order in which calls complete (a later token, then a lower
level, `Before`): it is not, as those it makes are right (`UnarySound`, `FactorSound`,
`TermSound`, gathered in `AllSound`). The difficulty is that `Meaning` splits at the last
operator outside all parentheses, which the parser never looks for. So `Sound` also says
of the lexemes a call has read that their parentheses close and do not close too early
(`Closed`), and that no operator outside them binds less than the call's level (`Reads`):
the operator a loop comes to is then the last split (`OperatorCloses`, `OperatorReads`).

`Generated` says of the code for a tree, `n` instructions into the function, that each
instruction uses variables declared before it, that each constant is one of the tree's
numbers as it is printed, and (`AsWritten`) that in any assignment of variables that obeys
the instructions the last one holds the tree, if all constants are written in full;
`ProgramGenerated` shows it by taking a least tree for which it fails. `Variables` obeys the
instructions (`VariablesIs`).

The invariant of the driver, `IInv`, is the four properties and what each of them lacks to be
inductive: the tree is one of the argument's numbers (`Tree`); out.c holds its program
while gcc runs and nothing else later (`Source`); out.so holds that program, once gcc has run,
or the old code, while gcc has not succeeded, or a part of one of them, or nothing
(`Library`, `LeftoversAre`); what is loaded came from there
(`Loaded`); and what has not happened yet at each value of `pc` (`Progress`).

The equations that define the recursive functions are shown to have a solution by
an order of their arguments in which every set has a first (`CallsWellFounded`,
`TreesWellFounded`, `Size`); the congruence lemmas say that a function looks only at
earlier arguments.

What is only model-checked:

* every liveness property (`AppendReturns`, `QueuedReachesDevice`,
  `CloseReturnsUnlessRacing`, `ExecuteReturns`): fairness and ENABLED are beyond the prover;
* everything about `AvlStore`, its refinement `ImplementsAvl` included: it is built from
  RECURSIVE operators, which the provers cannot reason about, only about recursive
  functions, whose domain is a set. The heap is also a graph, in which a killed call can
  leave a circle, so that there is no order for such functions to descend in; and a killed
  deletion can leave the word of the successor twice in the tree, so that what `AvlProofs`
  says of `update()` and `delete()`, for strictly ordered trees, does not carry over to the
  trees that `LeaksAreHarmless` is about.

## 5. Observations without a run of their own

* `logfs_close()` drops the blocks that are still queued (logfs.c:85): the worker
  gives up as soon as `done` is set. `QueuedReachesDevice` allows for it.
* A log that outgrows the device fails an assertion in the worker (device.c:143)
  instead of an error from `logfs_append()`.
* The limit of `scm_malloc()` (scm.c:147) compares bytes counted from `base_addr`
  with the size of the whole file, and `scm_strdup()` has no limit.
* SIGALRM at the places listed in section 2 (Scheduler) drops threads from the list or leads
  to `undefined`: of lines 62-68, 109-113 and 116-119 only the start of line 109 and that of
  line 111 are safe. The run `scheduler_late` shows one of these cases, at line 116.
* On an empty region `scm_mbase()` (scm.c:245) is not the pointer that the first
  `scm_malloc()` returns.
* `logfs_close(NULL)`, which the error path of `kvraw_open()` makes, dereferences NULL.
* `jitc_compile()` returns 0 also when fork(), execv() or gcc fails (jitc.c:69, :81),
  although jitc.h:23 says "0 on success, otherwise error"; with an out.so left by a
  killed call, the program then prints the value of another expression
  (`AnswerIsRight` allows for exactly that case).
* For `inf`, `nan` or `1e999` the program writes an out.c that gcc refuses (lexer.c:67,
  main.c:30), and says that the module cannot be loaded.
* If gcc is ended by a signal, `jitc_compile()` returns -1 and `main()` deletes out.c but not
  out.so (main.c:107-111), which may be there by then (`LeavesNoFile` allows for it).
* `TBL[]` is indexed past its end in the messages of `expr_additive_()` (parser.c:235);
  `ParsesAsWritten` allows for the crash, for arguments that denote nothing only.
* `jitc_open()` never returns NULL, although jitc.h says "NULL on error".
* A read of the device that fails leaves its read-cache slot tagged (logfs.c:340): the
  same read, made again, returns 0 and the slot's old bytes. `ReadReturnsAppended` leaves
  this case out by name (`misread`). `KvDb` and `KvMap` do not know it: the refinement of
  the map assumes that a read which is made again after a failed one returns what was
  appended, or fails.
* `logfs_close()` sets `done` and signals without the mutex (logfs.c:226, :231): the
  worker may have tested `done` and go to sleep after the signal, for ever; or it may be
  about to lock the mutex that is destroyed, and ends the process.
  `CloseReturnsUnlessRacing` states every other position of the worker.
* `scm_open()` with truncation sets `size_info[1]` to 0 before `size_info[2]`: killed
  between the two, the file has no chunk but does not count as empty, and `scm_mbase()` is the
  address of the first header (`avl_open` in `AvlStore` becomes undefined). Killed
  between `scm_malloc()` and the `memset()` of the new state (avl.c:241), the file is
  opened next time with the root of the tree that was truncated.
* A full history is not full for `read_line()`: the line after the last is edited in
  `history[H]`, where the settings are, and the one after it further behind.
* A blank may be typed where another character may not (shell.c:158): it fills the slot,
  the end of the line goes to the next one, and the two lines run together when either
  is recalled. This is the case that `RecallIsFaithful` and `ImplementsEditor` except.
* At the end of its input the shell never stops: `getchar()` keeps returning EOF, which is
  no key.

## 6. Not modelled

* **The monitor** (`project-5/main.c`) is one loop that reads files of /proc and prints
  rates; it keeps nothing between two rounds but the values of the last one. What could be
  wrong in it is on single lines: `/proc/net/dev` is opened in every round and never
  closed (main.c:138), and counters are read before they are assigned if a line is
  missing. A model would restate these lines.
* **Helpers** (`system.c`, `term.c`): strings, time and the terminal, without state.
* **The driver of the store's tests** (`project-4/main.c`) makes one fixed sequence of
  the calls that `KvDb` makes in every order.
* What the shell and the monitor draw on the screen.
* `device_open()`'s geometry and the error returns of `scm_open()` come before any state
  exists.
* The state of the C library (an alarm inside `printf()` or `malloc()`).
* A kill in the middle of a machine word, or a file system that loses or reorders the
  pages of a mapping: the process is killed, the machine is not.

## 7. Plan

1. Done: `LogFS`, `Scheduler`, `Scm`, `KvDb`, `Avl`, `AvlStore`, `Shell`, `Compiler` with
   their abstract specifications, the proofs about `Scheduler`, `LogFS`, `Scm`, `KvDb`,
   `Avl`, `Shell` and `Compiler`, and the refinements of `BlockQueue`, `KvMap`, `WordBag`
   and `LineEditor`.
2. Left to prove: the safety of `AvlStore`, with its walks as recursive functions over the
   heap and the rotations re-examined for trees that hold a word twice.
3. Left to model: the limit of `scm_malloc()` (scm.c:147) as a property of a region that is
   almost full.
