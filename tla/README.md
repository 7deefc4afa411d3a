# Verification of the PSO workspace

The repository is a collection of small POSIX programs in C: the laboratory and
examination exercises of an operating-systems course.  There is no single
product; what the programs share is their subject.  Almost all of the larger
ones are servers or pipelines made of threads, processes, mutexes, condition
variables, semaphores, pipes, sockets and signals, a few hundred lines each.
This directory models all that have any concurrency worth the name: the larger
programs by a TLA+ module each (or one per skeleton that several programs share),
the small ones as scripts for two small machines, one of threads and one of
processes.  It checks them with TLC and proves what matters most about the larger
programs with TLAPS.

1. [Inventory](#1-inventory) — 2. [Plan](#2-plan) —
3. [Modules and the code](#3-modules-and-the-code) —
4. [Runs](#4-runs) — 5. [Fairness](#5-fairness) — 6. [Proofs](#6-proofs) —
7. [Disagreements found](#7-disagreements-found) —
8. [What is not modelled](#8-what-is-not-modelled)

Paths below are relative to `src/`.  `PROJECT.json` lists the components, the
hazards with their lines, the runs, and for every definition the lines it
stands for.

## 1. Inventory

### The programs that are modelled

| Program | State it keeps | Operations | What is hard in it |
|---|---|---|---|
| `practice/thread_pool/pool.c` and `client.c` | `taskQueue`, `task_count`, `task_mutex`, `task_cond`, `task_Max_cond` | main accepts and queues; workers take, receive, answer | a signal sent without the mutex; an array shifted under concurrent use; waiting for room and waiting for work |
| `EXAMS/PART2_lab14/server.c` and `client.c` | `jobs`, `id_seed`, `running_jobs_nr`, `sem`, `jobs_mutex`; the child processes | `run`, `get_status`, `kill_job`, `get_output`, `get_jobs`, `istoric`; a thread that waits for children; the end on SIGTERM | fork in a threaded process, `wait` that returns any child, a table written outside its lock, a double lock, descriptors that leak to a child |
| `practice/timer__/server.c` | `task_list`, `task_count`, a one-shot timer, `stop_threads` | `add_task`, `process_task`, `timer_handler`, `signal_handler` | a signal after the unlock, decisions on a stale count, a stop flag that sleepers do not read |
| `EXAMS/30.01.2023/server.c` | the shared file position, `citit`, `current_tasks`, `files_list`, a pipe and its semaphore | commands `generate` and `checksum`; START/STOP messages to a child | a hand-made barrier, spinning on a list of files in use, test-then-insert, message boundaries in a pipe |
| `EXAMS/01_02_2023/server.c`, first program | a bounded list of commands, two semaphores, a pipe | children write commands, main reads them into the list, workers take them out | reads of a fixed length from a pipe whose messages have another; the posts that end the workers |
| `EXAMS/01_02_2023/server.c`, second program | `finished`, `mutex_finish`, a pipe of one byte, the client threads | accept with a time limit, echo, SIGINT | a handler that locks the mutex of the thread under it; a loop left with the mutex held; a byte that many threads wait for |
| `EXAMS/examen_23_06_2023___/server.c` and `client.c` | the same, without the pipe | accept with a time limit, answer or send a file, SIGTERM | threads in a `recv` that a signal restarts |
| `EXAMS/examen_29_09_2024_STORE/server.c` | customers, products, their mutexes, `reducere_flag`, `semaphore_stock_null` | buying, deleting what is sold out, restocking and reducing prices, a child that polls the stock and signals its parent | indexes used after an unlock, error paths that keep mutexes, a handler that locks, interrupted system calls |
| `EXAMS/30.01.2024/server.c` and `client.c` | slots of a cache, `cache_mutex`, a file | read or write a range of bytes through the cache; fill and evict slots | a mutex unlocked once more by every pass of a loop; an eviction that may never end; a socket handed out by address |
| `lab14_DAv/server.c` and `client.c` | `jobs`, `id_seed`, `running_jobs`, `job_index` | `run`, `get_status`, `get_stdout` | counters read outside the mutex that guards their updates |
| `Lab7_threads/practice/PLANNER/planner.c` | queues by priority, the thread whose turn it is, one mutex, two condition variables | fork a thread, wait for one's turn, choose the next | one signal for many sleepers, a mutex unlocked by who has not got it, signals before the wait |
| `Lab7_threads/lin_Exercises/4-pfgrep` | the chunks of a file | count a string in parallel | overlap of chunks, unsigned sizes that wrap |
| fourteen programs of threads: `malloc.c` with `critical.c`, `spin.c`, `once.c`, `blocked.c`, `prodcons.c`, `threads.c`, `second_practice.c`, `ex1.c`, `barier.c`, `cond_var.c`, `cond_var_prac.c`, `ex_Lab_toght.c` (all in `Lab7_threads`), `practice/thread_pool/server.c`, `EXAMS/restanta_30_06_2023/server.c` | words, an array, mutexes, conditions, semaphores, barriers | what each thread does with them | lost increments, lost signals, guards before signals, indexes past an array |
| twenty-four programs of processes in `practice/`, `LAB3`, `Lab4`, `Lab7_threads`, `EXTRA_exercises`, `EXAMS/encrypted_2023`, and the tiny shell | descriptors, pipes and fifos, semaphores, handlers, masks | fork, pipe, dup, read, write, wait, kill, pause | write ends that stay open, reads that bring two messages, signals before the wait for them, interrupted waits |

### How their parts interact, and what makes each correct

**The pool** (`pool.c`).  main and `MAX_THREADS` workers share the array through
`task_mutex`.  main signals `task_cond` once per task; a worker that has
answered signals `task_Max_cond`, without the mutex, for main, which waits there
when the array is full.  Correct means: indexes stay in the array, no accepted
client is lost or served by two threads, no task stays behind while all workers
sleep, main does not sleep with nobody to wake it, clients are served in the
order they were accepted, and every client is answered.

**The job server** (`PART2_lab14`).  main accepts and starts a thread per client.
The handler of `run` takes an id, a slot and forks; a thread blocked on `sem`
waits for whichever child ends first, finds its entry and marks it.  Correct
means: the counter of running jobs and the semaphore agree with the children
there are, ids are not shared, "finished" is true and stays so, children that
end are reaped and marked, requests are answered, and the server ends when told.

**The timed pool** (`timer__`).  A worker that finds the list empty arms a timer;
main, if it finds it non-empty, cancels it; the timer's signal sets a flag and
wakes everybody.  Correct means: no task is lost or taken twice, none stays
behind while all sleep, and the timer runs when there is nothing left to do.

**The file workers** (`30.01.2023`).  One thread per line of a command file; they
meet at a barrier, take lines under a semaphore, take the files of their line by
flags in a shared list, and frame each command by messages to a child process,
handed over by a named semaphore.  Correct means: a file has one user, the child
reads one message at a time, no thread runs into the end of the file, and all
threads end.

**The command pipeline** (`01_02_2023`, first program).  Processes write into one
pipe, main reads pieces of 18 bytes into a list of four, workers take them.
Correct means: the semaphores account for every place and every command,
commands stay whole and in order, and the program ends.

**The select servers** (`01_02_2023`, `examen_23_06_2023___`, the end of
`PART2_lab14`).  A signal handler sets `finished` under a mutex that main (and in
the job server the waiting thread) locks to test it.  Correct means: the mutex
is held exactly where the code relies on it, and the process ends once the flag
is set.

**The store** (`examen_29_09_2024_STORE`).  A thread per client, one that deletes,
one that obeys the administrator, a child process that is itself a client and
signals its parent, and the handler of that signal.  Correct means: what is sold
out is noticed, nobody pays more than he has unless something changed after it was
tested, and requests are answered.

**The file cache** (`30.01.2024`).  Threads share slots of 100 bytes in a mapping that
child processes could share, too; a read or write scans the slots under
`cache_mutex` and, if the block is in none, loads it and scans again.  The scan
unlocks at the end of every pass but locks once.  Correct means: a reader is sent
the block it asked for as it was last written, and every request is served.

**The earlier job server** (`lab14_DAv`).  A thread per client serves one command and, for
`run`, waits for its own child.  Correct means: the counters agree with the
threads, a job whose id was told exists, and connections are answered.

**The planner** (`PLANNER`).  Threads wait for their turn on one condition variable, main
for the end of a slice or a fork on another.  The handler of the first thread forks the
others and joins them, so handlers nest.  Correct means: a forked handler runs only in its
turn, never with another forked one, and only inside the handler that forked it and waits
for it; and the scheduler ends.

**The pattern counter** (`4-pfgrep`).  Threads share a read-only mapping; correct means
that the sum of what they count is what the serial program counts.

**The programs of threads and of processes.**  Each is started, does a bounded amount of
work and ends.  Correct means: no increment, item or message is lost, doubled or out
of order, whoever waits for its children leaves none behind, and the program ends.

Hard behaviours, by kind: steps of two threads in an unexpected order (all of
them); state read under a lock, or without one, and used after it (timer, store, both
job servers, cache); handlers on top of threads (select servers, store); messages
of the wrong length (pipeline), or two in one read (pipe programs); signals that
come before the wait for them (condition variables, `sigsuspend`, `pause`);
descriptors that keep a pipe open (`pipe.c`, `encrypted_2023`, the shell); one step
of several failing (fork, `recv`, a customer who cannot pay); everyone waiting on everyone (file workers, select servers).  There is no
persistent state and no retry anywhere, so crash recovery and retries are not
among them.  `PROJECT.json` has the list with the line of each.

## 2. Plan

Order: the program whose synchronization is most classical first, with its
abstract specification and its proofs; then the program with most parts (the job
server); then the rest by how much of the code's hazards each carries.

| Step | Modules | State |
|---|---|---|
| 1 | `FifoDispatch`, `TaskPool`, `TaskPoolProofs` | done |
| 2 | `JobServer` | done |
| 3 | `TimerPool`, `FileWorkers`, `CommandPipeline` | done |
| 4 | `SelectServer` (three servers), `Store` | done |
| 5 | `FileCache`, `ForkServer`, `Planner`, `PatternCount`; `CacheBeside` and `PlannerBeside`, the cache and the planner under names of their own | done |
| 6 | `Pthreads` and `ThreadPrograms`; `ProgramsBeside`, the programs under names of their own; `MCThreads`, which composes steps 5 and 6 | done |
| 7 | `Processes` and `ProcessPrograms`, the shell among them; `MCProcesses`, which composes them with `CommandPipeline` | done |
| 8 | `CountingLemmas`, `TimerPoolProofs`, `FileWorkersProofs`, `StoreProofs`, `JobServerProofs`, `CommandPipelineProofs`, `ThreadProofs` (select servers, `lab14_DAv`, planner, pattern counter, file cache, counting scripts), and the refinement in `TaskPoolProofs` | done |
| 9 | proofs about the other scripts: `once`, the arrays of items, the programs of processes | not done |

Composition: `TaskPool` instantiates `FifoDispatch` and is shown to implement it;
`SelectServer` composes main, client threads, the handler and the job server's
waiting thread around one mutex; `JobServer` and the program "jobs" of
`SelectServer` are two views of one program that share no state but `finished`
and the mutex around it.  `ThreadPrograms` and `ProcessPrograms` extend their machines.
`MCThreads` and `MCProcesses` put several small models into one run: a behaviour picks
one program in its initial state and runs only that one, while the variables of the
others stay as they are.

Theorems: those of section 6, for every module of steps 1 to 5 and for the scripts that
count under one mutex.  Not done are the other scripts of steps 6 and 7: each would need an
invariant of its own, with a conjunct for each instruction, and they are of a fixed
and small size which TLC explores completely.  No module
declares a RECURSIVE operator, constants carry named assumptions, and invariants are
conjunctions of named parts.

## 3. Modules and the code

Conventions of all modules:

- One action per statement or block that another thread can see in between.  A
  critical section that touches shared data only under its mutex is one action;
  where a mutex is worth questioning (the pool's array, a mutex that some path
  never unlocks) the lock is a variable and the section has several actions.
- A thread's place is `pc[t]` (or `main`, `waiter`, `child`); "waiting" is the
  wait set of a condition variable, and a signal moves one waiter, any one, to
  "relock".
- A process that exits (`exit`, `return` from main) sets `running` to FALSE, and
  nothing happens afterwards.
- Text, addresses, output to the terminal and set-up that cannot run
  concurrently are left out; what remains of a message is what the code tells
  apart.
- An operator whose comment begins with "Variant:" is no part of the
  specification.  It is the named definition with a plausible mistake in it, and
  each property is confirmed to fail with at least one of them.

| Module | Code | State variables and what they stand for |
|---|---|---|
| `FifoDispatch` | (abstract) | `waitingLine`, `serving`, `served`: what any pool of threads promises |
| `TaskPool` | `practice/thread_pool/pool.c` 12-141, `client.c` | `taskQueue`, `task_count`, `task_mutex` as in the code; `new_task` is each thread's local variable; `conn`, `sent`, `hung` are the connections |
| `JobServer` | `EXAMS/PART2_lab14/server.c` 23-343, 391-426 | `jobs`, `id_seed`, `running_jobs_nr`, `sem`, `jobs_mutex`; `op`, `id`, `pid`, `nr` are locals of the handlers; `waited`, `found` of the waiting thread; `proc` the children and the descriptors they inherited; `down` says that a request, or a client that is gone, has made the kernel end the server |
| `TimerPool` | `practice/timer__/server.c` 9-180 | `task_list`, `stop_threads`; `timer` and `sigusr2` the timer and its signal; `processed`, `dropped` are history |
| `FileWorkers` | `EXAMS/30.01.2023/server.c` 51-437 | `citit`, `files_list`, `current_tasks`; `filepos` the position of the shared `FILE`; `held`, `look`, `step`, `line` locals; `sem_pipe`, `pipe`, `child` the messages; `process` says whether the threads have been started, and whether the program has exited or overrun its list |
| `CommandPipeline` | `EXAMS/01_02_2023/server.c` 14-182 | `comands_list`, both semaphores, `finished`; `pipe` holds units of messages; `taken` is history |
| `SelectServer` | `EXAMS/01_02_2023/server.c` 227-441; `EXAMS/examen_23_06_2023___/server.c`; `EXAMS/PART2_lab14/server.c` 92-432 | `program` says which; `mutex`, `finished`; `notified` the byte; `handler` the handler on top of each thread; `waiter`, `sem` and `childOf` (the child each thread has started) are the job server's |
| `Store` | `EXAMS/examen_29_09_2024_STORE/server.c` 26-529 | `product_list`, `current_products_Nr`, `money`, `reducere_flag`, `stock_null`; `mutex` the three mutexes; `index` the local that survives an unlock; `refilled` (products that restocking brought up to zero) and `reduced` (whether prices were ever reduced) are history |
| `FileCache` | `EXAMS/30.01.2024/server.c` 17-313 | `slots`, `cache_mutex`, `client_sock` as in the code; `sock`, `order`, `byte_start`, `bytes_size`, `index`, `found`, `least_used_index`, `start`, `left` are locals; `file` the versions on disk of the blocks written so far; `replies`, `evicted` (a slot was given to another block) and `stolen` (a thread unlocked the mutex another one had) are history.  `CacheBeside` instantiates it with names of its own |
| `ForkServer` | `lab14_DAv/server.c` 25-322 | `status` (`jobs[].status`), `id_seed`, `running_jobs`, `job_index`; `job_id`, `command` are locals; `files`, `child` the output files and the processes |
| `Planner` | `PLANNER/planner.c` 39-223 | `ready_queues`, `current`, `mutex`; `thread_id`, `slices` the fields of a task.  `PlannerBeside` instantiates it with names of its own, for the modules that hold other programs too |
| `PatternCount` | `parallel_fgrep.c` 42-168, `serial_fgrep.c` 47-83 | `text`, `string`, `result` of every thread, `total` |
| `Pthreads` | (external) | the machine: `script`, `pc`, `asleep`, `reg`, `mem`, `owner`, `cells`, `taken` |
| `ThreadPrograms` | the fourteen programs above | one operator per function of the C program, a sequence of instructions.  `ProgramsBeside` instantiates it with names of its own (`lab` is its `program`) |
| `Processes` | (external) | the machine: `life`, `home`, `parent` of every actor, `fds`, `data` and `got` of the pipes, `sem`, `act`, `blocked`, `pending`, `flag` of the signals |
| `ProcessPrograms` | the programs of processes above | as in `ThreadPrograms` |

Choices worth knowing when reading a module against its code:

- **`TaskPool`.**  Taking, shifting and decrementing are separate actions, and so
  are main's store and increment, so that the mutex is what keeps them apart and
  not the model.  Shifting a full array reads one entry past its end
  (`pool.c:61`); the model puts an arbitrary value there.  A worker whose `recv`
  or `send` fails exits the process, as `exit(1)` does.
- **`JobServer`.**  Only `jobs_mutex` is a variable; `get_status` may lock it twice
  (`server.c:185`), after which its thread is "stuck" and holds it.  `run` fills
  the entry without it.  A child in the table is its pid; a pid may be given out
  again by the kernel when `PidReuse`.  `Fork` records which client sockets are
  inheritable at that moment.  Ids are counted from 0.  The table has an entry for every
  client, since each takes at most one id; `MaxClients` is the 500 entries of `tid` and
  `param`, which the 1000 of `jobs` exceed.  A request whose argument is missing leaves
  `strcpy` (`server.c:68`, after the id and the slot are taken) or `atoi` with NULL, and an
  answer to a client that is gone raises SIGPIPE: `Crash`, by a client in `Careless`, ends
  the server wherever it stands.  A command the server does not know ("other") is
  not answered, and its socket is closed.
- **`TimerPool`.**  The list changes only in critical sections; the actions after
  the unlock (`Signal`, `TestNonEmpty`, `Cancel`, `TestEmpty`, `Arm`) are separate.
  `timer_handler` sends a signal whose handler is two actions, since sleeping
  workers may be woken only after the flag is set.
- **`FileWorkers`.**  `verify_existency` returns index 0 both for the first entry
  and for none (`server.c:51-65`); `VerifyPresent` and `VerifyAbsent` keep that.
  A thread that finds a flag set goes round its loop: here `Take` is not enabled
  and the thread tries again, which has the same outcomes.  What the files hold
  is left out.  The array of the list has `MaxPthreads` entries and nothing compares
  `list_counter` with it; since names are added again, a command file that passes the test of
  its number of lines (`server.c:265`, `CreateThreads`) may still overrun it.  The model
  ends there (`Overrun`), because what the code does next is undefined.
- **`CommandPipeline`.**  The pipe is a sequence of units and main reads up to
  `ReadLen` of them (18 bytes in the code).  A command contains its child's pid;
  only with five digits has it 18 bytes, so each child's commands have a length
  chosen at the start.  What is not overwritten in main's buffer is `None`.
- **`SelectServer`.**  A handler occupies its thread: no action of a thread is
  enabled while its handler runs.  `mutex` is a default mutex of glibc: locking it
  twice blocks for ever, and unlocking it from another thread unlocks it.  In
  "pipe" the flags of the `sigaction` are not initialised (`memset` clears one
  byte); that the handler is reset after a signal is a possible outcome, and then
  the next one ends the process (`SignalKills`).  In "jobs" a child exists before its pid is in
  the table, so the waiting thread may reap it first; what uses the table does so in a
  step of its own under `jobs_mutex`, and the request for the status of a job without a pid
  may lock that mutex twice: its thread is "stuck", and whoever needs the table afterwards
  waits for ever.
- **`Store`.**  A section's mutexes are always taken in one order, so each section is
  one step; a signal may nevertheless arrive in its middle, and `Signal` gives the
  thread the mutexes the section needs.  An interrupted `accept` or `recv` ends the
  server, an interrupted `sem_wait` lets the thread delete (no SA_RESTART,
  `server.c:356`).  A request of fewer than two words ends the server (`NoRequest`), and so
  does a customer who has gone before the answer is sent (`AnswersNobody`).  `amount / 100`
  is the integer division of C, towards zero.
- **`FileCache`.**  A pass over the slots looks at one slot per step, because the
  mutex may be free meanwhile: only the first pass of a request locks it and each
  unlocks it, whoever has it.  That a slot is seen free, that it is claimed and that
  its block is read are three steps, so two threads may claim one slot; the claim
  itself (`is_used`, the name, `byte_start`) is one.  A client sends its requests one
  after another.  A block of the file is its number and a version; how `strcpy` cuts the
  bytes of a slot is left out.  `store_cache` uses copies of the caller's arguments.
- **`ForkServer`.**  The id is read before the command (`server.c:205`), so its value may
  be stale by the time `run` uses it.  A command without a space makes the thread
  write through a null pointer, which ends the server (`down`), and so does writing to a
  client that is gone.  A command the server does not know is neither answered nor its
  socket closed.
- **`Planner`.**  `so_fork` unlocks first, so nothing is protected by the shape of the
  model: every access is a step.  `pthread_create` may give a new thread the id of one
  that was joined.
- **`PatternCount`.**  Subtractions wrap as those of `size_t` do.  A read past the page
  of the mapping ends the process.
- **`Pthreads`** has loads and stores as separate steps, so increments outside a
  critical section are lost where they can be; a signal is lost if nobody waits; a
  wait may return although nobody signalled.
- **`Processes`.**  A process that dies closes its descriptors and becomes a zombie while
  its parent may wait for it.  A read at the end waits while any process has the write
  end.  A signal is delivered between two instructions; it ends a pause, and makes a
  blocking call fail unless the handler was set with SA_RESTART.  `sleep` is left out,
  because it orders nothing: a signal sent after a `sleep` of the sender may still come
  before the receiver is ready.
- **The tiny shell** is `shell_main(line, next)`: two lines from all kinds it tells apart.
  A pipeline of three commands runs as two pairs, the middle one twice, as in
  `parse_pipes_commands`.

## 4. Runs

Each `.cfg` instantiates the module `MC<Component>` beside it, which only names
sets and small inputs.  Deadlock is not checked anywhere: all of these programs
may end, exit on an error, or be left by their clients, and where a state
without a successor would be wrong a property says so (`NeverStuck`,
`AllThreadsEnd`, `ProgramEnds`, `EndsUnlessStuck`, and the "answered"
properties).

| Run | Bounds | States | What it shows |
|---|---|---|---|
| `task_pool` | 2 workers, 3 clients of which 1 may hang up, queue of 2, spurious wakeups; fairness | 222 000 | `TypeOK`: indexes stay in the array. `AcceptedOnce`: an accepted client is in one live slot or in one thread's hands. `MainHasWaker`. `ImplementsDispatch`: the pool implements `FifoDispatch`. `EveryClientAnswered`, or the process has exited because a client hung up |
| `job_server` | 3 clients, each with any request, one the server does not know and one without its argument included, any of which may be gone before its answer; 2 pids, limit 2; fork may fail, pids are reused, clients name any id; symmetry | 602 000 | `BooksBalance`: counter, semaphore and children agree (a failed fork costs a slot for ever), and no id is given twice. `FinishedIsDead`: what is finished has ended or was killed, unless its pid had belonged to another job |
| `job_server_honest` | 2 `run` requests, 1 client that asks for the status of a job it was told of, kills it or sends an unknown command; any may leave out its argument or be gone; distinct pids, fork succeeds; fairness | 339 000 | `FinishedIsFinal`, `NeverStuck`, `RecordedJobFinishes`. `EveryRequestAnswered`, and the socket closed, except that of a rejected `run`, or the server has gone down |
| `job_server_inherit` | 2 clients, 1 pid | — | violation of `InheritNothing` (section 7) |
| `timer_pool` | 3 workers, 4 tasks, list of 2; fairness | 204 000 | `TaskOnce`: each task is refused, listed, in one worker's hands or processed. `TaskProcessed`, unless the stop flag is set first |
| `timer_pool_idle` | 2 workers, 2 tasks | — | violation of `IdleMeansTimer` (section 7) |
| `file_workers` | 3 lines and threads, 2 files, both kinds of command, a list of 3; fairness | 436 000 | `FileExclusive`, even when the list holds a name twice, until it overruns its array. `OneAtATime`: one message in the pipe, no thread at the end of the file. `AllThreadsEnd` |
| `file_workers_list` | 2 lines | — | violation of `ListedOnce` (section 7) |
| `processes` | pipeline: 2 children with 2 commands each, 2 workers, list of 2, commands of 1, 2 or 3 units read 2 at a time; programs: up to 4 children or threads each; fairness | 330 000 | `CommandsKept`: every place and command of the list is accounted for, nobody takes from an empty list, commands stay whole and in order when pids have five digits. `ProgramEnds`, whatever they have. `AllRead`: messages arrive once and in order. `NothingLeft`: no process stays behind a program that waits, no process or descriptor behind a line of the shell. `ProcsEnd`: every program ends but for the named ones |
| `select_server` | three programs, 2 clients, 2 signals; fairness | 687 000 | `EndsUnlessStuck`: a server that goes on after a signal is in one of the named ways. `ByteEndsThreads` |
| `store` | 2 buyers, 2 polls of the child, 1 or 2 products of 1 piece, 1 command; fairness | 873 000 | `SoldOutAnnounced`, stale indexes included. `OverdrawnOnlyIfChanged`. `DenialEndsBusiness`. `EveryRequestAnswered`, unless the server exits or a mutex is lost in a named way |
| `threads` | one of fourteen thread programs with 3 rounds, a cache of 2 slots and 2 clients with one or two requests each, 3 clients of `lab14_DAv`, a planner with 3 threads of 2 slices, files of up to 7 letters in 4 chunks; fairness | 203 000 | `NothingLost`: counters and items, `init_func` and `deinit_func` take turns, arrays are not overrun where there is a wait for room. `SameAsSerial`. `HandlersNested`. `TableAgrees`. `ReadsFresh`: what is sent is the block asked for as last written, until a slot is given away or a mutex is unlocked for another. `AllServed`: every program ends and every request is served but in the named ways |

Every run is exhaustive within its bounds.  No bound cuts an execution short:
counters are bounded by the number of clients, tasks, signals or commands, which
are constants, and an execution simply has no more of them.

**Why the bounds are enough.**  In the pools, two workers are needed for one to
take what another was woken for; three clients with a queue of two fill the queue
while a third is being added, and let main wait for room.  In the timed pool the
third worker lets one sleep while two race for the list and the timer, and four
tasks with a list of two are enough for a refusal.  In the job server, three
clients make a rejection (limit 2), a `run` between another's `accept` and
`fcntl`, and a request about a job that is half made; two pids for three jobs
force reuse.  `job_server_honest` takes distinct pids because no property about
marking can hold when the kernel reuses one between `wait` and the search
(`server.c:319-330`): the code has no defence and nothing in it could have.  Its
clients name only ids they were told, since an id never given out is what leads
`get_status` to the double lock.  In the file workers, three lines let a thread
spin while another extends the list; a list with as many entries as there may be lines, as in
the code, is overrun in some executions and not in others.  In the pipeline, a read length of two with
messages of one, two and three units stands for 18 bytes and pids with fewer,
just as many, and more than five digits; two children and two workers compete at
both ends.  For the select servers two signals are what it takes for a handler to
wait for a mutex another one's thread kept, and for the reset handler.  In the
store, one customer can pay for everything and one for nothing.  Two products of one
piece let an index go stale; with a single one the stock runs out while the other
buyer still waits, which two of the ways a mutex is lost need.

In `threads`, two rounds would lose an increment and three let both threads of
`prodcons` meet an empty and a full array of two; a second turn of `run_threads`
starts over what the first left.  In `once` two threads are enough for init and deinit to run
twice.  `tasks` reads one line more than the array holds.
Two slots of the cache with requests that reach past the second block fill it and evict; two
clients overwrite main's socket variable.  A client may ask for one block and then for
another: only then, or with a third client, can a thread still in its locked scan meet a
slot that is claimed and not yet loaded, after another thread's unlock has freed its
mutex.  `ReadsFresh` is false there, which is why it ends with the first such unlock
(`stolen`); without that premise TLC finds the violation in this instance.  In `lab14_DAv`, a limit of one and two jobs
pass the test together, and a third client asks, or sends an unknown command.  The planner's first thread has two
slices, so its second fork finds a pthread_t that may be used again.  For the
pattern count, sizes of 1, 2, 4, 5 and 7 letters in four chunks have last chunks that are
full, short, empty and below zero, for strings of one to three letters; the page is
long enough for a file and short enough for a wrapped size to leave it.  In
`processes`, two children are the least that leave two messages for one read, or a
write end in another's hands; the scripts are short, and their only loops wait or send
a signal again, so no bound on steps is needed.

**What the properties with named exceptions mean.**  `EndsUnlessStuck`, the store's
`EveryRequestAnswered`, `AllServed` and `ProcsEnd` have the form "eventually always,
if it is not done, then one of these".  The exceptions are defects of the code; the
property says that there are no others.  They are stated as formulas
on the state (`StuckHandler`, `SilentClient`, `KeptFromOther`, `NothingEnds`, `TableLocked`;
`Jammed`; in `threads` `LostSignal`, `AllTaken`, `Lost`, `ForkFailed`, `Spins`, `Seeks`, `Orphan`;
`Stuck` in `processes`), each of which the models reach:

- `StuckHandler`: the handler runs on the thread that holds the mutex, or after a
  loop has ended and kept it;
- `SilentClient`: a client connects and says nothing, and no byte in a pipe will
  make its thread leave `recv`;
- `KeptFromOther`: in the job server, main or the waiting thread has ended its loop
  with the mutex and the other one wants it;
- `NothingEnds`: in the job server, the waiting thread sits in `sem_wait` or `wait`
  and tests the flag only after the next child has ended;
- `TableLocked`: in the job server, a thread has locked `jobs_mutex` twice in `get_status`
  (`server.c:185`).  It never ends, nor does a later `run` that has to record its pid
  or the waiting thread that has to mark an entry, and main joins them;
- `Jammed`: in the store, a customer could not pay (`verify_Transaction` returns
  with both mutexes locked); a handler wants what its own thread has, or what an
  earlier handler has kept (`server.c:301`); or two handlers wait for each other:
  one has `reducere_mutex` and wants `products_mutex`, the other has interrupted a
  thread that holds `products_mutex` and wants `reducere_mutex`;
- `LostSignal`: `cond_var.c` waits without a predicate for a signal that was sent before;
- `AllTaken`: the workers of `restanta_30_06_2023` take every task and wait for more;
- `Lost`: in the planner a thread waits for its turn after main's signal woke another one, or
  main waits after the last thread has signalled;
- `ForkFailed`: in `lab14_DAv` a fork failed, and the client is told nothing; nor is the
  client of an unknown command;
- `Spins`: in the cache, a thread evicts for ever, because with every slot in use the bytes
  of the request that remain may stay as many; `Seeks`: a request that reaches past its
  block goes on with the next one though no byte is left to ask for, `store_cache` stores
  nothing, and the thread looks for that block for ever; `Orphan`: the next `accept` came
  before a thread had read main's socket variable, and no thread has the earlier one; a
  fourth way is the end of the process, when a request takes more slots than the cache
  has and none was in use before (`server.c:95` with an index of -1);
- `Stuck`: `pipe.c` and `encrypted_2023` keep a write end open; in the event and the
  semaphore program two actors wait for one post, and in the marks program one waits
  more often than the other posts; `file4.c` and `ex3.c` wait for a
  signal that came before; the children of `ex3.c` wait for a fifo nobody opens when
  the signal ends their parent; `l3.c` leaves an orphan when its child signals before there is
  a handler; and some programs wait for a signal that no user sends.

## 5. Fairness

Runs that check liveness use `FairSpec`.  Weak fairness is assumed of what the
operating system runs when it can run: each thread's step (`MainStep`,
`WorkerStep(w)`, `ThreadStep(c)`, `HandlerStep`), each child process where the
code gives it a finite amount of work, a timer that is armed, a signal that was
sent.  Nothing is assumed of people and peers: clients need not connect, speak
or hang up — except that in the pool a client that has connected sends its
message, as `client.c` does — and the administrator need not type.  Where
receiving is a step of the server's thread, the fairness of that thread leaves it out:
`pc[c] # "recv"` in `JobServer` and `Store`, `ServesOn` without `RecvCommand` in
`ForkServer`; in `SelectServer` a thread can receive only what its client has said.  A job
need not end: in `JobServer` only one that was killed does, in `ForkServer` and
`SelectServer` nothing is assumed of any.

Weak fairness of a thread that wants a mutex is weaker than what Linux gives, and
the properties hold with it: the mutexes are held for finitely many steps and
the competitors come back finitely often, because clients, tasks, signals and
commands are finite.  Spurious wakeups are the exception: a model that allows
infinitely many of them lets sleepers pass the mutex between them for ever while another thread waits for it.
`TaskPool` therefore assumes strong fairness of `pthread_mutex_lock`, for main and for
each worker: a thread that finds the mutex free again and again gets it at last, which
futexes give in practice though POSIX does not promise it.  `ThreadPrograms` and `Planner`
assume instead that spurious wakeups come finitely often (`<>[][~Spurious]`).

In `MCProcesses`, strong fairness is assumed of the delivery of signals to the first process,
because `practice3.c` blocks and unblocks one for ever; POSIX delivers a pending signal
before the unblocking call returns.  In the composed runs the fairness of a program that does
not run says nothing, because none of its actions is enabled.

`TaskProcessed` excepts the stop flag and `EveryClientAnswered` the exit of the
process because the code then stops on purpose.

## 6. Proofs

TLC checks small instances; the theorems hold for every number of workers,
clients, processes, tasks, products and commands that the named assumptions allow.
All are about `Spec` (or `ForkSpec`, `PlannerSpec`, `CountSpec`, `Cache!CacheSpec`; for the
scripts `Labs!Init` and `[][Labs!Next]`): no fairness is used, and spurious wakeups, failing forks, reused pids and hung-up clients are included where the
model has them.  Every invariant was checked by TLC on small instances first.

**What is assumed of the constants.**  `PoolAssumption`, `TimerAssumption`,
`PipelineAssumption`, `JobAssumption`, `SelectAssumption`, `ForkAssumption`: the sets of
threads, clients and pids are finite where they are counted, limits are naturals
(above zero where they are sizes of a list), and names of threads differ from
each other and from `None`.  `JobAssumption` also has no more clients than `MaxClients`.
`LinesAssumption` and `MaxPthreadsAssumption`: the command file is a sequence of commands,
of any length, with any files, and the list has at least one entry.  `StoreAssumption`, `ShelvesAssumption` and `CommandsAssumption`: the threads of the store
have different names, the products file has different ids, at least one piece of each
product and fewer products than the array has places, and the administrator names an
index of the array; `server.c` tests none of this.
`PlannerParameters` is a definition, the hypothesis of the planner's three theorems: the
first thread forks different threads, at least one for each of its slices.  `CountAssumption`:
the file fits into its mapping, the zero byte is no letter, strings are not empty, and
NUM_THREADS·(NUM_THREADS−1) is at most the bytes of the mapping's pages, so that a last chunk that
begins behind the end of a short file still lies in them.  `CacheAssumption`: there is a slot and a block has a byte;
clients send any number of requests, each for at least one byte, and writes stay inside
the first block, because elsewhere the code indexes past its array.  TLC evaluates
the assumptions in every run, and `PlannerParameters` in `TypesOK`, with `ProgramParameters`,
the hypothesis about the scripts: their threads are four different ones, the number of rounds is
a natural, and the words they count in are there.

`CountingLemmas` has what several of the proofs need: the size of a disjoint union, of a set
that differs from another in one element, of the image under a bijection, of the elements
of a sequence without repetition; and what `Min` and `Max` of a set of numbers are.

### The pool (`TaskPoolProofs`)

| Theorem | Statement | Meaning |
|---|---|---|
| `PoolInvariant` | `Spec => []PoolInv` | the inductive invariant |
| `PoolTypeCorrect` | `Spec => []TypeOK` | `task_count` never leaves 0..`MAX_TASKS`, so main's store and the workers' reads are inside the array |
| `MainAlwaysHasWaker` | `Spec => []MainHasWaker` | main never sleeps with nobody left to signal it |
| `ClientsConserved`, from `ConservationInvariant` | `Spec => []AcceptedOnce` | no accepted client is lost or held twice |
| `PoolImplementsDispatch` | `Spec => ImplementsDispatch` | the pool implements `FifoDispatch` |

`TypeOK` alone is not inductive: main increments `task_count` and a worker decrements
it, and nothing in the type says that there is room or that there is a task.
`PoolInv` adds what the code establishes by its tests: `MutexHeld` (a thread in a critical
section is the mutex's holder, so nobody else changes what it has tested),
`RoomForMain` (between its test for room and its increment — a stretch that leaves the
mutex, goes through `accept` and takes it again — there is room, because only main
adds), `TaskForWorker` (a worker past its test has a task).

`MainHasWaker` is inductive relative to `PoolInv`: a worker that empties the array is
itself on its way to the signal; when the signal comes before main sleeps, main's
test, made under the mutex, sees the room.

`AcceptedOnce` speaks of sets of places and is not what a step preserves.
`ConservationInv` is: live slots and full hands hold accepted clients, no two of them
the same one, every accepted client is in one, and `Transfers` for the two moves that
take two steps — main has stored but not counted, a worker has copied slot 0 but not
shifted.

The refinement maps the live slots to the waiting line, the workers' full hands to those
being served, and answered clients to the served.  Main's increment is the abstract submission, a
worker's shift the dispatch, its close the answer; every other step stutters.

### The timed pool (`TimerPoolProofs`)

| Theorem | Statement | Meaning |
|---|---|---|
| `TimerInvariant`, `TimerTypeCorrect` | `Spec => []TypeOK` | the list stays within its array |
| `PlacesInvariant`, `TasksOnce` | `Spec => []TaskOnce` | each task is listed, in one worker's hands, processed or refused |

`TaskOnce` compares sizes.  What a step preserves is `PlacesInv`: the places are pairwise
disjoint (`Apart`) and cover the tasks main has dealt with (`Complete`); the sizes
follow, by a bijection between the list's indexes and its tasks.  `Control` says that a
worker has a task in hand exactly while it processes it.

### The file workers (`FileWorkersProofs`)

| Theorem | Statement | Meaning |
|---|---|---|
| `FetchInvariant`, `NobodyReadsNull` | `Spec => []NoNullRead` | no thread runs past the last line |
| `PipeInvariant`, `MessagesOneByOne` | `Spec => []OneAtATime` | the child finds at most one message |
| `TasksInvariant` | `Spec => []TasksInv` | `current_tasks` counts the threads between its two changes |
| `FilesInvariant`, `FilesExclusive` | `Spec => []FileExclusive` | a file has one user, as long as the list has room in its array |
| `ShortFilesFit`, from `RoomInvariant` | `2 * line_counter <= MaxPthreads` implies `Spec => [](process # "overrun")` | half as many lines as the array has entries never overrun it, however often names are added again |
| `FileWorkersTypeCorrect` | `Spec => []TypeOK` | |

Four invariants that do not need each other, and a fifth, `RoomInv`, that uses two of them.  `FetchInv`: who is at the file position
holds the semaphore, and the position is the counter, or one ahead of it between
the two.  `PipeInv`: the messages in the pipe, the threads about to write and the
child's unposted read share the semaphore's single unit (`OneMessage`).  `FilesInv` says why names that are
listed twice do no harm: the list only grows, so the first entry of a name stays the
first; a thread holds a file by the flag of that first entry; what two threads hold is
disjoint.  None of this is said of a program that has overrun its array, where the flags
may hold anything.  `RoomInv` bounds the list: lines still to be read may add two names
each, and of the lines being carried out some may still add two (`TwoLeft`) and some one
(`OneLeft`).

### The store (`StoreProofs`)

| Theorem | Statement | Meaning |
|---|---|---|
| `DenialInvariant`, `DenialIsFinal` | `Spec => DenialEndsBusiness` | after the first customer who cannot pay, nothing is bought, restocked, reduced or deleted |
| `DataInvariant`, `StoreTypeCorrect` | `Spec => []TypeOK` | the array is indexed where it has entries, though indexes outlive unlocks |
| `SoldOutIsAnnounced` | `Spec => []SoldOutAnnounced` | what is sold out is announced, wherever stale indexes led |
| `OverdrawnOnlyByChange` | `Spec => OverdrawnOnlyIfChanged` | nobody pays more than he has unless something changed after it was tested |

`DenialInv` rests on `Control` (which thread may be where with which mutex): the holder of
`products_mutex` is a thread that has ended, and every action on the data needs that mutex.
`SoldOutIsAnnounced` shows that the number of sold-out entries (`Zero`) never exceeds the
announcements (`Bound`), action by action: a purchase that makes an entry zero posts, a
deletion removes one, and restocking from below zero is counted by `refilled`.
For `OverdrawnOnlyByChange`, `CheckInv` follows a buyer from the test to the purchase:
ids are unique and deletions only move products to smaller indexes, so a product that has
left the buyer's index cannot come back to it; while it stays, and neither prices nor the
customer's money change, what was tested holds.  A change of prices is remembered
by the history variable `reduced`, which is never reset: after the first reduction the property
says nothing about prices.

### The job server (`JobServerProofs`)

| Theorem | Statement | Meaning |
|---|---|---|
| `JobInvariant`, `JobServerTypeCorrect` | `Spec => []TypeOK` | ids and entries stay in the table |
| `BooksAlwaysBalance` | `Spec => []BooksBalance` | counter, semaphore and children agree, and no id is given twice |
| `FateInvariant`, `FinishedJobsAreDead` | `Spec => []FinishedIsDead` | what is marked has ended or was sent its signal, unless its pid had another job |
| `FinishedStays` | `Spec => FinishedIsFinal` | no step takes the mark back, though `run` fills entries without the mutex |
| `HonestNeverStuck` | `Honest = TRUE`, `ForkMayFail = FALSE` imply `Spec => []NeverStuck` | `get_status` does not lock twice for a job the client was told of |

`JobInv` has the types in parts (handlers, answers, table, the rest) and `SeedInv`: `id_seed` is
the number of requests that have an id, and no two have the same.  `BooksInv` counts:
`running_jobs_nr` is the number of threads between admission and fork, of children not yet reaped, of
forks that failed and of the child being accounted for; the children not yet reaped are the posts
made or still to come; and `sem` is at most the number of requests that have posted.
`FateInv` says whose child a process is (`Forked`), whose pid an entry has (`Recorded`), and
that the process being waited for is gone or its pid is in use again (`WaitedIsGone`).  The hypotheses of `HonestNeverStuck` are those of the run
`job_server_honest`: without them the code does lock twice.  `AnsweredInv`
carries it: a client that was told an id is told it after the entry has its pid.

### The command pipeline (`CommandPipelineProofs`)

| Theorem | Statement | Meaning |
|---|---|---|
| `CountInvariant`, `PipelineTypeCorrect` | `Spec => []TypeOK` | main's index stays in the list |
| `StreamInvariant`, `CommandsAreKept` | `Spec => []CommandsKept` | semaphores are exact, no take from an empty list, and with pids of five digits commands stay whole and in order |

`CountInv` relates both semaphores to the length of the list and to who stands between a wait
and its use; after the end main's posts no longer stand for entries, which the
invariant allows only when `finished` is set.  `StreamInv` says that there is a sequence of
commands in which each child's are numbered in order (`Numbered`), whose first part has come
through main (`HasCome`) and whose rest is in the pipe, unit by unit (`InPipe`).  A write
extends it, a read moves the border by one command; that reads never straddle commands is
where the five digits are needed.  `CommandsWhole` counts the commands of a child
(`FromChild`), since a selection with a LAMBDA is out of the provers' reach.

### The smaller programs of threads (`ThreadProofs`)

| Theorem | Statement | Meaning |
|---|---|---|
| `SelectInvariant`, `SelectTypeCorrect` | `Spec => []TypeOK` | posts and children never outnumber the clients |
| `MainAloneHolds` | `Spec => []MainHolds` | without a waiting thread, the mutex is main's exactly at its test and after its loop, whatever handlers do |
| `ForkInvariant`, `ForkTypeCorrect` | `ForkSpec => []ForkTypeOK` | `running_jobs` and ids stay within what there is |
| `TableIsRight` | `ForkSpec => []TableAgrees` | the counters agree, and a job whose id was told is in the table |
| `PlannerInvariant`, `HandlersRunNested` | `PlannerSpec => []HandlersNested` | a forked thread runs its handler only in its turn, alone among the forked ones, and inside the first thread's handler, after that has queued it and before its join ends |
| `PlannerTypeCorrect` | `PlannerSpec => []PlannerTypeOK` | |
| `CountInvariant`, `SerialCount` | `CountSpec => []SameAsSerial` | the parallel count of a string that has no border is the serial one, for every file, string and number of threads, and the process is killed only for a last chunk that is too short |
| `CountTypeCorrect` | `CountSpec => []CountTypeOK` | |
| `CacheInvariant`, `CacheTypeCorrect` | `CacheSpec => []CacheTypeOK` | loops stay inside the cache, for any number of slots and of requests |
| `CacheReadsFresh` | `CacheSpec => ReadsFresh` | until a slot is given away or a mutex unlocked for another, a reader is sent the block it asked for as last written |
| `CountingInvariant`, `IncrementsExact` | from `Labs!Init`, `[](lab \in Counting => Labs!CountsExact)` | `malloc.c`, `spin.c`, `second_practice.c`, `ex1.c` and the tank of `thread_pool/server.c` lose no increment, for any number of rounds |

In `SelectInv` each post belongs to a thread that has started a child, recorded its pid and
ended, so there are never more posts than clients.
`ForkInv` counts two disjoint sets of threads, those between their two critical sections
(`running_jobs`) and those past the second (`job_index`), and `id_seed` is the sum of both above
its first value.

The proof of `HandlersNested` uses no mutex, because `so_fork` unlocks one its caller has not got.  It
is whose turn it is (`Turns`): while a thread that the first one forked lives, the first waits
to join it and is in no queue, so main can only choose that thread, even when main's wait
returns for nothing.  `OneAtATimeForked` ties the number of forked threads to the slices
the first has used.

The count of a text is a recursive function, and induction over it is out of the prover's
reach.  What can be proved is that the function, as it is defined, has the value one
expects: for a string without a border two places where it is found do not overlap
(`NoOverlap`), so jumping behind a find misses none.  `WalkExists` and `WalkUnique` show by
a least counterexample in the naturals that there is one walk from the last place
down to the first that adds one at each find; `TallyIs` then makes the count
the number of places found.  `ChunksTile` says that the ranges in which the
threads look for the string's first letter are disjoint and cover those of the serial program,
because chunks overlap by a length less one; `FoundSplit` and `SumMeaning` add up.

`CacheInv` has types, what writers want (`Writes`: the first block) and, until a slot is
given away or a mutex stolen, `Calm`.  Of the slots it says (`Slots`): those in use come
first, each has its block but for the one being loaded, and of several with one
block the first has the file's version — the others may be stale, and a scan stops
at the first.  Of each thread (`Mine`): who stores holds the mutex (`Holds`); who scans
without it, and still needs bytes, has its block in a slot ahead, with every slot up to
there loaded (`WillFind`), which is why it never meets a half-loaded one and never
stores twice; what it has passed is not its block (`HasPassed`), so what it finds is the
first (`Finds`); and a thread in `store_cache` has still to store the block its scan
wants or has done so (`Stores`).  The last is where `stolen` is needed: a second thread in
`store_cache` could claim the slot a first one has seen free.

A script of the counting programs obeys a discipline that can be read off each instruction
and its number (`Obeys`): it locks, loads, stores and unlocks one mutex, has it
exactly where `HasMutex` says, stores only into a word it has loaded in the step before,
and with that store brings what it has added (`Added`, a function of the instruction's
number) up by the constant it stores; nothing else changes `Added`.  `AllObey` shows it of the
five programs, for any number of rounds: their loops are sequences of one period, so an
instruction is known by its number modulo 4, 5 or 6.  For a script that obeys, `LabKeeps`
is a proof about the machine alone: `LabInv` says that the mutex's owner is the thread
whose instruction says so (`Exclusive`), that who is about to store has the word's
present value (`JustLoaded`), that every word is the sum of what its threads' instruction
numbers say they have added (`Totals`), and that main has created and joined whom it
has passed (`Births`).  When main has ended all are at their end (`LabEnds`) and the sum is the expected
one.  Where a script stores without the mutex, as the variant `count_rounds_unlocked` does, the
discipline fails at that instruction.

### Only model-checked

- Liveness, and with it every property under fairness: out of the prover's reach.
- The violations of section 7, which are counterexamples.
- Of `NothingLost` the turns of `once.c` (`InitsAlternate`), the items of the programs with
  an array (`ItemsOnce`) and the bounds of the array (`ArrayKept`); `AllRead` and `NothingLeft`.  They speak of scripts too, one proof for each of
  many short programs of a fixed size, which TLC explores completely.
- The parts of both `TypesOK` that belong to the two machines.  The other parts are
  `CountTypeCorrect`, `ForkTypeCorrect`, `CacheTypeCorrect`, `PlannerTypeCorrect` and
  `PipelineTypeCorrect`.

## 7. Disagreements found

Three runs show the code doing something other than its own comments say; each
checks one property and ends in a counterexample.  A fourth disagreement has no run of its
own, and the property that holds instead is checked.

1. `job_server_inherit`, `InheritNothing`.  `PART2_lab14/server.c:420` says that the
   client's socket cannot be inherited by children.  The flag is set by an `fcntl`
   after `accept`; a handler thread that forks between the two passes the socket
   on.  The same comment names the remedy, `accept4`.
2. `timer_pool_idle`, `IdleMeansTimer`.  The comments in `timer__/server.c:76` and
   `:103` say that the timer is set when the list becomes empty and cancelled when
   it is no longer empty.  Both decisions read `task_count` without the mutex: main
   sees a task, a worker takes it, processes it, sees the list empty and arms the
   timer, and main then cancels it.  The list is empty for good, no timer runs,
   and the process does not end.
3. `file_workers_list`, `ListedOnce`.  The comments in `30.01.2023/server.c:71` and
   `:78` say that a name is added when it does not exist and otherwise not.
   `verify_existency` answers 0 for the first entry and for none, and the test and
   the insertion are two critical sections: names are added again.
   `FileExclusive` shows that who may use a file is not affected, because everyone looks
   up the first entry of a name; but the names that are added again may overrun the array.
4. The comments of `once.c` (lines 34-37, 49-52, 75-77, 94-96, 110-113 and 124-127) say
   that `init_func` and `deinit_func` are called once, however many threads
   call `one_time_init` and `one_time_deinit`.  The count that guards them goes back to zero when
   a thread leaves before the next one comes, and then both are called again: in the model
   with two threads `inits` reaches 2.  `InitsAlternate` says what holds instead:
   the two take turns, no thread works outside them, and at the end both were called equally
   often, once or twice.

## 8. What is not modelled

Within the modelled programs:

- `TaskPool`: failures of `bind`, `pthread_create` and the like, before anything runs.
- `JobServer`: the contents of output files; `dup2` and `exec`, of which only "the child
  ends" is left; more clients than `tid` and `param` have entries (500,
  `server.c:391`), which nothing tests and after which behaviour is undefined; ids outside
  the table, as far as reading the neighbouring memory does not end the process (then it
  is `Crash`); commands longer than 128 bytes or of more than ten words, and the bytes of a
  buffer that `recv` has not filled.
- `TimerPool`: a worker in the wait loop does not look at `stop_threads`
  (`server.c:53`), so the process ends only by chance.  Every run of the model shows
  it; nothing in the repository says otherwise, so no property does.
- `FileWorkers`: what files hold.  With two lines that name two files in opposite orders,
  or one that names a file twice, threads spin for ever (`server.c:136`);
  `AllThreadsEnd` is checked without such lines.  The child never ends
  (`server.c:393`): the semaphore it polls stays at one, and nothing in the repository
  says that the program ends, so no property does.  The signal handlers are never installed.
  What an overrun list does to the memory behind it.
- `CommandPipeline`: failures of `pipe` and `fork`, which exit at once.  A worker that shifts a
  full list copies the entry behind its end into the last place (`server.c:83-86`), which
  nobody reads before main has written there; the model leaves that copy out.
- `SelectServer`: the arrays of six threads (`01_02_2023/server.c:415`), which the seventh
  client overruns, after which behaviour is undefined; and a handler that
  interrupts itself, another outcome of the uninitialised flags.
- `Store`: prices are integers; the log file and the terminal are left out; customers'
  and products' ids have one digit, since the request buffer is not terminated
  and longer ones would be read past their end.  A reduction below 100 percent is none,
  because the division is an integer one (`server.c:269`); the model divides so, and no
  property relates prices to the original ones, which the code does not keep.
- `FileCache`: the bytes of a block and how `strcpy` cuts them; clients that are gone before
  their answer, whose SIGPIPE ends the server; more than one file; writes
  that leave the first block; requests for no byte; `send_data`, which nothing calls.
- `ForkServer`: the contents of the output files; the empty handler of SIGTERM.
- `Planner`: a failing `pthread_create`; `so_end`.
- `ThreadPrograms`: `ex_Lab_toght.c` also writes `prod_id` past its one element and shares a
  log file, which is left out; what follows an item written past an array is undefined, and
  an execution ends there.  `ex1.c`'s first routine is never started.
- `ProcessPrograms`: forks that fail, messages of different lengths.  `encrypted_2023`
  declares a function with an array of pipes and calls it with one; the model has what
  the declaration says.  The shell's words, files and environment, the errors of
  its `redirect_output` and the descriptor that leaves open, and an `exec` that fails.

Whole programs: `cache_exam_30_01_2024` does not compile.  `restanta_30_06_2023/server_semaphore.c`
shares the hidden state of `strtok` between threads, so what it reads is undefined; the other
version of the program is modelled.  The watchdog of `practice/timer` and the timers of Lab4 are
about real time; `askexit`, `mynohup`, `l2.c` and the like have one handler that asks, ignores or prints.  The third program in `EXAMS/01_02_2023/server.c` is an unfinished copy of the second
(the file is three programs one after another), `examen_29_2024` and
`lab14_redundant` do not compile.  The remaining directories hold sequential
demonstrations of one system call or library function each, without a state to
be right about; `PROJECT.json` lists them with the reason for each.
