---------------------------- MODULE ThreadPrograms ---------------------------
(***************************************************************************)
(* The thread programs of Lab7_threads, the queue of                       *)
(* EXAMS/restanta_30_06_2023/server.c and the tank of                      *)
(* practice/thread_pool/server.c, as scripts for Pthreads.  An execution   *)
(* is one run of one program.                                              *)
(***************************************************************************)
EXTENDS Pthreads

CONSTANTS T1, T2, T3,   \* the threads main creates
          Rounds,       \* NUM_ROUNDS, NO_ITER, NR_ITERATIONS, ...
          Turns         \* how often main calls run_threads

VARIABLE program

(* What the theorems about these programs assume.                          *)
ProgramParameters ==
    /\ Rounds \in Nat
    /\ {Main, T1, T2, T3} \subseteq Threads
    /\ Main \notin {T1, T2, T3} /\ T1 \notin {T2, T3} /\ T2 # T3
    /\ None \notin Threads \cup {"relock", "barrier", "condFuel"}
    /\ "mutex" \in Mutexes
    /\ {"global", "main_static", "thread_static", "tank"} \subseteq Words

threadVars == <<program, machine>>

Pair == <<T1, T2>>
Team == <<T1, T2, T3>>
Idle == <<>>

(* main creates the threads of ts, does s, and joins them.                 *)
Around(ts, s) == Each(Create, ts) \o s \o Each(Join, ts)
OneScript(ts, s) == [t \in {ts[i] : i \in DOMAIN ts} |-> s]

-----------------------------------------------------------------------------
(* 3-safety: malloc.c with critical.c.  The static function_global_storage *)
(* of thread_function is one word for all the threads, main has its own.   *)
acquire_lock == Lock("mutex")
release_lock == Unlock("mutex")

increase_numbers(own) == Add("global", 1) \o Add(own, 1)
print_stats == <<acquire_lock, release_lock>>
(* Variant: nobody locks.                                                  *)
count_rounds_unlocked(own) == Repeat(Rounds, increase_numbers(own))

count_rounds(own) ==
    Repeat(Rounds, <<acquire_lock>> \o increase_numbers(own) \o <<release_lock>>)

malloc_main == Around(Pair, count_rounds("main_static")) \o print_stats
malloc_thread == count_rounds("thread_static") \o print_stats

(* 10-spin: both threads meet at the barrier first.                        *)
spin_main == Around(Pair, <<>>)
spin_thread == <<Barrier("barrier", 2)>>
                   \o Repeat(Rounds, Locked("mutex", Add("global", 1)))

(* practice/second_practice.c and practice/practice_flo/ex1.c.             *)
routine == Repeat(Rounds, Locked("mutex", Add("global", 1)))
second_main == Around(Pair, <<>>)
routine_2 == Repeat(Rounds, Locked("mutex", Add("global", 10)))
ex1_main == Each(Create, Pair) \o <<Join(T2), Join(T1)>>

(* practice/barier.c                                                       *)
barrier_main == Around(Team, <<>>)
__routine == <<Barrier("barrier", 3)>>

(* practice/thread_pool/server.c: the car waits for 40 and takes 50.       *)
Fills == 5
filling_tank == Repeat(Fills, Locked("mutex", Add("tank", 10))
                                  \o <<Signal("condFuel")>>)
car == Locked("mutex", <<WaitWhile("tank", -50 .. 39, "condFuel", "mutex")>>
                           \o Add("tank", -50))
tank_main == Around(Pair, <<>>)

(* practice/cond_var.c: T2 waits without the mutex and without a predicate.*)
routine_for_1 == <<Signal("condition")>>
routine_for_2 == <<Wait("condition", "mutex")>>
cond_var_main == Around(Pair, <<>>)

(* 6-once.  A thread works between the two functions.                      *)
one_time_init == Locked("mutex", Add("refcount", 1)
                    \o <<SkipUnless("refcount", {1}, 2)>> \o Add("inits", 1))
(* Variant: a thread that is not the last undoes the work of the first.    *)
deinit_any == Locked("mutex", Add("refcount", -1)
                 \o <<SkipUnless("refcount", {0, 1}, 2)>> \o Add("deinits", 1))

one_time_deinit == Locked("mutex", Add("refcount", -1)
                      \o <<SkipUnless("refcount", {0}, 2)>> \o Add("deinits", 1))
once_thread == one_time_init \o one_time_deinit
once_main == Around(Pair, <<>>)

(* Variant: the other's mutex is taken inside one's own.                   *)
NestedRound(own, other) == Locked(own, Locked(other, <<Load(other)>>))

(* 5-blocked: factorial(n) is 0, so is_super_number never holds and each   *)
(* thread goes through its whole range; it looks at the other's result     *)
(* between two critical sections of its own.                               *)
blocked_round(own, other) ==
    Locked(own, <<Unlock(own)>> \o Locked(other, <<Load(other)>>)
                    \o <<Lock(own)>>)

blocked_routine(own, other) == Repeat(Rounds, blocked_round(own, other))
blocked_main == Each(Create, Pair) \o <<Join(T2), Join(T1)>>

-----------------------------------------------------------------------------
(* 7-prodcons: a stack of Size items.                                      *)
insert_item == <<Put("count")>> \o Add("count", 1)
(* Variant: the cell is read before the decrement, as the seller does.     *)
RemoveAboveTop == <<Get("count")>> \o Add("count", -1)

remove_item == Add("count", -1) \o <<Get("count")>>

(* Variant: the producer waits one item too late.                          *)
ProducerWaitsLate == Repeat(Rounds, Locked("mutex",
    <<WaitWhile("count", {Size + 1}, "not_full", "mutex")>> \o insert_item
      \o <<SkipUnless("count", 1 .. Size, 1), Signal("not_empty")>>))

producer_fn == Repeat(Rounds, Locked("mutex",
    <<WaitWhile("count", {Size}, "not_full", "mutex")>> \o insert_item
      \o <<SkipUnless("count", 1 .. Size, 1), Signal("not_empty")>>))
consumer_fn == Repeat(Rounds, Locked("mutex",
    <<WaitWhile("count", {0}, "not_empty", "mutex")>> \o remove_item
      \o <<SkipUnless("count", 0 .. Size - 1, 1), Signal("not_full")>>))

(* init_buffer clears what is left of the turn before.                     *)
init_buffer == <<Load("zero"), Store("count", 0)>>
run_threads == init_buffer \o Around(Pair, <<>>)
prodcons_main == Repeat(Turns, run_threads)

(* practice/cond_var_prac.c: the seller reads the cell above the top.      *)
routine__producer == Repeat(Rounds, Locked("mutex",
    <<WaitWhile("count", {Size}, "not_full", "mutex")>> \o insert_item
      \o <<Signal("not_empty")>>))
routine__seller == Repeat(Rounds, Locked("mutex",
    <<WaitWhile("count", {0}, "not_empty", "mutex"), Get("count")>>
      \o Add("count", -1) \o <<Signal("not_full")>>))
seller_main == Around(Pair, <<>>)

(* EXAMS/restanta_30_06_2023/server.c: all the lines of the file are       *)
(* submitted before there is a thread; a thread works for ever.            *)
submit_Task == Locked("mutex", <<Put("count")>> \o Add("count", 1))
                   \o <<Signal("task")>>
read_files(lines) == Repeat(lines, submit_Task)
tasks_main(lines) == read_files(lines) \o Around(Pair, <<>>)
starting_routine == Locked("mutex",
    <<WaitWhile("count", {0}, "task", "mutex"), Get("zero"), Shift("count")>>
      \o Add("count", -1)) \o <<Goto(1)>>

(* ex_Lab_toght.c: producerIndex + 1 % BUFFER_SIZE is producerIndex + 1.   *)
(* A thread counts in one critical section, moves an item in another.      *)
WhileLocked(m, x, S, body) ==
    <<Lock(m), SkipUnless(x, S, Len(body) + 2)>> \o body
        \o <<Lock(m), Goto(2), Unlock(m)>>

producer_routine == WhileLocked("produced", "produced", 0 .. Rounds - 1,
    Add("produced", 1) \o <<Unlock("produced"), Sem("free", -1)>>
      \o Locked("producer", <<Put("producerIndex")>> \o Add("producerIndex", 1))
      \o <<Sem("full", 1)>>)
consumer_routine == WhileLocked("consumed", "consumed", 0 .. Rounds,
    Add("consumed", 1) \o <<Unlock("consumed"), Sem("full", -1)>>
      \o Locked("consumer", <<Get("consumerIndex")>> \o Add("consumerIndex", 1))
      \o <<Sem("free", 1)>>)
semaphores_main == <<Sem("free", Size)>> \o Around(Team, <<>>)

(* 2-th_vs_proc/threads.c: the first thread that runs do_bad_task ends the *)
(* process.                                                                *)
do_task == <<Sem("tasks", 1)>>
do_bad_task == <<ExitAll>>
bad_task_main == Around(Team, <<>>)

-----------------------------------------------------------------------------
Cast(main, a, b, c) == [t \in Threads |-> CASE t = Main -> main [] t = T1 -> a
                                            [] t = T2 -> b [] OTHER -> c]
Scripts == [
    malloc     |-> Cast(malloc_main, malloc_thread, malloc_thread, Idle),
    spin       |-> Cast(spin_main, spin_thread, spin_thread, Idle),
    second     |-> Cast(second_main, routine, routine, Idle),
    ex1        |-> Cast(ex1_main, routine_2, routine_2, Idle),
    barrier    |-> Cast(barrier_main, __routine, __routine, __routine),
    tank       |-> Cast(tank_main, car, filling_tank, Idle),
    condition  |-> Cast(cond_var_main, routine_for_1, routine_for_2, Idle),
    once       |-> Cast(once_main, once_thread, once_thread, Idle),
    blocked    |-> Cast(blocked_main, blocked_routine("x", "y"),
                        blocked_routine("y", "x"), Idle),
    prodcons   |-> Cast(prodcons_main, producer_fn, consumer_fn, Idle),
    seller     |-> Cast(seller_main, routine__producer, routine__seller, Idle),
    semaphores |-> Cast(semaphores_main, producer_routine, producer_routine,
                        consumer_routine),
    bad_task   |-> Cast(bad_task_main, do_bad_task, do_task, do_task)]

ThreadNames == DOMAIN Scripts \cup {"tasks"}

(* The file of restanta_30_06_2023 has any number of lines.                *)
Init == /\ program \in ThreadNames
        /\ \/ program # "tasks" /\ Boot(Scripts[program])
           \/ /\ program = "tasks"
              /\ \E lines \in 1 .. Size + 1 :
                    Boot(Cast(tasks_main(lines), starting_routine,
                              starting_routine, Idle))

(* Nothing is run.                                                         *)
Quiet == program = "none" /\ Off

Next == /\ program # "none"
        /\ \E t \in Threads : Act(t) \/ Spurious(t)
        /\ UNCHANGED program

(* The threads run on, and waits do not return for nothing for ever.       *)
Proceeds(A) == program # "none" /\ A /\ UNCHANGED program
Fairness == /\ \A t \in Threads : WF_threadVars(Proceeds(Act(t)))
            /\ <>[][~\E t \in Threads : program # "none" /\ Spurious(t)]_threadVars

-----------------------------------------------------------------------------
TypeOK == program # "none" =>
              /\ \A t \in Threads : pc[t] \in 0 .. Len(script[t]) + 1
              /\ \A m \in Mutexes : owner[m] \in Threads \cup {None}
              /\ \A x \in Words : mem[x] \in Int
              /\ \A i \in DOMAIN cells : cells[i] \in DOMAIN taken

Done == Ended(Main)

(* When a program of counters has ended, no increment is missing.          *)
CountsExact ==
    program # "none" /\ Done =>
        CASE program = "malloc" -> /\ mem["global"] = 3 * Rounds
                                       /\ mem["thread_static"] = 2 * Rounds
                                       /\ mem["main_static"] = Rounds
              [] program \in {"spin", "second"} -> mem["global"] = 2 * Rounds
              [] program = "ex1" -> mem["global"] = 20 * Rounds
              [] program = "tank" -> mem["tank"] = 0
              [] OTHER -> TRUE

(* However the threads of once.c interleave, init_func and deinit_func take*)
(* turns, and a thread that works between the two works initialised.  That *)
(* each is called only once is not so: a thread that comes when the one    *)
(* before it has left initialises again.                                   *)
InitsAlternate ==
    program = "once" =>
        /\ owner["mutex"] = None =>
              mem["inits"] - mem["deinits"] = IF mem["refcount"] > 0 THEN 1 ELSE 0
        /\ \A t \in {T1, T2} :
              pc[t] = Len(one_time_init) + 1 => mem["inits"] = mem["deinits"] + 1
        /\ Done => mem["refcount"] = 0 /\ mem["inits"] \in 1 .. 2

Stored == {i \in 0 .. Size : IF program = "semaphores"
              THEN i \in mem["consumerIndex"] .. mem["producerIndex"] - 1
              ELSE i < mem["count"]}

(* Whenever nobody is in a critical section, every item made is in the     *)
(* array or was taken out once, and not both.                              *)
ItemsOnce ==
    (/\ program \in {"prodcons", "tasks", "semaphores"} /\ mem["overrun"] = 0
     /\ \A m \in Mutexes : owner[m] = None)
       => \A n \in 1 .. mem["made"] :
             taken[n] + Cardinality({i \in Stored : cells[i] = n}) = 1

(* Producers and sellers that wait for room never write past the array; the*)
(* two programs that do not wait write past it, but not before it is full. *)
ArrayKept ==
    program # "none" /\ mem["overrun"] # 0 =>
        program \in {"tasks", "semaphores"} /\ mem["made"] = Size

(* Every program ends, but one that waits for a signal that came too early,*)
(* and the workers of "tasks", which take every task and wait for more.    *)
LostSignal == program = "condition" /\ asleep[T2] = "condition" /\ Ended(T1)
AllTaken == /\ program = "tasks" /\ pc[T1] > 0
            /\ \A n \in 1 .. mem["made"] : taken[n] = 1
Finished == program = "none" \/ LostSignal \/ AllTaken \/ Done
=============================================================================
