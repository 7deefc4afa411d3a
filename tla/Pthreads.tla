------------------------------- MODULE Pthreads ------------------------------
(***************************************************************************)
(* A small machine for programs whose threads share words of memory, an    *)
(* array, mutexes, condition variables, semaphores and barriers.  A thread *)
(* runs a script, a sequence of instructions.  A word is loaded and stored *)
(* in two steps, so an increment outside a critical section can lose       *)
(* another one.  The array holds items numbered in the order they are made;*)
(* a store past its end is undefined behaviour, where an execution stops.  *)
(***************************************************************************)
EXTENDS Integers, Sequences, FiniteSets

CONSTANTS Threads,   \* the threads of every program, main among them
          Words,     \* the names of the shared variables
          Mutexes,
          Size,      \* the number of cells of the array
          MaxItems,  \* how many items a program makes at most
          Main, None

VARIABLES script,    \* what each thread runs
          pc,        \* the instruction it is at: 0 is unborn, Len + 1 ended
          asleep,    \* None, what it waits for, or "relock"
          reg,       \* the word it has loaded last
          mem,       \* the shared variables
          owner,     \* of each mutex
          cells,     \* the array
          taken      \* how often each item was taken out of it

machine == <<script, pc, asleep, reg, mem, owner, cells, taken>>
array   == <<cells, taken>>
NoItem  == 0

(* The instructions.                                                       *)
Lock(m)    == [op |-> "lock", m |-> m]
Unlock(m)  == [op |-> "unlock", m |-> m]
Load(x)    == [op |-> "load", x |-> x]
Store(x, k) == [op |-> "store", x |-> x, k |-> k]     \* the loaded word and k
SkipUnless(x, S, n) == [op |-> "test", x |-> x, S |-> S, n |-> n]
Goto(i)    == [op |-> "goto", i |-> i]
WaitWhile(x, S, c, m) ==
    [op |-> "waitWhile", x |-> x, S |-> S, c |-> c, m |-> m]
Wait(c, m) == [op |-> "wait", c |-> c, m |-> m]       \* and no loop
Sem(x, k)  == [op |-> "sem", x |-> x, k |-> k]        \* sem_wait, sem_post
Put(x)     == [op |-> "put", x |-> x]     \* a new item into the cell x names
Get(x)     == [op |-> "get", x |-> x]     \* the item of the cell x names
Shift(x)   == [op |-> "shift", x |-> x]   \* the first x cells, one cell down
Signal(c)  == [op |-> "signal", c |-> c]
Barrier(b, n) == [op |-> "barrier", c |-> b, n |-> n]
Create(t)  == [op |-> "create", t |-> t]
Join(t)    == [op |-> "join", t |-> t]
ExitAll    == [op |-> "exit"]

(* The same instructions n times over, and one call per thread of ts.      *)
Repeat(n, s) == [i \in 1 .. n * Len(s) |-> s[((i - 1) % Len(s)) + 1]]
Each(op(_), ts) == [i \in 1 .. Len(ts) |-> op(ts[i])]
Add(x, k) == <<Load(x), Store(x, k)>>
Locked(m, s) == <<Lock(m)>> \o s \o <<Unlock(m)>>

-----------------------------------------------------------------------------
Ended(t) == pc[t] = Len(script[t]) + 1

(* t is at an instruction named op, which is then I.                       *)
I(t) == script[t][pc[t]]
At(t, op) == /\ pc[t] > 0 /\ ~Ended(t) /\ asleep[t] = None
             /\ I(t).op = op
Step(t) == pc' = [pc EXCEPT ![t] = @ + 1]

Boot(s) == /\ script = s
           /\ pc = [t \in Threads |-> IF t = Main THEN 1 ELSE 0]
           /\ asleep = [t \in Threads |-> None]
           /\ reg = [t \in Threads |-> 0]
           /\ mem = [x \in Words |-> 0]
           /\ owner = [m \in Mutexes |-> None]
           /\ cells = [i \in 0 .. Size |-> NoItem]
           /\ taken = [i \in 0 .. MaxItems |-> 0]

(* There is no machine.                                                    *)
Off == /\ script = None /\ pc = None /\ asleep = None /\ reg = None /\ mem = None
       /\ owner = None /\ cells = None /\ taken = None

DoLock(t) == /\ At(t, "lock") /\ owner[I(t).m] = None
             /\ owner' = [owner EXCEPT ![I(t).m] = t]
             /\ Step(t)
             /\ UNCHANGED <<array, script, asleep, reg, mem>>

DoUnlock(t) == /\ At(t, "unlock")
               /\ owner' = [owner EXCEPT ![I(t).m] = None]
               /\ Step(t)
               /\ UNCHANGED <<array, script, asleep, reg, mem>>

DoLoad(t) == /\ At(t, "load")
             /\ reg' = [reg EXCEPT ![t] = mem[I(t).x]]
             /\ Step(t)
             /\ UNCHANGED <<array, script, asleep, mem, owner>>

DoStore(t) == /\ At(t, "store")
              /\ mem' = [mem EXCEPT ![I(t).x] = reg[t] + I(t).k]
              /\ Step(t)
              /\ UNCHANGED <<array, script, asleep, reg, owner>>

DoTest(t) == /\ At(t, "test")
             /\ pc' = [pc EXCEPT ![t] =
                          @ + 1 + IF mem[I(t).x] \in I(t).S THEN 0 ELSE I(t).n]
             /\ UNCHANGED <<array, script, asleep, reg, mem, owner>>

DoGoto(t) == /\ At(t, "goto")
             /\ pc' = [pc EXCEPT ![t] = I(t).i]
             /\ UNCHANGED <<array, script, asleep, reg, mem, owner>>

DoSem(t) == /\ At(t, "sem") /\ mem[I(t).x] + I(t).k >= 0
            /\ mem' = [mem EXCEPT ![I(t).x] = @ + I(t).k]
            /\ Step(t)
            /\ UNCHANGED <<array, script, asleep, reg, owner>>

DoPut(t) == /\ At(t, "put") /\ mem[I(t).x] < Size
            /\ cells' = [cells EXCEPT ![mem[I(t).x]] = mem["made"] + 1]
            /\ mem' = [mem EXCEPT !["made"] = @ + 1]
            /\ Step(t)
            /\ UNCHANGED <<taken, script, asleep, reg, owner>>

Halt == /\ pc' = [w \in Threads |-> Len(script[w]) + 1]
        /\ asleep' = [w \in Threads |-> None]

Overrun(t) == /\ At(t, "put") /\ mem[I(t).x] >= Size
              /\ mem' = [mem EXCEPT !["overrun"] = 1]
              /\ Halt
              /\ UNCHANGED <<array, script, reg, owner>>

DoGet(t) == /\ At(t, "get")
            /\ taken' = [taken EXCEPT ![cells[mem[I(t).x]]] = @ + 1]
            /\ Step(t)
            /\ UNCHANGED <<cells, script, asleep, reg, mem, owner>>

DoShift(t) == /\ At(t, "shift")
              /\ cells' = [i \in 0 .. Size |->
                              IF i < mem[I(t).x] THEN cells[i + 1] ELSE cells[i]]
              /\ Step(t)
              /\ UNCHANGED <<taken, script, asleep, reg, mem, owner>>

Sleep(t) == /\ asleep' = [asleep EXCEPT ![t] = I(t).c]
            /\ owner' = [owner EXCEPT ![I(t).m] = None]

DoWait(t) == /\ \/ At(t, "wait")
                \/ At(t, "waitWhile") /\ mem[I(t).x] \in I(t).S
             /\ Sleep(t)
             /\ UNCHANGED <<array, script, pc, reg, mem>>

DoneWaiting(t) == /\ At(t, "waitWhile") /\ mem[I(t).x] \notin I(t).S
                  /\ Step(t)
                  /\ UNCHANGED <<array, script, asleep, reg, mem, owner>>

(* A woken thread takes the mutex back; waitWhile then looks again.          *)
Relock(t) == /\ asleep[t] = "relock" /\ owner[I(t).m] = None
             /\ owner' = [owner EXCEPT ![I(t).m] = t]
             /\ asleep' = [asleep EXCEPT ![t] = None]
             /\ IF I(t).op = "wait" THEN Step(t) ELSE UNCHANGED pc
             /\ UNCHANGED <<array, script, reg, mem>>

Waiters(c) == {t \in Threads : asleep[t] = c}

DoSignal(t) == /\ At(t, "signal")
               /\ IF Waiters(I(t).c) = {} THEN UNCHANGED asleep
                  ELSE \E w \in Waiters(I(t).c) :
                          asleep' = [asleep EXCEPT ![w] = "relock"]
               /\ Step(t)
               /\ UNCHANGED <<array, script, reg, mem, owner>>

(* POSIX lets a wait return although nobody signalled.                     *)
Spurious(t) == /\ asleep[t] \notin {None, "relock"}
               /\ I(t).op \in {"wait", "waitWhile"}
               /\ asleep' = [asleep EXCEPT ![t] = "relock"]
               /\ UNCHANGED <<array, script, pc, reg, mem, owner>>

Arrive(t) == /\ At(t, "barrier")
             /\ LET b == I(t).c
                    group == Waiters(b) \cup {t}
                IN  IF Cardinality(group) < I(t).n
                    THEN asleep' = [asleep EXCEPT ![t] = b] /\ UNCHANGED pc
                    ELSE /\ asleep' = [w \in Threads |-> IF w \in group THEN None
                                                         ELSE asleep[w]]
                         /\ pc' = [w \in Threads |-> IF w \in group THEN pc[w] + 1
                                                     ELSE pc[w]]
             /\ UNCHANGED <<array, script, reg, mem, owner>>

DoCreate(t) == /\ At(t, "create")
               /\ pc' = [pc EXCEPT ![t] = @ + 1, ![I(t).t] = 1]
               /\ UNCHANGED <<array, script, asleep, reg, mem, owner>>

DoJoin(t) == /\ At(t, "join") /\ Ended(I(t).t)
             /\ Step(t)
             /\ UNCHANGED <<array, script, asleep, reg, mem, owner>>

(* exit, or return from main: every thread of the process is gone.         *)
DoExit(t) == /\ At(t, "exit")
             /\ Halt
             /\ UNCHANGED <<array, script, reg, mem, owner>>

Act(t) == \/ DoLock(t) \/ DoUnlock(t) \/ DoLoad(t) \/ DoStore(t) \/ DoTest(t)
          \/ DoGoto(t) \/ DoSem(t) \/ DoPut(t) \/ Overrun(t) \/ DoGet(t)
          \/ DoShift(t) \/ DoWait(t) \/ DoneWaiting(t) \/ Relock(t)
          \/ DoSignal(t) \/ Arrive(t) \/ DoCreate(t) \/ DoJoin(t) \/ DoExit(t)
=============================================================================
