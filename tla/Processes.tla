------------------------------ MODULE Processes ------------------------------
(***************************************************************************)
(* A small machine for programs of several processes, which share pipes and*)
(* semaphores and send each other signals.  An actor is a process or a     *)
(* thread of one; it runs a script, a sequence of instructions.  A handler *)
(* is short: it sets a flag, or ends the process; what a program does in a *)
(* long one is written into the script behind the pause.  sleep is left    *)
(* out: it orders nothing.                                                 *)
(***************************************************************************)
EXTENDS Integers, Sequences, FiniteSets

CONSTANTS Actors,    \* the processes and threads of every program
          Pipes, Sems, Signals,
          Main, None

VARIABLES script,    \* what each actor runs
          pc,        \* the instruction it is at
          life,      \* "unborn", "alive", "zombie" or "gone"
          home,      \* the process a thread belongs to
          parent,    \* who waits for a process
          fds,       \* how many descriptors of an end of a pipe a process has
          data,      \* what is in each pipe: <<writer, number>>
          got,       \* what each actor has read
          sem,
          act,       \* what a signal does to a process
          blocked, pending,
          flag,      \* the variable a handler sets
          outside,   \* signals somebody may still send to Main
          cut        \* actors in which a handler interrupted a call

machine == <<script, pc, life, home, parent, fds, data, got, sem, act, blocked,
             pending, flag, outside, cut>>
world == <<home, parent, fds, life>>
io    == <<data, got, sem>>
sigs  == <<act, blocked, pending, flag, outside>>

(* The instructions.                                                       *)
Fork(c)       == [op |-> "fork", t |-> c]
Create(t)     == [op |-> "create", t |-> t]
Join(t)       == [op |-> "join", t |-> t]
WaitChild     == [op |-> "wait", t |-> None]            \* any child
WaitPid(c)    == [op |-> "wait", t |-> c]
Pipe(p)       == [op |-> "pipe", p |-> p]
Open(p, e)    == <<[op |-> "open", p |-> p, e |-> e],   \* a fifo
                   [op |-> "peer", p |-> p, e |-> IF e = "r" THEN "w" ELSE "r"]>>
Close(p, e)   == [op |-> "close", p |-> p, e |-> e]
Dup(p, e)     == [op |-> "dup", p |-> p, e |-> e]
Write(p, m)   == [op |-> "write", p |-> p, m |-> m]
Read(p)       == [op |-> "read", p |-> p, n |-> 99]     \* all there is
ReadOne(p)    == [op |-> "read", p |-> p, n |-> 1]
Drain(p)      == [op |-> "drain", p |-> p, n |-> 99]    \* up to end of file
Sem(x, k)     == [op |-> "sem", x |-> x, k |-> k]       \* sem_wait, sem_post
SkipUnless0(x, n) == [op |-> "test", x |-> x, n |-> n]
Sigaction(s, d) == [op |-> "sigaction", s |-> s, d |-> d]
Mask(S)       == [op |-> "mask", S |-> S]               \* the blocked signals
Suspend(S)    == [op |-> "suspend", S |-> S]
Pause         == [op |-> "pause"]
Kill(t, s)    == [op |-> "kill", t |-> t, s |-> s]
KillParent(s) == [op |-> "kill", t |-> None, s |-> s]
UntilFlag     == [op |-> "until"]
Prompt        == [op |-> "prompt"]
Crash         == [op |-> "crash"]
Goto(i)       == [op |-> "goto", i |-> i]

(* What a signal does.  SIGCHLD is ignored unless it is asked for.         *)
Default == [kind |-> "default"]
Ignore  == [kind |-> "ignore"]
Handler(effect, restart, reset) ==
    [kind |-> "handler", effect |-> effect, restart |-> restart, reset |-> reset]
Note == Handler("note", FALSE, FALSE)
Flag == Handler("flag", FALSE, FALSE)
Quit == Handler("quit", FALSE, FALSE)

-----------------------------------------------------------------------------
Process(t) == home[t]
Ended(t) == pc[t] = Len(script[t]) + 1
I(t) == script[t][pc[t]]
At(t, op) == life[t] = "alive" /\ ~Ended(t) /\ I(t).op = op
Step(t) == pc' = [pc EXCEPT ![t] = @ + 1]
Holders(p, e) == {q \in Actors : fds[p][e][q] > 0}
ChildrenOf(q) == {c \in Actors : parent[c] = q /\ home[c] = c
                                 /\ life[c] \in {"alive", "zombie"}}

Boot(s, processes, sems, signals) ==
    /\ script = s
    /\ pc = [t \in Actors |-> 1]
    /\ life = [t \in Actors |-> IF t \in processes THEN "alive" ELSE "unborn"]
    /\ home = [t \in Actors |-> t]
    /\ parent = [t \in Actors |-> None]
    /\ fds = [p \in Pipes |-> [e \in {"r", "w"} |-> [q \in Actors |-> 0]]]
    /\ data = [p \in Pipes |-> <<>>]
    /\ got = [t \in Actors |-> <<>>]
    /\ sem = sems
    /\ act = [q \in Actors |-> [z \in Signals |-> Default]]
    /\ blocked = [q \in Actors |-> {}]
    /\ pending = [q \in Actors |-> {}]
    /\ flag = [q \in Actors |-> FALSE]
    /\ outside = signals
    /\ cut = {}

(* There is no machine.                                                    *)
Off == /\ script = None /\ pc = None /\ life = None /\ home = None
       /\ parent = None /\ fds = None /\ data = None /\ got = None
       /\ sem = None /\ act = None /\ blocked = None /\ pending = None
       /\ flag = None /\ outside = None /\ cut = None

(* The end of process q: its threads end with it, its descriptors are      *)
(* closed, its children lose their parent.  It remains as a zombie while   *)
(* its parent may wait for it.                                             *)
Die(q) ==
    /\ life' = [t \in Actors |->
          IF t = q THEN IF /\ parent[q] # None
                           /\ act[parent[q]]["CHLD"] # Ignore
                        THEN "zombie" ELSE "gone"
          ELSE IF home[t] = q /\ life[t] = "alive" THEN "gone"
          ELSE IF parent[t] = q /\ life[t] = "zombie" THEN "gone"
          ELSE life[t]]
    /\ parent' = [t \in Actors |-> IF parent[t] = q THEN None ELSE parent[t]]
    /\ fds' = [p \in Pipes |-> [e \in {"r", "w"} |-> [fds[p][e] EXCEPT ![q] = 0]]]

(* Returning from main, or from a thread's routine; or a fault.            *)
Leave(t) == /\ life[t] = "alive" /\ (Ended(t) \/ At(t, "crash"))
            /\ IF home[t] = t THEN Die(t)
               ELSE life' = [life EXCEPT ![t] = "gone"] /\ UNCHANGED <<parent, fds>>
            /\ UNCHANGED <<script, pc, home, io, sigs, cut>>

DoFork(t) == /\ At(t, "fork")
             /\ LET c == I(t).t
                    q == Process(t)
                IN  /\ life' = [life EXCEPT ![c] = "alive"]
                    /\ parent' = [parent EXCEPT ![c] = q]
                    /\ fds' = [p \in Pipes |-> [e \in {"r", "w"} |->
                                  [fds[p][e] EXCEPT ![c] = fds[p][e][q]]]]
                    /\ act' = [act EXCEPT ![c] = act[q]]
                    /\ blocked' = [blocked EXCEPT ![c] = blocked[q]]
                    /\ flag' = [flag EXCEPT ![c] = flag[q]]
                    /\ pc' = [pc EXCEPT ![t] = @ + 1, ![c] = 1]
             /\ UNCHANGED <<script, home, io, pending, outside, cut>>

DoCreate(t) == /\ At(t, "create")
               /\ life' = [life EXCEPT ![I(t).t] = "alive"]
               /\ home' = [home EXCEPT ![I(t).t] = Process(t)]
               /\ Step(t)
               /\ UNCHANGED <<script, parent, fds, io, sigs, cut>>

DoJoin(t) == /\ At(t, "join") /\ life[I(t).t] = "gone"
             /\ Step(t)
             /\ UNCHANGED <<script, world, io, sigs, cut>>

Awaited(t) == IF I(t).t = None THEN ChildrenOf(Process(t))
              ELSE ChildrenOf(Process(t)) \cap {I(t).t}
Dead(t) == {c \in Awaited(t) : life[c] = "zombie"}
DoWait(t) == /\ At(t, "wait")
             /\ IF Awaited(t) = {} THEN UNCHANGED life
                ELSE \E c \in Dead(t) : life' = [life EXCEPT ![c] = "gone"]
             /\ Step(t)
             /\ UNCHANGED <<script, home, parent, fds, io, sigs, cut>>

Count(t, k) == fds' = [fds EXCEPT ![I(t).p][I(t).e][Process(t)] = @ + k]
DoDescriptor(t) ==
    /\ \/ At(t, "pipe") /\ fds' = [fds EXCEPT ![I(t).p]["r"][Process(t)] = 1,
                                               ![I(t).p]["w"][Process(t)] = 1]
       \/ At(t, "close") /\ Count(t, -1)
       \/ (At(t, "dup") \/ At(t, "open")) /\ Count(t, 1)
       \/ At(t, "prompt") /\ UNCHANGED fds
    /\ Step(t)
    /\ UNCHANGED <<script, life, home, parent, io, sigs, cut>>

(* Opening a fifo waits for the other end; who came and left has left data.*)
Met(t) == Holders(I(t).p, I(t).e) # {} \/ data[I(t).p] # <<>>
DoPeer(t) == /\ At(t, "peer") /\ Met(t)
             /\ Step(t)
             /\ UNCHANGED <<script, world, io, sigs, cut>>

(* A write nobody can read kills the writer's process.                     *)
DoWrite(t) == /\ At(t, "write")
              /\ IF Holders(I(t).p, "r") = {}
                 THEN Die(Process(t)) /\ UNCHANGED <<pc, data>>
                 ELSE /\ data' = [data EXCEPT ![I(t).p] = Append(@, <<t, I(t).m>>)]
                      /\ Step(t)
                      /\ UNCHANGED <<life, parent, fds>>
              /\ UNCHANGED <<script, home, got, sem, sigs, cut>>

(* One read returns what fits of the messages there are.                   *)
DoRead(t) ==
    /\ At(t, "read") \/ At(t, "drain")
    /\ LET p == I(t).p
           n == IF Len(data[p]) < I(t).n THEN Len(data[p]) ELSE I(t).n
       IN  /\ n > 0 \/ Holders(p, "w") = {}
           /\ got' = [got EXCEPT ![t] = @ \o SubSeq(data[p], 1, n)]
           /\ data' = [data EXCEPT ![p] = SubSeq(@, n + 1, Len(@))]
           /\ IF n > 0 /\ I(t).op = "drain" THEN UNCHANGED pc ELSE Step(t)
    /\ UNCHANGED <<script, world, sem, sigs, cut>>

DoSem(t) == /\ At(t, "sem") /\ sem[I(t).x] + I(t).k >= 0
            /\ sem' = [sem EXCEPT ![I(t).x] = @ + I(t).k]
            /\ Step(t)
            /\ UNCHANGED <<script, world, data, got, sigs, cut>>

DoTest(t) == /\ At(t, "test")
             /\ pc' = [pc EXCEPT ![t] = @ + 1 + IF sem[I(t).x] = 0 THEN 0 ELSE I(t).n]
             /\ UNCHANGED <<script, world, io, sigs, cut>>

DoGoto(t) == /\ At(t, "goto")
             /\ pc' = [pc EXCEPT ![t] = I(t).i]
             /\ UNCHANGED <<script, world, io, sigs, cut>>

-----------------------------------------------------------------------------
DoSigaction(t) == /\ At(t, "sigaction")
                  /\ act' = [act EXCEPT ![t][I(t).s] = I(t).d]
                  /\ Step(t)
                  /\ UNCHANGED <<script, world, io, blocked, pending, flag,
                                 outside, cut>>

DoMask(t) == /\ At(t, "mask")
             /\ blocked' = [blocked EXCEPT ![t] = I(t).S]
             /\ Step(t)
             /\ UNCHANGED <<script, world, io, act, pending, flag, outside, cut>>

DoFlag(t) == /\ At(t, "until") /\ flag[t]
             /\ Step(t)
             /\ UNCHANGED <<script, world, io, sigs, cut>>

(* kill(getppid(), ..) of an orphan goes to init.                          *)
DoKill(t) == LET q == IF I(t).t = None THEN parent[t] ELSE I(t).t
             IN  /\ At(t, "kill")
                 /\ IF q # None /\ life[q] = "alive"
                    THEN pending' = [pending EXCEPT ![q] = @ \cup {I(t).s}]
                    ELSE UNCHANGED pending
                 /\ Step(t)
                 /\ UNCHANGED <<script, world, io, act, blocked, flag,
                                outside, cut>>

(* A user sends a signal.                                                  *)
Send(s) == /\ s \in outside /\ life[Main] = "alive"
           /\ outside' = outside \ {s}
           /\ pending' = [pending EXCEPT ![Main] = @ \cup {s}]
           /\ UNCHANGED <<script, pc, world, io, act, blocked, flag, cut>>

Masked(q) == IF At(q, "suspend") THEN I(q).S ELSE blocked[q]
Waits(t) == At(t, "pause") \/ At(t, "suspend")
Blocks(t) ==
    \/ At(t, "wait") /\ Awaited(t) # {} /\ Dead(t) = {}
    \/ At(t, "peer") /\ ~Met(t)
    \/ (At(t, "read") \/ At(t, "drain")) /\ data[I(t).p] = <<>>
                                         /\ Holders(I(t).p, "w") # {}
    \/ At(t, "sem") /\ sem[I(t).x] + I(t).k < 0

(* A signal arrives.  A handler ends a pause, and makes a blocking call    *)
(* fail with EINTR unless it was set with SA_RESTART.                      *)
Deadly(q, s) == \/ act[q][s] = Default /\ s # "CHLD"
                \/ act[q][s].kind = "handler" /\ act[q][s].effect = "quit"
Runs(q, s) == act[q][s].kind = "handler" /\ act[q][s].effect # "quit"
Interrupts(q, s) == Runs(q, s) /\ Blocks(q) /\ ~act[q][s].restart

Deliver(q, s) ==
    /\ life[q] = "alive" /\ home[q] = q /\ s \in pending[q] \ Masked(q)
    /\ pending' = [pending EXCEPT ![q] = @ \ {s}]
    /\ IF Deadly(q, s) THEN Die(q) ELSE UNCHANGED <<life, parent, fds>>
    /\ flag' = [flag EXCEPT ![q] = @ \/ (Runs(q, s) /\ act[q][s].effect = "flag")]
    /\ act' = IF Runs(q, s) /\ act[q][s].reset
              THEN [act EXCEPT ![q][s] = Default] ELSE act
    /\ IF Interrupts(q, s) \/ (Runs(q, s) /\ Waits(q)) THEN Step(q) ELSE UNCHANGED pc
    /\ cut' = IF Interrupts(q, s) THEN cut \cup {q} ELSE cut
    /\ UNCHANGED <<script, home, io, blocked, outside>>

Do(t) == \/ Leave(t) \/ DoFork(t) \/ DoCreate(t) \/ DoJoin(t) \/ DoWait(t)
         \/ DoDescriptor(t) \/ DoPeer(t) \/ DoWrite(t) \/ DoRead(t) \/ DoSem(t) \/ DoTest(t)
         \/ DoGoto(t) \/ DoSigaction(t) \/ DoMask(t) \/ DoFlag(t) \/ DoKill(t)
Receive(t) == \E s \in Signals : Deliver(t, s)
=============================================================================
