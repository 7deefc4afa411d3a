--------------------------- MODULE CommandPipeline --------------------------
(***************************************************************************)
(* EXAMS/01_02_2023/server.c, the first of its three programs (lines       *)
(* 1-183): child processes write commands into one pipe, main reads the    *)
(* pipe in pieces of 18 bytes into a bounded list, and worker threads take *)
(* the commands out of the list.  Two semaphores count room and commands.  *)
(*                                                                         *)
(* The list is touched only under both of its mutexes, always taken in the *)
(* same order, so each such section is one step.  The children's mutex     *)
(* around write is a copy per process and orders nothing; a write this     *)
(* short is atomic in any case.  A command starts with the pid of its      *)
(* child, so its length depends on how many digits the pid has: it is the  *)
(* 18 bytes main reads only for a pid of five digits.                      *)
(***************************************************************************)
EXTENDS Naturals, Sequences, SequencesExt, FiniteSets, FiniteSetsExt

CONSTANTS Children,    \* the processes that run child_functio (3)
          Workers,     \* the threads that run worker_handling (2)
          PerChild,    \* how many commands a child sends (5)
          MaxCommands, \* MAX_COMANDS
          ReadLen,     \* how much main reads at once (18)
          MsgLens,     \* the lengths a command may have
          None         \* what was never written

ASSUME PipelineAssumption ==
    /\ IsFiniteSet(Children) /\ IsFiniteSet(Workers)
    /\ {PerChild, MaxCommands, ReadLen} \subseteq Nat \ {0}
    /\ MsgLens \subseteq Nat \ {0}

VARIABLES msgLen,        \* the length of each child's commands
          sent,          \* how many commands each child has written
          exited,        \* the children that have ended
          pipe,          \* the units in the pipe, oldest first
          main,          \* where main is
          reads,         \* its loop variable i
          buffer,        \* its local buffer
          comands_list,  \* the first current_commands_in_list entries
          take_commands, \* semaphore: room in the list
          add_commands,  \* semaphore: commands in the list
          finished,
          pc,            \* where each worker is
          taken          \* history: the entries taken out, in order

vars == <<msgLen, sent, exited, pipe, main, reads, buffer, comands_list,
          take_commands, add_commands, finished, pc, taken>>
childVars == <<msgLen, sent, exited>>
mainVars  == <<main, reads, buffer>>

Total == PerChild * Cardinality(Children)

(* The units of the n-th command of child c.                               *)
Command(c, n, len) == [k \in 1 .. len |-> <<c, n, k>>]

Init == /\ msgLen \in [Children -> MsgLens]
        /\ sent = [c \in Children |-> 0]
        /\ exited = {}
        /\ pipe = <<>>
        /\ main = "room"
        /\ reads = 0
        /\ buffer = [k \in 1 .. ReadLen |-> None]
        /\ comands_list = <<>>
        /\ take_commands = MaxCommands
        /\ add_commands = 0
        /\ finished = 0
        /\ pc = [w \in Workers |-> "test"]
        /\ taken = <<>>

-----------------------------------------------------------------------------
(* child_functio                                                           *)

ChildWrite(c) ==
    /\ sent[c] < PerChild
    /\ sent' = [sent EXCEPT ![c] = @ + 1]
    /\ pipe' = pipe \o Command(c, sent[c] + 1, msgLen[c])
    /\ UNCHANGED <<msgLen, exited, mainVars, comands_list, take_commands,
                   add_commands, finished, pc, taken>>

ChildExit(c) ==
    /\ sent[c] = PerChild /\ c \notin exited
    /\ exited' = exited \cup {c}
    /\ UNCHANGED <<msgLen, sent, pipe, mainVars, comands_list, take_commands,
                   add_commands, finished, pc, taken>>

-----------------------------------------------------------------------------
(* main                                                                    *)

MainGoto(from, to) == main = from /\ main' = to

(* Variant: main does not wait for room.                                   *)
MainSkipsRoom == /\ reads < Total
                 /\ MainGoto("room", "read")
                 /\ UNCHANGED <<childVars, pipe, reads, buffer, comands_list,
                                take_commands, add_commands, finished, pc, taken>>

MainRoom == /\ reads < Total
            /\ take_commands > 0
            /\ MainGoto("room", "read")
            /\ take_commands' = take_commands - 1
            /\ UNCHANGED <<childVars, pipe, reads, buffer, comands_list,
                           add_commands, finished, pc, taken>>

(* read takes what is there, up to n units; the rest of the buffer keeps   *)
(* what it held, and at the end of the file all of it does.                *)
ReadAtMost(n) ==
    /\ MainGoto("read", "add")
    /\ \/ pipe # <<>>
       \/ exited = Children
    /\ LET got == Min({n, Len(pipe)}) IN
       /\ buffer' = [k \in 1 .. ReadLen |-> IF k <= got THEN pipe[k] ELSE buffer[k]]
       /\ pipe' = SubSeq(pipe, got + 1, Len(pipe))
    /\ UNCHANGED <<childVars, reads, comands_list, take_commands, add_commands,
                   finished, pc, taken>>

(* Variant: one unit too few is read.                                      *)
MainReadShort == ReadAtMost(ReadLen - 1)

MainRead == ReadAtMost(ReadLen)

MainAdd == /\ MainGoto("add", "post")
           /\ comands_list' = Append(comands_list, buffer)
           /\ UNCHANGED <<childVars, pipe, reads, buffer, take_commands,
                          add_commands, finished, pc, taken>>

MainPost == /\ MainGoto("post", "room")
            /\ add_commands' = add_commands + 1
            /\ reads' = reads + 1
            /\ UNCHANGED <<childVars, pipe, buffer, comands_list, take_commands,
                           finished, pc, taken>>

(* wait() until every child has ended, then the flag and one post for each *)
(* worker.                                                                 *)
MainFinish == /\ reads = Total /\ exited = Children
              /\ MainGoto("room", "wake")
              /\ finished' = 1
              /\ UNCHANGED <<childVars, pipe, reads, buffer, comands_list,
                             take_commands, add_commands, pc, taken>>

(* Variant: only one worker is woken.                                      *)
MainWakeOne == /\ MainGoto("wake", "join")
               /\ add_commands' = add_commands + 1
               /\ UNCHANGED <<childVars, pipe, reads, buffer, comands_list,
                              take_commands, finished, pc, taken>>

MainWake == /\ MainGoto("wake", "join")
            /\ add_commands' = add_commands + Cardinality(Workers)
            /\ UNCHANGED <<childVars, pipe, reads, buffer, comands_list,
                           take_commands, finished, pc, taken>>

MainJoin == /\ \A w \in Workers : pc[w] = "exit"
            /\ MainGoto("join", "end")
            /\ UNCHANGED <<childVars, pipe, reads, buffer, comands_list,
                           take_commands, add_commands, finished, pc, taken>>

-----------------------------------------------------------------------------
(* worker_handling                                                         *)

Goto(w, from, to) == /\ pc[w] = from
                     /\ pc' = [pc EXCEPT ![w] = to]

WorkerTest(w) == /\ Goto(w, "test", IF finished = 1 THEN "exit" ELSE "wait")
                 /\ UNCHANGED <<childVars, pipe, mainVars, comands_list,
                                take_commands, add_commands, finished, taken>>

WorkerWait(w) == /\ add_commands > 0
                 /\ Goto(w, "wait", "retest")
                 /\ add_commands' = add_commands - 1
                 /\ UNCHANGED <<childVars, pipe, mainVars, comands_list,
                                take_commands, finished, taken>>

(* Variant: the flag is not tested again after the semaphore.              *)
WorkerNoRetest(w) == /\ Goto(w, "retest", "take")
                     /\ UNCHANGED <<childVars, pipe, mainVars, comands_list,
                                    take_commands, add_commands, finished, taken>>

WorkerRetest(w) == /\ Goto(w, "retest", IF finished = 1 THEN "exit" ELSE "take")
                   /\ UNCHANGED <<childVars, pipe, mainVars, comands_list,
                                  take_commands, add_commands, finished, taken>>

(* The first entry is copied out, the others move down one place.  The     *)
(* code does not test for an empty list; SemaphoresExact says that it need *)
(* not.                                                                    *)
WorkerTake(w) == /\ comands_list # <<>>
                 /\ Goto(w, "take", "give")
                 /\ taken' = Append(taken, Head(comands_list))
                 /\ comands_list' = Tail(comands_list)
                 /\ UNCHANGED <<childVars, pipe, mainVars, take_commands,
                                add_commands, finished>>

WorkerGive(w) == /\ Goto(w, "give", "test")
                 /\ take_commands' = take_commands + 1
                 /\ UNCHANGED <<childVars, pipe, mainVars, comands_list,
                                add_commands, finished, taken>>

-----------------------------------------------------------------------------
ChildStep(c) == ChildWrite(c) \/ ChildExit(c)
MainStep == \/ MainRoom \/ MainRead \/ MainAdd \/ MainPost
            \/ MainFinish \/ MainWake \/ MainJoin
WorkerStep(w) == \/ WorkerTest(w) \/ WorkerWait(w) \/ WorkerRetest(w)
                 \/ WorkerTake(w) \/ WorkerGive(w)

Next == \/ \E c \in Children : ChildStep(c)
        \/ MainStep
        \/ \E w \in Workers : WorkerStep(w)

Spec == Init /\ [][Next]_vars

(* Every process and every thread that can run does run.                   *)
Fairness == /\ \A c \in Children : WF_vars(ChildStep(c))
            /\ WF_vars(MainStep)
            /\ \A w \in Workers : WF_vars(WorkerStep(w))

FairSpec == Spec /\ Fairness

-----------------------------------------------------------------------------
Entries == Seq([1 .. ReadLen -> (Children \X Nat \X Nat) \cup {None}])
WorkersAt(places) == {w \in Workers : pc[w] \in places}
One(condition) == IF condition THEN 1 ELSE 0

(* Every variable has its type; in particular the list never holds more    *)
(* than MAX_COMANDS entries, so main's index stays in the array.           *)
TypeOK == /\ msgLen \in [Children -> MsgLens]
          /\ sent \in [Children -> 0 .. PerChild]
          /\ exited \subseteq Children
          /\ main \in {"room", "read", "add", "post", "wake", "join", "end"}
          /\ reads \in 0 .. Total
          /\ comands_list \in Entries /\ Len(comands_list) <= MaxCommands
          /\ take_commands \in 0 .. MaxCommands
          /\ add_commands \in 0 .. Total + Cardinality(Workers)
          /\ finished \in 0 .. 1
          /\ pc \in [Workers -> {"test", "wait", "retest", "take", "give", "exit"}]
          /\ taken \in Entries

(* Part of CommandsKept.                                                   *)
(* A worker that is past both tests finds a command in the list, even when *)
(* main has meanwhile set the flag and posted the semaphore for workers    *)
(* that should only leave; and every place of the list is accounted for by *)
(* the semaphore, by a command or by a thread that is about to use it.     *)
SemaphoresExact ==
    /\ Cardinality(WorkersAt({"take"})) <= Len(comands_list)
    /\ take_commands + Len(comands_list) + One(main \in {"read", "add"})
         + Cardinality(WorkersAt({"give"})) = MaxCommands
    /\ finished = 0 =>
         add_commands + Cardinality(WorkersAt({"retest", "take"}))
           + One(main = "post") = Len(comands_list)

(* Part of CommandsKept.                                                   *)
(* When every pid has five digits, each entry of the list is one whole     *)
(* command, and of the commands of its child that have come through it is  *)
(* the next one: they come out once each and in order, whatever the        *)
(* children and the workers do meanwhile.                                  *)
FiveDigits == \A c \in Children : msgLen[c] = ReadLen
Through == taken \o comands_list \o (IF main = "add" THEN <<buffer>> ELSE <<>>)
FromChild(c, i) == {j \in 1 .. i : Through[j][1][1] = c}
CommandsWhole ==
    FiveDigits =>
        \A i \in 1 .. Len(Through) :
            \E c \in Children : \E n \in 1 .. sent[c] :
                /\ Through[i] = Command(c, n, ReadLen)
                /\ Cardinality(FromChild(c, i)) = n

(* No command is lost, cut or taken twice, and nobody takes one from an    *)
(* empty list or puts one into a full one.                                 *)
CommandsKept == SemaphoresExact /\ CommandsWhole

(* The program ends, however long the pids are: main reads its number of   *)
(* times and the posts at the end reach every worker that still waits.     *)
ProgramEnds == <>(main = "end")
=============================================================================
