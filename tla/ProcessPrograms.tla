--------------------------- MODULE ProcessPrograms ---------------------------
(***************************************************************************)
(* Programs of several processes in practice/, Lab3, Lab4, Lab7,           *)
(* EXTRA_exercises and EXAMS/encrypted_2023, as scripts for Processes.  An *)
(* execution is one run of one program.                                    *)
(***************************************************************************)
EXTENDS Processes

CONSTANTS K1, K2, K3, K4   \* the children, or threads, of Main

VARIABLE program

procVars == <<program, machine>>

Pair == <<K1, K2>>
Each(op(_), ts) == [i \in DOMAIN ts |-> op(ts[i])]
Times(n, s) == [i \in 1 .. n * Len(s) |-> s[((i - 1) % Len(s)) + 1]]
Cast(main, a, b, c) == [t \in Actors |-> CASE t = Main -> main [] t = K1 -> a
                                           [] t = K2 -> b [] OTHER -> c]
Nobody == <<>>

-----------------------------------------------------------------------------
(* practice/pipes_sync/server.c: one read for each child, whatever a read  *)
(* brings.                                                                 *)
sync_child == <<Close("p1", "r"), Write("p1", 1)>>
(* Variant: one read, as if it brought both messages.                      *)
sync_main_once == <<Pipe("p1")>> \o Each(Fork, Pair) \o <<Close("p1", "w"), Read("p1")>>
                      \o Times(2, <<WaitChild>>)

sync_main == <<Pipe("p1")>> \o Each(Fork, Pair) \o <<Close("p1", "w")>> \o Times(2, <<Read("p1")>>)
                 \o Times(2, <<WaitChild>>)

(* practice/practice_semaphores/prr.c                                      *)
child_process == <<Close("p1", "r"), Write("p1", 1), Write("p1", 2), Close("p1", "w")>>
(* Variant: the parent keeps its end for writing.                          *)
parent_keeps == <<Drain("p1"), Close("p1", "r")>>

parent_process == <<Close("p1", "w"), Drain("p1"), Close("p1", "r")>>
prr_main == <<Pipe("p1"), Fork(K1)>> \o parent_process \o <<WaitChild>>

(* practice/practice_semaphores/file.c: a child reads what the threads of  *)
(* its parent write.  The semaphore is 1 at the start.                     *)
thread_routine == <<Sem("s", -1), Write("p1", 1)>>
child_proc == Times(2, <<ReadOne("p1"), Sem("s", 1)>>)
file_main == <<Pipe("p1")>> \o Each(Create, Pair) \o <<Fork(K3), WaitChild>> \o Each(Join, Pair)

(* practice/practice_semaphores/server.c: the child ends at once, and      *)
(* nobody posts the semaphore.                                             *)
server_main == <<Pipe("p1"), Fork(K3), Close("p1", "r")>> \o Each(Create, Pair)
                   \o Each(Join, Pair) \o <<WaitChild>>

(* practice/pipes_mq/server.c: the child's sem is the global one, NULL.    *)
child_routine == <<Close("p1", "r"), Crash>>
mq_main == <<Pipe("p1"), Fork(K1), Close("p1", "w"), SkipUnless0("s", 2), Read("p1"), Sem("s", 1)>>

(* LAB3/lab3_ex/ex2/pipe.c: both ends are duplicated, and parent_loop      *)
(* closes only the duplicate.                                              *)
child_loop == <<Drain("p1"), Close("p1", "r")>>
parent_loop == <<Write("p1", 1), Write("p1", 2), Close("p1", "w")>>
pipe_child == <<Close("p1", "w"), Dup("p1", "r")>> \o child_loop
pipe_main == <<Pipe("p1"), Fork(K1), Close("p1", "r"), Dup("p1", "w")>> \o parent_loop \o <<WaitChild>>

(* EXAMS/encrypted_2023/server.c with NR_PROC = 2: the command a child     *)
(* becomes reads up to the end of its pipe.                                *)
starting_thread_routine(p) == <<Write(p, 1)>>
child_handle_functin(p) == <<Close(p, "w"), Dup(p, "r"), Close(p, "r"), Drain(p)>>
encrypted_main == <<Pipe("p1"), Pipe("p2")>> \o Each(Fork, Pair) \o <<Close("p1", "r"), Close("p2", "r")>>
                      \o Each(Create, <<K3, K4>>) \o Each(Join, <<K3, K4>>)

(* Lab4/practice_code_vvvv/l4.c                                            *)
l4_child == <<Close("p1", "r"), Write("p1", 1), Write("p1", 2), Close("p1", "w")>>
l4_main == <<Pipe("p1"), Fork(K1), Close("p1", "w")>> \o Times(2, <<ReadOne("p1")>>) \o <<WaitChild>>

(* Lab7_threads/event_fd_ex__in_lab.c: the child falls through the switch  *)
(* and reads, too.                                                         *)
event_child == <<Sem("efd", 1), Sem("efd", -1)>>
event_main == <<Fork(K1), Sem("efd", -1)>>

(* 8-fork_thread/ft.c: the child waits, too, and has nobody to wait for.   *)
ft_child == <<WaitChild>>
ft_main == <<Create(K1), Fork(K2), WaitChild>>

(* Variant: one wait fewer.                                                *)
processes_waits_twice == Each(Fork, <<K1, K2, K3>>) \o Times(2, <<WaitChild>>)

(* 2-th_vs_proc/processes.c and EXTRA_exercises/PROCESSES/ex1.c            *)
processes_main == Each(Fork, <<K1, K2, K3>>) \o Times(3, <<WaitChild>>)
ex1_main == processes_main \o <<WaitChild, WaitChild>>

-----------------------------------------------------------------------------
(* The signal programs of Lab4.                                            *)

(* l1.c and l3.c                                                           *)
l1_main == <<Fork(K1), Kill(K1, "KILL"), WaitChild>>
Restarting == Handler("note", TRUE, FALSE)
l3_child == <<Sigaction("TERM", Quit), KillParent("USR1"), Goto(2)>>
l3_main == <<Fork(K1), Sigaction("USR1", Restarting), Kill(K1, "TERM"), WaitChild>>

(* practice/lab_practice: file.c, where parent and child inherit the       *)
(* handler and signal each other; file2.c and file3.c; file4.c.            *)
lab_child == <<KillParent("USR1")>>
lab_main == <<Sigaction("USR1", Note), Fork(K1), Kill(K1, "USR1"), WaitChild>>
file2_child == <<Sigaction("USR1", Note), Mask({"USR1"}), Mask({})>>
file2_main == <<Fork(K1), Kill(K1, "USR1"), WaitChild>>
AllBut == Signals \ {"USR1"}
file4_child == <<Sigaction("USR1", Note), Mask(AllBut), Suspend(AllBut)>>
file4_main == <<Sigaction("INT", Note), Fork(K1), Kill(K1, "USR1"), WaitChild>>

(* hitme.c, signals.c and practice3.c: a user sends the signals.           *)
Once == Handler("flag", FALSE, TRUE)
hitme_main == <<Sigaction("XCPU", Once), Sigaction("XFSZ", Once), UntilFlag>>
signals_main == <<Sigaction("INT", Note), Sigaction("QUIT", Flag), UntilFlag>>
practice3_main == <<Sigaction("INT", Note), Sigaction("QUIT", Quit),
                    Mask({"QUIT"}), Mask({}), Goto(3)>>

(* mkzombie.c and nozombie.c                                               *)
mkzombie_main == <<Fork(K1)>>
nozombie_main == <<Fork(K1), Sigaction("CHLD", Ignore)>>

(* practice/tttttt: the client, K1, waits in its handler, ten rounds of    *)
(* STUDENT_COUNTER waits each, for a server that posts STUDENT_COUNTER     *)
(* times.                                                                  *)
make_the_media == Times(2, <<Sem("s", -1)>>)
client_main == <<Sigaction("USR1", Note), Pause>> \o Times(2, make_the_media)
marks_main == <<Kill(K1, "USR1"), Sem("s", 1), Sem("s", 1)>>

(* EXTRA_exercises/PROCESSES/ex3.c: each child reads a part of what the    *)
(* handler writes into a fifo.  The signal comes during the pause, or just *)
(* before it.                                                              *)
ex3_child == Open("p1", "r") \o <<ReadOne("p1"), Close("p1", "r")>>
sig_usr_handle == Open("p1", "w") \o Times(3, <<Write("p1", 1)>>) \o <<Close("p1", "w")>>
ex3_main(early) ==
    Each(Fork, Pair) \o <<Sigaction("USR1", Flag)>>
        \o (IF early THEN <<UntilFlag>> \o sig_usr_handle \o <<Pause>>
                     ELSE <<Pause>> \o sig_usr_handle)
        \o <<WaitChild>>

-----------------------------------------------------------------------------
(* LAB3/lab3_ex/TINY_SHELL/tiny_shell.c.  K1 and K2 are the two ends of a  *)
(* pipe, K3 any other command.  A pipeline of three commands runs as two   *)
(* pairs.  A line without a word is a null pointer in strcmp.              *)
normal_execution == <<Fork(K3), WaitPid(K3)>>
redirect_output == <<Fork(K3), WaitChild>>
(* Variant: only the command at the end is waited for.                     *)
procs_wait_last == <<Pipe("p1"), Fork(K1), Fork(K2), Close("p1", "r"),
                     Close("p1", "w"), WaitPid(K2)>>

procs_communicate == <<Pipe("p1"), Fork(K1), Fork(K2), Close("p1", "r"),
                       Close("p1", "w"), WaitPid(K1), WaitPid(K2)>>
parse_pipes_commands(n) == Times(n - 1, procs_communicate)
set_environment_variable == <<>>
Lines == {normal_execution, redirect_output, set_environment_variable,
          parse_pipes_commands(2), parse_pipes_commands(3), <<Crash>>}
shell_main(line, next) == <<Prompt>> \o line \o <<Prompt>> \o next \o <<Prompt>>
writing_command == <<Close("p1", "r"), Dup("p1", "w"), Close("p1", "w"),
                     Write("p1", 1), Write("p1", 2)>>
reading_command(use) == <<Close("p1", "w"), Dup("p1", "r"), Close("p1", "r")>> \o use
Uses == {<<Drain("p1")>>, <<ReadOne("p1")>>, <<>>}
Shells == {Cast(shell_main(line, next), writing_command, reading_command(use), Nobody) :
              line \in Lines, next \in Lines, use \in Uses}

-----------------------------------------------------------------------------
Scripts == [
    pipes_sync |-> Cast(sync_main, sync_child, sync_child, Nobody),
    prr        |-> Cast(prr_main, child_process, Nobody, Nobody),
    file       |-> Cast(file_main, thread_routine, thread_routine, child_proc),
    server     |-> Cast(server_main, thread_routine, thread_routine, Nobody),
    pipes_mq   |-> Cast(mq_main, child_routine, Nobody, Nobody),
    pipe       |-> Cast(pipe_main, pipe_child, Nobody, Nobody),
    encrypted  |-> [Cast(encrypted_main, child_handle_functin("p1"),
                         child_handle_functin("p2"), starting_thread_routine("p1"))
                       EXCEPT ![K4] = starting_thread_routine("p2")],
    l4         |-> Cast(l4_main, l4_child, Nobody, Nobody),
    event      |-> Cast(event_main, event_child, Nobody, Nobody),
    ft         |-> Cast(ft_main, Nobody, ft_child, Nobody),
    processes  |-> Cast(processes_main, Nobody, Nobody, Nobody),
    ex1        |-> Cast(ex1_main, Nobody, Nobody, Nobody),
    l1         |-> Cast(l1_main, <<Goto(1)>>, Nobody, Nobody),
    l3         |-> Cast(l3_main, l3_child, Nobody, Nobody),
    lab        |-> Cast(lab_main, lab_child, Nobody, Nobody),
    file2      |-> Cast(file2_main, file2_child, Nobody, Nobody),
    file4      |-> Cast(file4_main, file4_child, Nobody, Nobody),
    hitme      |-> Cast(hitme_main, Nobody, Nobody, Nobody),
    signals    |-> Cast(signals_main, Nobody, Nobody, Nobody),
    practice3  |-> Cast(practice3_main, Nobody, Nobody, Nobody),
    mkzombie   |-> Cast(mkzombie_main, Nobody, Nobody, Nobody),
    nozombie   |-> Cast(nozombie_main, Nobody, Nobody, Nobody),
    marks      |-> Cast(marks_main, client_main, Nobody, Nobody),
    ex3        |-> Cast(ex3_main(FALSE), ex3_child, ex3_child, Nobody),
    ex3_early  |-> Cast(ex3_main(TRUE), ex3_child, ex3_child, Nobody)]

Running(name) == IF name = "marks" THEN {Main, K1} ELSE {Main}
Posted(name) == [x \in Sems |-> IF x = "s" /\ name # "marks" THEN 1 ELSE 0]
UserSends(name) == CASE name = "hitme" -> {"XCPU", "XFSZ"}
                     [] name \in {"signals", "practice3"} -> {"INT", "QUIT"}
                     [] name = "file4" -> {"INT"}
                     [] name \in {"ex3", "ex3_early"} -> {"USR1"}
                     [] OTHER -> {}

ProcInit ==
    \/ /\ program \in DOMAIN Scripts
       /\ Boot(Scripts[program], Running(program), Posted(program), UserSends(program))
    \/ /\ program = "shell"
       /\ \E s \in Shells : Boot(s, {Main}, Posted("shell"), {})

(* Nothing is run.                                                         *)
ProcQuiet == program = "none" /\ Off

ProcNext == /\ program # "none"
            /\ \/ \E t \in Actors : Do(t) \/ Receive(t)
               \/ \E s \in Signals : Send(s)
            /\ UNCHANGED program

(* Every process runs on and gets its signals, Main also one it blocks and *)
(* unblocks for ever; a user need not do anything.                         *)
Proceeds(A) == program # "none" /\ A /\ UNCHANGED program
ProcFairness == /\ \A t \in Actors : /\ WF_procVars(Proceeds(Do(t)))
                                     /\ WF_procVars(Proceeds(Receive(t)))
                /\ SF_procVars(Proceeds(Receive(Main)))

-----------------------------------------------------------------------------
ProcTypeOK ==
    program # "none" =>
        /\ \A t \in Actors : pc[t] \in 1 .. Len(script[t]) + 1
        /\ \A p \in Pipes, e \in {"r", "w"}, q \in Actors : fds[p][e][q] \in 0 .. 2
        /\ \A x \in Sems : sem[x] \in Nat

Left == life[Main] = "gone" /\ Ended(Main)

(* When a program that reads what its processes wrote has left, every      *)
(* message was read once and in the order it was written.                  *)
Readers == {"pipes_sync", "prr", "file", "l4"}
ReadBy(p) == UNION {{got[t][i] : i \in DOMAIN got[t]} : t \in Actors}
AllRead ==
    program \in Readers /\ Left =>
        /\ \A p \in Pipes : data[p] = <<>>
        /\ \E t \in Actors :
              /\ Len(got[t]) = 2
              /\ got[t][1] # got[t][2]
              /\ got[t][1][2] <= got[t][2][2]

(* A program that waits for its children leaves none behind, unless a      *)
(* handler interrupted the wait.                                           *)
Waiting == {"pipes_sync", "prr", "file", "l4", "ft", "processes", "ex1", "l1",
            "l3", "lab", "file2", "file4"}
LeavesNobody ==
    program \in Waiting /\ Left /\ Main \notin cut =>
        \A t \in Actors : life[t] \in {"unborn", "gone"}

(* Whenever the shell asks for a line, nothing of the last one is left.    *)
PromptAlone == program = "shell" /\ At(Main, "prompt") =>
                   /\ \A t \in Actors : t = Main \/ life[t] \in {"unborn", "gone"}
                   /\ \A p \in Pipes, e \in {"r", "w"} : Holders(p, e) = {}

(* Every program ends, but for those named here.                           *)
Alive(t) == life[t] = "alive"
WaitsForEver(t) == Alive(t) /\ Blocks(t)
Stuck ==
    \* nobody else has the pipe open for writing
    \/ program = "pipe" /\ WaitsForEver(Main) /\ WaitsForEver(K1)
    \/ program = "encrypted" /\ Left /\ (WaitsForEver(K1) \/ WaitsForEver(K2))
    \* two actors wait for what only one gets
    \/ program = "event" /\ (WaitsForEver(Main) \/ WaitsForEver(K1))
    \/ program = "server" /\ (WaitsForEver(K1) \/ WaitsForEver(K2))
    \/ program = "marks" /\ Left /\ WaitsForEver(K1)
    \* the signal came before the pause
    \/ program = "file4" /\ At(K1, "suspend") /\ pending[K1] = {}
    \/ program = "ex3_early" /\ At(Main, "pause")
    \* nobody opens the fifo for writing
    \/ program \in {"ex3", "ex3_early"} /\ life[Main] = "gone"
         /\ (WaitsForEver(K1) \/ WaitsForEver(K2))
    \* the signal came before the handler, and left an orphan that runs on
    \/ program = "l3" /\ life[Main] = "gone" /\ Alive(K1)
    \* nobody sent the signal that ends it
    \/ program \in {"ex3", "ex3_early"} /\ outside # {}
    \/ program = "hitme" /\ outside = {"XCPU", "XFSZ"}
    \/ program \in {"signals", "practice3"} /\ "QUIT" \in outside
ProcsEnd == <>[](program = "none" \/ Stuck \/ \A t \in Actors : ~Alive(t))
=============================================================================
