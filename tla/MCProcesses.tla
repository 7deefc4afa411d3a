---------------------------- MODULE MCProcesses -----------------------------
(* Small instances of CommandPipeline and the programs of ProcessPrograms. *)
(* A behaviour is one of a single program; for the others it starts in a   *)
(* state where nothing is enabled, so their fairness says nothing.         *)
EXTENDS CommandPipeline, TLC

CONSTANTS c1, c2, w1, w2, Parent, K1, K2, K3, K4

VARIABLES program, script, at, life, home, parent, fds, data, got, sem, act,
          blocked, pending, flag, outside, cut

MCChildren == {c1, c2}
MCWorkers  == {w1, w2}
MCMsgLens  == {1, 2, 3}

Programs == INSTANCE ProcessPrograms WITH
    Actors <- {Parent, K1, K2, K3, K4}, Main <- Parent, pc <- at,
    Pipes <- {"p1", "p2"}, Sems <- {"s", "efd"},
    Signals <- {"USR1", "TERM", "INT", "QUIT", "CHLD", "KILL", "XCPU", "XFSZ"}

programVars == <<program, script, at, life, home, parent, fds, data, got, sem, act,
                 blocked, pending, flag, outside, cut>>

PipelineQuiet == /\ msgLen = [c \in Children |-> 1]
                 /\ sent = [c \in Children |-> PerChild]
                 /\ exited = Children
                 /\ pipe = <<>>
                 /\ main = "end"
                 /\ reads = Total
                 /\ buffer = [k \in 1 .. ReadLen |-> None]
                 /\ comands_list = <<>>
                 /\ take_commands = MaxCommands
                 /\ add_commands = 0
                 /\ finished = 1
                 /\ pc = [w \in Workers |-> "exit"]
                 /\ taken = <<>>

ProcessesInit == \/ Init /\ Programs!ProcQuiet
                 \/ PipelineQuiet /\ Programs!ProcInit
ProcessesNext == \/ Next /\ UNCHANGED programVars
                 \/ Programs!ProcNext /\ UNCHANGED vars
ProcessesSpec == /\ ProcessesInit
                 /\ [][ProcessesNext]_<<vars, programVars>>
                 /\ Fairness /\ Programs!ProcFairness

-----------------------------------------------------------------------------
(* Every variable has its type, in the pipeline and in the programs.       *)
TypesOK == TypeOK /\ Programs!ProcTypeOK

(* What a process writes is read once and in order when its program ends.  *)
AllRead == Programs!AllRead

(* A program that waits for its children, and the shell before it asks for *)
(* the next line, leaves no process and no descriptor behind.              *)
NothingLeft == Programs!LeavesNobody /\ Programs!PromptAlone

(* Every program ends for good, but in the ways ProcessPrograms names.     *)
ProcsEnd == Programs!ProcsEnd
=============================================================================
