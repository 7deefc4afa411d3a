---------------------------- MODULE SelectServer ----------------------------
(***************************************************************************)
(* Three servers with one skeleton: main waits in select for a connection  *)
(* with a time limit of a second, starts a thread per client, and tests    *)
(* under a mutex whether a signal handler has set the flag finished; then  *)
(* it joins the threads.                                                   *)
(*                                                                         *)
(*   "pipe"   EXAMS/01_02_2023/server.c, lines 200-442: the handler also   *)
(*            writes a byte into a pipe that every client thread selects   *)
(*            on and nobody reads.                                         *)
(*   "plain"  EXAMS/examen_23_06_2023___/server.c: client threads block in *)
(*            recv (restarted after a signal) and answer or send a file.   *)
(*   "jobs"   EXAMS/PART2_lab14/server.c: one more thread waits for child  *)
(*            processes in a loop on the same flag and mutex.  JobServer   *)
(*            models its jobs; here a request starts a child, uses the     *)
(*            table of jobs under jobs_mutex, or does neither.             *)
(*                                                                         *)
(* A signal is delivered to any thread of the process and its handler runs *)
(* on top of that thread, which does nothing else until it returns.  Each  *)
(* loop is left with the mutex locked, and so it stays.  Unlocking a mutex *)
(* that another thread holds, as "jobs" may, takes it from that thread.    *)
(***************************************************************************)
EXTENDS Naturals, FiniteSets

CONSTANTS Clients,    \* connections, each with its thread
          Main,       \* the thread that runs main
          Waiter,     \* "jobs": the thread that waits for children
          MaxSignals, \* how many signals are sent to the process
          None        \* no holder of the mutex

ASSUME SelectAssumption ==
    /\ Cardinality({Main, Waiter, None}) = 3
    /\ {Main, Waiter, None} \cap Clients = {}
    /\ IsFiniteSet(Clients)
    /\ MaxSignals \in Nat

VARIABLES program,   \* which of the servers runs; fixed from the start
          main,      \* where main is
          mutex,     \* holder of mutex_finish (finished_mutex)
          finished,
          notified,  \* is the byte in the pipe?
          thread,    \* the client threads
          conn,      \* the connections, as the server sees them
          said,      \* what each client has sent
          waiter,    \* "jobs": where Waiter is,
          sem,       \*         posts it has not taken,
          childOf,   \*         and the child each thread has started
          handler,   \* where the signal handler is on top of each thread
          signals,   \* how many signals were delivered
          running    \* FALSE once the process has exited

flag    == <<program, finished, notified>>
clients == <<thread, conn, said>>
jobs    == <<waiter, sem, childOf>>
signal  == <<handler, signals>>
vars    == <<flag, main, mutex, clients, jobs, signal, running>>

Threads  == Clients \cup {Main, Waiter}
Messages == {"request", "missing file", "nothing, and closed"}

Init == /\ program \in {"pipe", "plain", "jobs"}
        /\ main = "relock"
        /\ mutex = None
        /\ finished = 0
        /\ notified = FALSE
        /\ thread = [c \in Clients |-> "none"]
        /\ conn = [c \in Clients |-> "fresh"]
        /\ said = [c \in Clients |-> "nothing"]
        /\ waiter = IF program = "jobs" THEN "relock" ELSE "absent"
        /\ sem = 0
        /\ childOf = [c \in Clients |-> "none"]
        /\ handler = [t \in Threads |-> "idle"]
        /\ signals = 0
        /\ running = TRUE

-----------------------------------------------------------------------------
(* The loop of main.                                                       *)

MainGoto(from, to) == /\ handler[Main] = "idle"
                      /\ main = from /\ main' = to

MainTest == /\ MainGoto("test", IF finished = 1 THEN "join" ELSE "select")
            /\ mutex' = IF finished = 1 THEN mutex ELSE None
            /\ UNCHANGED <<flag, clients, jobs, signal, running>>

MainSelect == /\ \E c \in Clients : conn[c] = "pending"
              /\ MainGoto("select", "accept")
              /\ UNCHANGED <<flag, mutex, clients, jobs, signal, running>>

(* Where main goes when select has timed out or was interrupted: only      *)
(* "jobs" does not lock the mutex again.                                   *)
NoConnection == IF program = "jobs" THEN "test" ELSE "relock"

MainTimeout == /\ MainGoto("select", NoConnection)
               /\ UNCHANGED <<flag, mutex, clients, jobs, signal, running>>

(* Variant: a second connection is accepted but gets no thread.            *)
MainAcceptOne(c) ==
    /\ conn[c] = "pending"
    /\ MainGoto("accept", "relock")
    /\ conn' = [conn EXCEPT ![c] = "accepted"]
    /\ thread' = IF \E d \in Clients : conn[d] = "accepted"
                 THEN thread ELSE [thread EXCEPT ![c] = "serving"]
    /\ UNCHANGED <<flag, mutex, said, jobs, signal, running>>

(* select has reported a connection and only main accepts, so accept does  *)
(* not block and is not interrupted.                                       *)
MainAccept(c) == /\ conn[c] = "pending"
                 /\ MainGoto("accept", "relock")
                 /\ conn' = [conn EXCEPT ![c] = "accepted"]
                 /\ thread' = [thread EXCEPT ![c] = "serving"]
                 /\ UNCHANGED <<flag, mutex, said, jobs, signal, running>>

MainRelock == /\ mutex = None
              /\ MainGoto("relock", "test")
              /\ mutex' = Main
              /\ UNCHANGED <<flag, clients, jobs, signal, running>>

(* Every thread that was started is joined, then main returns.             *)
MainEnd == /\ \A c \in Clients : thread[c] \in {"none", "ended"}
           /\ waiter \in {"absent", "ended"}
           /\ MainGoto("join", "end")
           /\ running' = FALSE
           /\ UNCHANGED <<flag, mutex, clients, jobs, signal>>

-----------------------------------------------------------------------------
(* The client threads.                                                     *)

Serving(c) == thread[c] = "serving" /\ handler[c] = "idle"

EndThread(c) == /\ thread' = [thread EXCEPT ![c] = "ended"]
                /\ UNCHANGED <<conn, said, running>>

ExitProcess == /\ running' = FALSE
               /\ UNCHANGED clients

(* Variant: the thread that sees the byte takes it out of the pipe.        *)
LeaveWithByte(c) == /\ program = "pipe" /\ Serving(c)
                    /\ notified
                    /\ notified' = FALSE
                    /\ EndThread(c)
                    /\ UNCHANGED <<program, finished, main, mutex, jobs, signal>>

(* "pipe": the byte is looked at before the client's socket.               *)
LeaveOnByte(c) == /\ program = "pipe" /\ Serving(c)
                  /\ notified
                  /\ EndThread(c)
                  /\ UNCHANGED <<flag, main, mutex, jobs, signal>>

SelectClient(c) ==
    /\ program = "pipe" /\ Serving(c)
    /\ ~notified /\ said[c] # "nothing"
    /\ thread' = [thread EXCEPT ![c] = "receiving"]
    /\ UNCHANGED <<flag, main, mutex, conn, said, jobs, signal, running>>

Receive(c) ==
    /\ program = "pipe" /\ thread[c] = "receiving" /\ handler[c] = "idle"
    /\ IF said[c] = "nothing, and closed" THEN ExitProcess ELSE EndThread(c)
    /\ UNCHANGED <<flag, main, mutex, jobs, signal>>

(* "plain": when the client has closed, recv returns 0 and the request is  *)
(* whatever the uninitialised buffer holds.  A file that cannot be opened  *)
(* ends the process, and so does sending to a client that is gone.         *)
Answer(c) == /\ program = "plain" /\ Serving(c)
             /\ said[c] \in {"request", "nothing, and closed"}
             /\ EndThread(c)
             /\ UNCHANGED <<flag, main, mutex, jobs, signal>>

(* "jobs": the thread has what recv has left in its buffer, which it reads *)
(* whatever recv has returned, -1 after a signal included.                 *)
GotRequest(c) ==
    /\ program = "jobs" /\ handler[c] = "idle"
    /\ \/ thread[c] = "serving" /\ said[c] # "nothing"
       \/ thread[c] = "receiving"

(* Writing to a client that is gone ends "jobs" as well, and so does a     *)
(* command whose argument is missing.                                      *)
AnswerFails(c) == /\ \/ GotRequest(c)
                     \/ program = "plain" /\ Serving(c) /\ said[c] # "nothing"
                  /\ ExitProcess
                  /\ UNCHANGED <<flag, main, mutex, jobs, signal>>

ThreadGoto(c, to) == /\ thread' = [thread EXCEPT ![c] = to]
                     /\ UNCHANGED <<flag, main, mutex, conn, said, waiter, signal,
                                    running>>

(* An unknown command, or a job that is refused.                           *)
ServeNothing(c) == GotRequest(c) /\ ThreadGoto(c, "ended")
                   /\ UNCHANGED <<sem, childOf>>

(* A thread that has locked jobs_mutex twice has it for ever.              *)
JobsFree == \A c \in Clients : thread[c] # "stuck"

(* get_status, kill_job, get_stdout, get_stderr, get_jobs, istoric.  For   *)
(* an id that has no process yet get_status locks where it should unlock.  *)
AskTable(c) == GotRequest(c) /\ ThreadGoto(c, "table")
               /\ UNCHANGED <<sem, childOf>>
UseTable(c) == /\ thread[c] = "table" /\ handler[c] = "idle" /\ JobsFree
               /\ \E to \in {"ended", "stuck"} : ThreadGoto(c, to)
               /\ UNCHANGED <<sem, childOf>>

(* run: the child is there before its pid is in the table.                 *)
StartChild(c) == /\ GotRequest(c) /\ ThreadGoto(c, "record")
                 /\ childOf' = [childOf EXCEPT ![c] = "running"]
                 /\ UNCHANGED sem
RecordPid(c)  == /\ thread[c] = "record" /\ handler[c] = "idle" /\ JobsFree
                 /\ ThreadGoto(c, "ended")
                 /\ sem' = sem + 1
                 /\ UNCHANGED childOf

-----------------------------------------------------------------------------
(* "jobs": the thread that waits for children, and the children.           *)

WaiterGoto(from, to) == /\ handler[Waiter] = "idle"
                        /\ waiter = from /\ waiter' = to

WaiterTest == /\ WaiterGoto("test", IF finished = 1 THEN "ended" ELSE "sem")
              /\ mutex' = IF finished = 1 THEN mutex ELSE None
              /\ UNCHANGED <<flag, main, clients, sem, childOf, signal,
                             running>>

WaiterSem == /\ sem > 0 /\ sem' = sem - 1
             /\ WaiterGoto("sem", "wait")
             /\ UNCHANGED <<flag, main, mutex, clients, childOf, signal,
                            running>>

(* wait returns any child that has ended, whether its pid is recorded or   *)
(* not; only an entry with that pid is then marked, under jobs_mutex.      *)
WaiterWait(c) ==
    /\ childOf[c] = "zombie"
    /\ WaiterGoto("wait", IF thread[c] = "record" THEN "relock" ELSE "mark")
    /\ childOf' = [childOf EXCEPT ![c] = "reaped"]
    /\ UNCHANGED <<flag, main, mutex, clients, sem, signal, running>>

(* wait fails at once when there is no child at all.                       *)
WaiterNoChild == /\ \A c \in Clients : childOf[c] \in {"none", "reaped"}
                 /\ WaiterGoto("wait", "relock")
                 /\ UNCHANGED <<flag, main, mutex, clients, sem, childOf, signal,
                                running>>

WaiterMark == /\ JobsFree
              /\ WaiterGoto("mark", "relock")
              /\ UNCHANGED <<flag, main, mutex, clients, sem, childOf, signal,
                             running>>

WaiterRelock == /\ mutex = None
                /\ WaiterGoto("relock", "test")
                /\ mutex' = Waiter
                /\ UNCHANGED <<flag, main, clients, sem, childOf, signal,
                               running>>

ChildEnds(c) == /\ childOf[c] = "running"
                /\ childOf' = [childOf EXCEPT ![c] = "zombie"]
                /\ UNCHANGED <<flag, main, mutex, clients, waiter, sem, signal,
                               running>>

-----------------------------------------------------------------------------
(* The signal.                                                             *)

Alive == {Main} \cup {c \in Clients : thread[c] \notin {"none", "ended"}}
                \cup (IF waiter \in {"absent", "ended"} THEN {} ELSE {Waiter})

Signal(t) == /\ signals < MaxSignals
             /\ t \in Alive /\ handler[t] = "idle"
             /\ signals' = signals + 1
             /\ handler' = [handler EXCEPT ![t] = "lock"]
             /\ UNCHANGED <<flag, main, mutex, clients, jobs, running>>

(* "pipe" leaves the flags of its sigaction unset (the memset clears one   *)
(* byte), so that the handler may be good for one signal only; the next    *)
(* one then ends the process.                                              *)
SignalKills == /\ program = "pipe"
               /\ signals \in 1 .. MaxSignals - 1
               /\ signals' = signals + 1
               /\ running' = FALSE
               /\ UNCHANGED <<flag, main, mutex, clients, jobs, handler>>

(* The end of the handler.  A select that it has interrupted returns with  *)
(* EINTR, and a client thread starts its select (or recv) again; but in    *)
(* "jobs" the recv, sem_wait and wait that it interrupts fail, which the   *)
(* code does not notice.                                                   *)
Return(t) ==
    /\ handler' = [handler EXCEPT ![t] = "idle"]
    /\ main' = IF t = Main /\ main = "select" THEN NoConnection ELSE main
    /\ \/ UNCHANGED <<thread, waiter>>
       \/ /\ program = "jobs" /\ t \in Clients /\ thread[t] = "serving"
          /\ thread' = [thread EXCEPT ![t] = "receiving"]
          /\ UNCHANGED waiter
       \/ /\ t = Waiter /\ waiter \in {"sem", "wait"}
          /\ waiter' = IF waiter = "sem" THEN "wait" ELSE "relock"
          /\ UNCHANGED thread

(* Lock, set the flag, unlock.                                             *)
SetFinished(t) ==
    /\ handler[t] = "lock"
    /\ mutex = None
    /\ finished' = 1
    /\ IF program = "pipe"
       THEN /\ handler' = [handler EXCEPT ![t] = "write"]
            /\ UNCHANGED <<main, thread, waiter>>
       ELSE Return(t)
    /\ UNCHANGED <<program, notified, mutex, conn, said, sem, childOf, signals,
                   running>>

(* Variant: the byte is not written.                                       *)
WriteNothing(t) == /\ handler[t] = "write"
                   /\ Return(t)
                   /\ UNCHANGED <<flag, mutex, conn, said, sem, childOf,
                                  signals, running>>

WriteByte(t) == /\ handler[t] = "write"
                /\ notified' = TRUE
                /\ Return(t)
                /\ UNCHANGED <<program, finished, mutex, conn, said, sem, childOf,
                               signals, running>>

-----------------------------------------------------------------------------
(* The clients: connect, send one message or close without one.            *)

Connect(c) == /\ conn[c] = "fresh"
              /\ conn' = [conn EXCEPT ![c] = "pending"]
              /\ UNCHANGED <<flag, main, mutex, thread, said, jobs, signal, running>>

Say(c) == /\ conn[c] # "fresh" /\ said[c] = "nothing"
          /\ \E m \in Messages : said' = [said EXCEPT ![c] = m]
          /\ UNCHANGED <<flag, main, mutex, thread, conn, jobs, signal, running>>

-----------------------------------------------------------------------------
MainStep == \/ MainTest \/ MainSelect \/ MainTimeout \/ MainRelock \/ MainEnd
            \/ \E c \in Clients : MainAccept(c)
ThreadStep(c) == \/ LeaveOnByte(c) \/ SelectClient(c) \/ Receive(c)
                 \/ Answer(c) \/ AnswerFails(c) \/ ServeNothing(c)
                 \/ AskTable(c) \/ UseTable(c) \/ StartChild(c) \/ RecordPid(c)
WaiterStep == \/ WaiterTest \/ WaiterSem \/ WaiterNoChild \/ WaiterMark
              \/ WaiterRelock \/ \E c \in Clients : WaiterWait(c)
HandlerStep(t) == SetFinished(t) \/ WriteByte(t)

Next == \/ running /\ MainStep
        \/ running /\ \E c \in Clients : ThreadStep(c)
        \/ running /\ WaiterStep
        \/ running /\ \E c \in Clients : ChildEnds(c)
        \/ running /\ SignalKills
        \/ running /\ \E t \in Threads : Signal(t) \/ HandlerStep(t)
        \/ running /\ \E c \in Clients : Connect(c) \/ Say(c)

Spec == Init /\ [][Next]_vars

(* The threads run when they can; clients and children need do nothing.    *)
FairSpec == /\ Spec
            /\ WF_vars(running /\ MainStep) /\ WF_vars(running /\ WaiterStep)
            /\ \A c \in Clients : WF_vars(running /\ ThreadStep(c))
            /\ \A t \in Threads : WF_vars(running /\ HandlerStep(t))

-----------------------------------------------------------------------------
(* Every variable has its type; a thread runs for each accepted client and *)
(* for no other.                                                           *)
TypeOK == /\ program \in {"pipe", "plain", "jobs"}
          /\ main \in {"test", "select", "accept", "relock", "join", "end"}
          /\ mutex \in Threads \cup {None}
          /\ finished \in 0 .. 1
          /\ notified \in BOOLEAN
          /\ conn \in [Clients -> {"fresh", "pending", "accepted"}]
          /\ thread \in [Clients -> {"none", "serving", "receiving", "table",
                                      "stuck", "record", "ended"}]
          /\ \A c \in Clients : thread[c] # "none" <=> conn[c] = "accepted"
          /\ said \in [Clients -> Messages \cup {"nothing"}]
          /\ waiter \in {"absent", "relock", "test", "sem", "wait", "mark",
                         "ended"}
          /\ sem \in 0 .. Cardinality(Clients)
          /\ childOf \in [Clients -> {"none", "running", "zombie", "reaped"}]
          /\ handler \in [Threads -> {"idle", "lock", "write"}]
          /\ signals \in 0 .. MaxSignals
          /\ running \in BOOLEAN

(* The ways in which a handler never comes back: the thread it runs on     *)
(* holds the mutex, or a loop that was left has kept it.                   *)
StuckHandler == \E t \in Threads :
                    /\ handler[t] = "lock"
                    /\ \/ mutex = t
                       \/ mutex = Main /\ main = "join"
                       \/ mutex = Waiter /\ waiter = "ended"
SilentClient == \E c \in Clients : thread[c] = "serving" /\ said[c] = "nothing"

(* "jobs": each of the two loops keeps the mutex from the other when it    *)
(* ends, and Waiter looks at the flag only when a child has ended.         *)
KeptFromOther == \/ main = "relock" /\ mutex = Waiter /\ waiter = "ended"
                 \/ waiter = "relock" /\ mutex = Main /\ main = "join"
NothingEnds   == \/ waiter = "sem" /\ sem = 0
                 \/ /\ waiter = "wait" /\ \E c \in Clients : childOf[c] = "running"
                    /\ \A c \in Clients : childOf[c] # "zombie"

(* "jobs": a thread has locked jobs_mutex twice.  It stays, whoever needs  *)
(* the table after it stays too, and main waits for them at its end.       *)
TableLocked == ~ JobsFree

(* Once the flag is set the process ends: if it runs for good, a signal    *)
(* has met a mutex that nobody will unlock, a client that says nothing     *)
(* keeps its thread in recv where there is no pipe, or "jobs" is in its    *)
(* own way: by the mutex of the flag, by that of its table, or because its *)
(* waiting thread waits for a child.                                       *)
EndsUnlessStuck ==
    <>[](finished = 1 /\ running
            => \/ StuckHandler
               \/ program # "pipe" /\ SilentClient
               \/ program = "jobs" /\ (KeptFromOther \/ NothingEnds \/ TableLocked))

(* One byte, which nobody reads, ends every client thread there is or will *)
(* be, whether its client speaks or not.                                   *)
ByteEndsThreads ==
    \A c \in Clients :
        (notified /\ thread[c] \in {"serving", "receiving"})
            ~> (thread[c] = "ended" \/ ~running \/ handler[c] = "lock")
=============================================================================
