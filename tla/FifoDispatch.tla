---------------------------- MODULE FifoDispatch ----------------------------
(***************************************************************************)
(* What a bounded pool of service threads promises its clients, with no    *)
(* lock, condition variable or array in sight: a client that is accepted   *)
(* is queued once, clients are handed to threads in the order they were    *)
(* queued, a thread serves one client at a time, and a client is answered  *)
(* by the thread that was handed it.                                       *)
(***************************************************************************)
EXTENDS Naturals, Sequences

CONSTANTS Clients,    \* the connections that may be made
          Servers,    \* the service threads
          Capacity,   \* how many accepted clients may wait for a thread
          None        \* "no client"

VARIABLES waitingLine,  \* accepted clients nobody serves yet, oldest first
          serving,      \* the client each thread serves, or None
          served        \* the clients that were answered

dispatchVars == <<waitingLine, serving, served>>

Seen == {waitingLine[i] : i \in DOMAIN waitingLine}
            \cup {serving[s] : s \in Servers} \cup served

Init == /\ waitingLine = <<>>
        /\ serving = [s \in Servers |-> None]
        /\ served = {}

Submit(c) == /\ c \notin Seen
             /\ Len(waitingLine) < Capacity
             /\ waitingLine' = Append(waitingLine, c)
             /\ UNCHANGED <<serving, served>>

Dispatch(s) == /\ waitingLine # <<>>
               /\ serving[s] = None
               /\ serving' = [serving EXCEPT ![s] = Head(waitingLine)]
               /\ waitingLine' = Tail(waitingLine)
               /\ UNCHANGED served

Answer(s) == /\ serving[s] # None
             /\ served' = served \cup {serving[s]}
             /\ serving' = [serving EXCEPT ![s] = None]
             /\ UNCHANGED waitingLine

Next == \/ \E c \in Clients : Submit(c)
        \/ \E s \in Servers : Dispatch(s) \/ Answer(s)

Spec == Init /\ [][Next]_dispatchVars
=============================================================================
