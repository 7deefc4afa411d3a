----------------------------- MODULE MCThreads ------------------------------
(* Small instances of the programs whose threads share memory.  A behaviour*)
(* is one of a single program; the others start in a state where nothing is*)
(* enabled, or nothing but a client's arrival, which need not happen.      *)
EXTENDS ThreadPrograms, ForkServer, PlannerBeside, PatternCount, CacheBeside

CONSTANTS c1, c2, c3, f1, f2

VARIABLE running

MCThreadSet == {Main, T1, T2, T3}
MCWords == {"global", "main_static", "thread_static", "tank", "refcount", "inits",
            "deinits", "x", "y", "count", "zero", "made", "overrun", "produced",
            "consumed", "free", "full", "producerIndex", "consumerIndex", "tasks"}
MCMutexes == {"mutex", "x", "y", "produced", "consumed", "producer", "consumer"}

MCLetters == {1, 2}
MCSizes == {1, 2, 4, 5, 7}
MCStringSizes == {1, 2, 3}
MCForked == <<f1, f2>>

(* Two jobs, one at a time, and a third client that asks.                  *)
LabConns == {c1, c2, c3}
LabAsks == [c \in {c1, c2, c3} |->
               IF c = c3 THEN {"get_status", "get_stdout", "wordless", "unknown"}
                         ELSE {"run"}]

(* Two slots of three bytes, and requests within a block, across two and   *)
(* past the last slot.                                                     *)
R(s, n) == [op |-> "r", start |-> s, size |-> n]
MCOrders == {R(0, 2), R(1, 1), R(3, 1), R(2, 2), R(1, 3),
             [op |-> "w", start |-> 0, size |-> 1]}
MCRequests == {<<o>> : o \in MCOrders} \cup {<<R(0, 2), R(3, 1)>>}
MCCacheClients == {c1, c2}

plannerVars == <<place, plan_mutex, ready_queues, current, thread_id, slices, forked>>
cacheVars   == <<at, client_sock, sock, inbox, order, byte_start, bytes_size, index,
                 found, least_used_index, start, left, slots, file, cache_mutex,
                 replies, evicted, stolen>>
allVars == <<running, threadVars, countVars, plannerVars, forkVars, cacheVars>>

AllInit ==
    /\ running \in {"threads", "count", "planner", "lab14_DAv", "cache"}
    /\ IF running = "threads" THEN Init ELSE Quiet
    /\ IF running = "count" THEN CountStart ELSE CountQuiet
    /\ IF running = "planner" THEN Plan!Start ELSE Plan!PlannerQuiet
    /\ Start
    /\ running # "lab14_DAv" => command[c3].op = "wordless"
    /\ Cache!CacheInit
    /\ running # "cache" => inbox = [c \in CacheClients |-> <<R(0, 2)>>]

AllNext ==
    /\ UNCHANGED running
    /\ \/ /\ running = "threads" /\ Next
          /\ UNCHANGED <<countVars, plannerVars, forkVars, cacheVars>>
       \/ /\ running = "count" /\ CountStep
          /\ UNCHANGED <<threadVars, plannerVars, forkVars, cacheVars>>
       \/ /\ running = "planner" /\ Plan!Step
          /\ UNCHANGED <<threadVars, countVars, forkVars, cacheVars>>
       \/ /\ running = "lab14_DAv" /\ ForkNext
          /\ UNCHANGED <<threadVars, countVars, plannerVars, cacheVars>>
       \/ /\ running = "cache" /\ Cache!CacheNext
          /\ UNCHANGED <<threadVars, countVars, plannerVars, forkVars>>

AllSpec == /\ AllInit /\ [][AllNext]_allVars
           /\ Fairness /\ Plan!PlannerFairness
           /\ ForkFairness /\ Cache!CacheFairness

-----------------------------------------------------------------------------
(* Every variable has its type, in every program, and the parameters of    *)
(* the scripts and of the planner are those their theorems assume.         *)
TypesOK == /\ TypeOK
           /\ ProgramParameters
           /\ CountTypeOK
           /\ Plan!PlannerParameters
           /\ Plan!PlannerTypeOK /\ ForkTypeOK /\ Cache!CacheTypeOK

(* No increment is lost, what is initialised is undone before it is        *)
(* initialised again, no item is lost or taken twice, and no array is      *)
(* overrun but by the two programs that never look how full theirs is.     *)
NothingLost == CountsExact /\ InitsAlternate /\ ItemsOnce /\ ArrayKept

(* Every program ends, and every request is served, but in the ways the    *)
(* modules name.                                                           *)
AllServed == <>[](/\ Finished
                  /\ Plan!PlannerFinished
                  /\ AllAnswered
                  /\ Cache!CacheServed)
=============================================================================
