--------------------------- MODULE JobServerProofs ---------------------------
(***************************************************************************)
(* Proofs about JobServer for any number of clients and processes, any     *)
(* limit and any requests.                                                 *)
(***************************************************************************)
EXTENDS JobServer, CountingLemmas

Queries  == {"get_status", "kill_job", "get_output"}
Listings == {"get_jobs", "istoric"}
OpNames  == {"none", "run", "other"} \cup Queries \cup Listings
Replies  == {"none", "ok", "error", "RUNNING", "FINISHED"}
Statuses == {"RUNNING", "FINISHED"}
States   == {"free", "running", "killed", "zombie", "reaped"}

(* What the handler of a client holds when it is at place q: its request   *)
(* o, its id i and its child's pid p, n ids having been given out.         *)
Fits(q, o, i, p, n) ==
    /\ q \in {"none", "recv"} => o = "none" /\ i = NoId
    /\ q \in {"take_id", "reserve", "fill", "fork", "record", "post",
              "leaked"} => o = "run"
    /\ q \in {"check", "stuck", "read_status", "send_output"} =>
          o \in Queries /\ i \in JobIds
    /\ q \in {"count", "list"} => o \in Listings
    /\ o = "run" => IF q = "take_id" THEN i = NoId ELSE i \in JobIds /\ i < n
    /\ o # "run" \/ q \in {"take_id", "reserve", "fill", "fork", "leaked"} =>
          p = None
    /\ q \in {"record", "post"} => p \in Pids
    /\ o = "run" /\ q \in {"close", "done"} => p # None

HandlerOK(c) == Fits(pc[c], op[c], id[c], pid[c], id_seed)

HandlerTypes ==
    /\ pc \in [Clients -> HandlerPCs]
    /\ op \in [Clients -> OpNames]
    /\ \A c \in Clients : op[c] \in Ops[c] \cup {"none"}
    /\ id \in [Clients -> JobIds \cup {NoId}]
    /\ pid \in [Clients -> Pids \cup {None, Failed}]
    /\ \A c \in Clients : HandlerOK(c)

AnswerTypes ==
    /\ nr \in [Clients -> -1 .. Cardinality(Clients)]
    /\ reply \in [Clients -> Replies]
    /\ listed \in [Clients -> SUBSET JobIds]

TableTypes ==
    /\ jobs \in [JobIds -> [pid : Pids \cup {None}, status : Statuses]]
    /\ running_jobs_nr \in Int /\ running_jobs_nr <= Limit
    /\ sem \in Nat
    /\ jobs_mutex \in Clients \cup {None}

OtherTypes ==
    /\ fd \in [Clients -> {"none", "inheritable", "cloexec", "closed"}]
    /\ main \in {"accept", "cloexec", "create"} \X (Clients \cup {None})
    /\ waiter \in {"sem_wait", "wait", "scan", "mark", "release"}
    /\ waited \in Pids \cup {None}
    /\ found \in JobIds \cup {NoId}
    /\ proc \in [Pids -> [state : States, job : JobIds \cup {NoId},
                          fds : SUBSET Clients]]
    /\ waiter \in {"scan", "mark", "release"} => waited \in Pids
    /\ waiter = "mark" => found \in JobIds
    /\ main[1] = "create" => main[2] \in Clients /\ pc[main[2]] = "none"
                                                 /\ fd[main[2]] = "cloexec"
    /\ main[1] = "cloexec" => main[2] \in Clients /\ pc[main[2]] = "none"
    /\ \A c \in Clients : fd[c] = "none" => pc[c] = "none"
    /\ \A c \in Clients : pc[c] \in {"none", "recv", "take_id"} =>
                             reply[c] = "none"

(* The run requests that have an id: one for every id given out, all of    *)
(* them different.                                                         *)
Taken == {c \in Clients : op[c] = "run" /\ id[c] # NoId}

SeedInv == /\ id_seed \in Nat /\ id_seed = Cardinality(Taken)
           /\ UniqueIds

DownType == down \in BOOLEAN

JobInv == HandlerTypes /\ AnswerTypes /\ TableTypes /\ OtherTypes /\ SeedInv

-----------------------------------------------------------------------------
(* There are finitely many clients and processes.                          *)
LEMMA ClientsCounted ==
    /\ IsFiniteSet(Clients) /\ IsFiniteSet(Pids)
    /\ Cardinality(Clients) \in Nat
BY FS_CardinalityType, JobAssumption

(* Every step is one of these.                                             *)
LEMMA Steps ==
    ASSUME [Next]_vars
    PROVE  \/ \E c \in Clients : Accept(c) \/ SetCloexec(c) \/ CreateThread(c)
           \/ \E c \in Clients :
                 \/ Receive(c) \/ TakeId(c) \/ Reserve(c) \/ Reject(c)
                 \/ Fill(c) \/ Fork(c) \/ ForkFails(c) \/ Record(c) \/ Post(c)
                 \/ GetStatus(c) \/ ReadStatus(c) \/ KillJob(c)
                 \/ GetOutput(c) \/ SendOutput(c) \/ CountJobs(c)
                 \/ ListJobs(c) \/ Close(c)
           \/ SemWait \/ ScanMisses \/ ScanFinds \/ MarkFinished \/ ReleaseSlot
           \/ \E p \in Pids : Wait(p) \/ ChildEnds(p)
           \/ UNCHANGED serving
BY DEF Next, Step, Crash, vars, MainStep, HandlerStep, WaiterStep

(* What a handler may do without taking an id or a child: it goes on.      *)
Onward == {<<"reserve", "fill">>, <<"reserve", "leaked">>, <<"fill", "fork">>,
           <<"record", "post">>, <<"post", "close">>,
           <<"check", "read_status">>, <<"check", "stuck">>,
           <<"check", "close">>, <<"check", "send_output">>,
           <<"read_status", "close">>, <<"send_output", "close">>,
           <<"count", "list">>, <<"list", "close">>, <<"close", "done">>}

GoesOn(c) == /\ \E m \in Onward : Goto(c, m[1], m[2])
             /\ UNCHANGED <<op, id, pid, id_seed>>

LEMMA MostGoOn ==
    ASSUME NEW c \in Clients,
           \/ Reserve(c) \/ Reject(c) \/ Fill(c) \/ Record(c) \/ Post(c)
           \/ GetStatus(c) \/ ReadStatus(c) \/ KillJob(c) \/ GetOutput(c)
           \/ SendOutput(c) \/ CountJobs(c) \/ ListJobs(c) \/ Close(c)
    PROVE  GoesOn(c)
<1>1. UNCHANGED <<op, id, pid, id_seed>>
  BY DEF Reserve, Reject, Fill, Record, Post, GetStatus, ReadStatus, KillJob,
         GetOutput, SendOutput, CountJobs, ListJobs, Close, tableVars
<1>2. \E from, to : <<from, to>> \in Onward /\ Goto(c, from, to)
  BY DEF Reserve, Reject, Fill, Record, Post, GetStatus, ReadStatus, KillJob,
         GetOutput, SendOutput, CountJobs, ListJobs, Close, Onward
<1>3. PICK from, to : <<from, to>> \in Onward /\ Goto(c, from, to)
  BY <1>2
<1> QED BY <1>1, <1>3 DEF GoesOn

(* The steps of the other threads and of the children.                     *)
LEMMA OthersLeaveHandlers ==
    ASSUME \/ \E c \in Clients : Accept(c) \/ SetCloexec(c)
           \/ SemWait \/ ScanMisses \/ ScanFinds \/ MarkFinished \/ ReleaseSlot
           \/ \E p \in Pids : Wait(p) \/ ChildEnds(p)
           \/ UNCHANGED serving
    PROVE  UNCHANGED <<pc, op, id, pid, nr, reply, listed, id_seed>>
BY DEF Accept, SetCloexec, SemWait, ScanMisses, ScanFinds, MarkFinished,
       ReleaseSlot, Wait, ChildEnds, serving, tableVars, handlerVars

(* A step that changes one handler only.                                   *)
OnlyHandler(c) ==
    /\ pc' \in [Clients -> HandlerPCs] /\ op' \in [Clients -> OpNames]
    /\ id' \in [Clients -> JobIds \cup {NoId}]
    /\ pid' \in [Clients -> Pids \cup {None, Failed}]
    /\ \A d \in Clients \ {c} : UNCHANGED <<pc[d], op[d], id[d], pid[d]>>

LEMMA OneHandler ==
    ASSUME HandlerTypes, NEW c \in Clients, OnlyHandler(c),
           id_seed \in Nat, id_seed' \in Nat, id_seed <= id_seed',
           op'[c] \in Ops[c] \cup {"none"},
           Fits(pc'[c], op'[c], id'[c], pid'[c], id_seed')
    PROVE  HandlerTypes'
<1>1. \A d \in Clients : op'[d] \in Ops[d] \cup {"none"}
  BY DEF HandlerTypes, OnlyHandler
<1>2. ASSUME NEW d \in Clients, d # c PROVE HandlerOK(d)'
  <2>1. Fits(pc[d], op[d], id[d], pid[d], id_seed)
    BY DEF HandlerTypes, HandlerOK
  <2>2. id[d] \in JobIds /\ id[d] < id_seed => id[d] < id_seed'
    <3>1. \A x, y, z \in Int : x < y /\ y <= z => x < z
      OBVIOUS
    <3>2. \A i \in JobIds : i \in Int
      BY ClientsCounted DEF JobIds
    <3>3. id_seed \in Int /\ id_seed' \in Int
      OBVIOUS
    <3> QED BY <3>1, <3>2, <3>3
  <2>3. Fits(pc[d], op[d], id[d], pid[d], id_seed')
    BY <2>1, <2>2 DEF Fits
  <2>4. UNCHANGED <<pc[d], op[d], id[d], pid[d]>>
    BY <1>2 DEF OnlyHandler
  <2> QED BY <2>3, <2>4 DEF HandlerOK
<1> QED BY <1>1, <1>2 DEF HandlerTypes, HandlerOK, OnlyHandler

(* Ids are given out to different requests, so there are enough of them.   *)
LEMMA IdsLeft ==
    ASSUME HandlerTypes, SeedInv, NEW c \in Clients, pc[c] = "take_id"
    PROVE  /\ id_seed + 1 <= Cardinality(Clients) /\ id_seed \in JobIds
           /\ Cardinality(Taken \cup {c}) = id_seed + 1
<1>1. c \notin Taken
  BY DEF HandlerTypes, HandlerOK, Fits, Taken
<1>2. IsFiniteSet(Taken) /\ id_seed = Cardinality(Taken) /\ id_seed \in Nat
  BY ClientsCounted, FS_Subset DEF SeedInv, Taken
<1>3. Cardinality(Taken \cup {c}) = id_seed + 1
  BY <1>1, <1>2, FS_AddElement
<1>4. Taken \cup {c} \subseteq Clients
  BY DEF Taken
<1>5. id_seed + 1 <= Cardinality(Clients)
  BY <1>3, <1>4, ClientsCounted, FS_Subset
<1>6. id_seed \in JobIds
  BY <1>2, <1>5, ClientsCounted DEF JobIds
<1> QED BY <1>3, <1>5, <1>6

(* Every step keeps what the handlers hold.                                *)
LEMMA NextKeepsHandlers ==
    ASSUME HandlerTypes, SeedInv, OtherTypes, [Next]_vars
    PROVE  HandlerTypes' /\ id_seed' \in Nat
<1>0. id_seed \in Nat
  BY DEF SeedInv
<1>1. ASSUME UNCHANGED <<pc, op, id, pid, id_seed>>
      PROVE  HandlerTypes' /\ id_seed' \in Nat
  BY <1>0, <1>1 DEF HandlerTypes, HandlerOK
<1>2. ASSUME NEW c \in Clients,
             NEW q \in HandlerPCs, NEW o \in OpNames,
             NEW i \in JobIds \cup {NoId}, NEW p \in Pids \cup {None, Failed},
             pc' = [pc EXCEPT ![c] = q],
             op' = [op EXCEPT ![c] = o] \/ (UNCHANGED op /\ o = op[c]),
             id' = [id EXCEPT ![c] = i] \/ (UNCHANGED id /\ i = id[c]),
             pid' = [pid EXCEPT ![c] = p] \/ (UNCHANGED pid /\ p = pid[c]),
             o \in Ops[c] \cup {"none"},
             id_seed' \in Nat, id_seed <= id_seed',
             Fits(q, o, i, p, id_seed')
      PROVE  HandlerTypes'
  <2>1. OnlyHandler(c) /\ pc'[c] = q /\ op'[c] = o /\ id'[c] = i /\ pid'[c] = p
    <3> HIDE DEF HandlerPCs, OpNames
    <3>1. /\ pc \in [Clients -> HandlerPCs] /\ op \in [Clients -> OpNames]
          /\ id \in [Clients -> JobIds \cup {NoId}]
          /\ pid \in [Clients -> Pids \cup {None, Failed}]
      BY DEF HandlerTypes
    <3>2. pc' \in [Clients -> HandlerPCs] /\ pc'[c] = q
          /\ \A d \in Clients \ {c} : pc'[d] = pc[d]
      BY <1>2, <3>1
    <3>3. op' \in [Clients -> OpNames] /\ op'[c] = o
          /\ \A d \in Clients \ {c} : op'[d] = op[d]
      BY <1>2, <3>1
    <3>4. id' \in [Clients -> JobIds \cup {NoId}] /\ id'[c] = i
          /\ \A d \in Clients \ {c} : id'[d] = id[d]
      BY <1>2, <3>1
    <3>5. pid' \in [Clients -> Pids \cup {None, Failed}] /\ pid'[c] = p
          /\ \A d \in Clients \ {c} : pid'[d] = pid[d]
      BY <1>2, <3>1
    <3> QED BY <3>2, <3>3, <3>4, <3>5 DEF OnlyHandler
  <2> QED BY <1>0, <1>2, <2>1, OneHandler
<1>10. id_seed <= id_seed
  BY <1>0
<1>9. \A c \in Clients : Fits(pc[c], op[c], id[c], pid[c], id_seed)
  BY DEF HandlerTypes, HandlerOK
<1>3. ASSUME NEW c \in Clients, CreateThread(c)
      PROVE  HandlerTypes' /\ id_seed' \in Nat
  <2>0. PICK o \in OpNames, i \in JobIds \cup {NoId},
             p \in Pids \cup {None, Failed} :
               /\ o = op[c] /\ i = id[c] /\ p = pid[c]
               /\ o \in Ops[c] \cup {"none"}
               /\ Fits(pc[c], o, i, p, id_seed)
    BY DEF HandlerTypes, HandlerOK
  <2>1. pc[c] = "none" /\ pc' = [pc EXCEPT ![c] = "recv"]
        /\ UNCHANGED <<op, id, pid, id_seed>>
    BY <1>3 DEF CreateThread, tableVars, OtherTypes
  <2>2. Fits("recv", o, i, p, id_seed)
    BY <2>0, <2>1 DEF Fits
  <2>3. "recv" \in HandlerPCs
    BY DEF HandlerPCs
  <2> QED BY <1>0, <1>2, <1>10, <2>0, <2>1, <2>2, <2>3
<1>4. ASSUME NEW c \in Clients, Receive(c)
      PROVE  HandlerTypes' /\ id_seed' \in Nat
  <2>0. PICK j \in JobIds \cup {NoId}, p \in Pids \cup {None, Failed} :
               j = id[c] /\ p = pid[c]
    BY DEF HandlerTypes
  <2>1. /\ pc[c] = "recv" /\ op[c] = "none" /\ id[c] = NoId /\ pid[c] = None
        /\ UNCHANGED <<pid, id_seed>>
    BY <1>4, <1>9 DEF Receive, Fits, tableVars
  <2>2. PICK o \in Ops[c] :
          /\ op' = [op EXCEPT ![c] = o]
          /\ CASE o = "run" -> /\ pc' = [pc EXCEPT ![c] = "take_id"]
                               /\ UNCHANGED id
               [] o \in {"get_jobs", "istoric"} ->
                               /\ pc' = [pc EXCEPT ![c] = "count"]
                               /\ UNCHANGED id
               [] o = "other" -> /\ pc' = [pc EXCEPT ![c] = "close"]
                                 /\ UNCHANGED id
               [] OTHER -> \E i \in Nameable :
                               /\ id' = [id EXCEPT ![c] = i]
                               /\ pc' = [pc EXCEPT ![c] = "check"]
    BY <1>4 DEF Receive
  <2>3. o \in OpNames /\ o # "none"
    BY JobAssumption DEF OpNames, Queries, Listings
  <2>4. CASE o = "run"
    <3>1. pc' = [pc EXCEPT ![c] = "take_id"] /\ UNCHANGED id
      BY <2>2, <2>4
    <3>2. Fits("take_id", o, j, p, id_seed)
      BY <2>0, <2>1, <2>4 DEF Fits
    <3>3. "take_id" \in HandlerPCs
      BY DEF HandlerPCs
    <3> QED BY <1>0, <1>2, <1>10, <2>0, <2>1, <2>2, <2>3, <3>1, <3>2, <3>3
  <2>5. CASE o \in {"get_jobs", "istoric"}
    <3>1. pc' = [pc EXCEPT ![c] = "count"] /\ UNCHANGED id
      BY <2>2, <2>5
    <3>2. Fits("count", o, j, p, id_seed)
      BY <2>0, <2>1, <2>5 DEF Fits, Listings
    <3>3. "count" \in HandlerPCs
      BY DEF HandlerPCs
    <3> QED BY <1>0, <1>2, <1>10, <2>0, <2>1, <2>2, <2>3, <3>1, <3>2, <3>3
  <2>7. CASE o = "other"
    <3>1. pc' = [pc EXCEPT ![c] = "close"] /\ UNCHANGED id
      BY <2>2, <2>7
    <3>2. Fits("close", o, j, p, id_seed)
      BY <2>0, <2>1, <2>7 DEF Fits
    <3>3. "close" \in HandlerPCs
      BY DEF HandlerPCs
    <3> QED BY <1>0, <1>2, <1>10, <2>0, <2>1, <2>2, <2>3, <3>1, <3>2, <3>3
  <2>6. CASE o \notin {"run", "get_jobs", "istoric", "other"}
    <3>1. PICK i \in Nameable : /\ id' = [id EXCEPT ![c] = i]
                                /\ pc' = [pc EXCEPT ![c] = "check"]
      BY <2>2, <2>6
    <3>2. i \in JobIds
      <4>1. CASE Honest
        <5>1. PICK d \in Clients : op[d] = "run" /\ reply[d] = "ok" /\ i = id[d]
          BY <3>1, <4>1 DEF Nameable, Told
        <5>2. pc[d] # "take_id"
          BY <5>1 DEF OtherTypes
        <5> QED BY <1>9, <5>1, <5>2 DEF Fits
      <4> QED BY <3>1, <4>1 DEF Nameable
    <3>3. Fits("check", o, i, p, id_seed)
      BY <2>0, <2>1, <2>3, <2>6, <3>2 DEF Fits, OpNames, Listings
    <3>4. "check" \in HandlerPCs
      BY DEF HandlerPCs
    <3> QED BY <1>0, <1>2, <1>10, <2>0, <2>1, <2>2, <2>3, <3>1, <3>2, <3>3, <3>4
  <2> QED BY <2>4, <2>5, <2>6, <2>7
<1>5. ASSUME NEW c \in Clients, TakeId(c)
      PROVE  HandlerTypes' /\ id_seed' \in Nat
  <2>0. PICK o \in OpNames, i \in JobIds \cup {NoId},
             p \in Pids \cup {None, Failed} :
               /\ o = op[c] /\ i = id[c] /\ p = pid[c]
               /\ o \in Ops[c] \cup {"none"}
               /\ Fits(pc[c], o, i, p, id_seed)
    BY DEF HandlerTypes, HandlerOK
  <2>1. /\ pc[c] = "take_id" /\ pc' = [pc EXCEPT ![c] = "reserve"]
        /\ id' = [id EXCEPT ![c] = id_seed] /\ id_seed' = id_seed + 1
        /\ UNCHANGED <<op, pid>>
    BY <1>5 DEF TakeId, Goto
  <2>2. id_seed \in JobIds /\ id_seed < id_seed' /\ id_seed' \in Nat
    <3>1. id_seed \in JobIds
      BY <2>1, IdsLeft
    <3> QED BY <1>0, <2>1, <3>1
  <2>3. Fits("reserve", o, id_seed, p, id_seed')
    BY <2>0, <2>1, <2>2 DEF Fits
  <2>4. "reserve" \in HandlerPCs /\ id_seed <= id_seed'
    BY <1>0, <2>1 DEF HandlerPCs
  <2> QED BY <1>0, <1>2, <1>10, <2>0, <2>1, <2>2, <2>3, <2>4
<1>6. ASSUME NEW c \in Clients, GoesOn(c)
      PROVE  HandlerTypes' /\ id_seed' \in Nat
  <2>0. PICK o \in OpNames, i \in JobIds \cup {NoId},
             p \in Pids \cup {None, Failed} :
               /\ o = op[c] /\ i = id[c] /\ p = pid[c]
               /\ o \in Ops[c] \cup {"none"}
               /\ Fits(pc[c], o, i, p, id_seed)
    BY DEF HandlerTypes, HandlerOK
  <2>1. PICK m \in Onward : Goto(c, m[1], m[2])
    BY <1>6 DEF GoesOn
  <2>2. pc[c] = m[1] /\ pc' = [pc EXCEPT ![c] = m[2]]
        /\ UNCHANGED <<op, id, pid, id_seed>>
    BY <1>6, <2>1 DEF GoesOn, Goto
  <2>3. m[2] \in HandlerPCs
    BY DEF HandlerPCs, Onward
  <2>4. Fits(m[2], o, i, p, id_seed)
    <3>1. m[1] \in {"check", "read_status", "send_output", "count", "list"} \/
          m[1] \in {"reserve", "fill", "record", "post", "close"}
      BY DEF Onward
    <3>2. CASE m[1] \in {"check", "read_status", "send_output"}
      <4>1. m[2] \in {"read_status", "stuck", "close", "send_output"}
        BY <3>2 DEF Onward
      <4> QED BY <2>0, <2>2, <3>2, <4>1 DEF Fits, Queries
    <3>3. CASE m[1] \in {"count", "list"}
      <4>1. m[2] \in {"list", "close"}
        BY <3>3 DEF Onward
      <4> QED BY <2>0, <2>2, <3>3, <4>1 DEF Fits, Listings
    <3>4. CASE m[1] \in {"reserve", "fill"}
      <4>1. m[2] \in {"fill", "fork", "leaked"}
        BY <3>4 DEF Onward
      <4> QED BY <2>0, <2>2, <3>4, <4>1 DEF Fits
    <3>5. CASE m[1] \in {"record", "post", "close"}
      <4>1. m[2] \in {"post", "close", "done"}
            /\ (m[2] = "post" => m[1] = "record")
        BY <3>5 DEF Onward
      <4>2. None \notin Pids
        BY JobAssumption
      <4> QED BY <2>0, <2>2, <3>5, <4>1, <4>2 DEF Fits
    <3> QED BY <3>1, <3>2, <3>3, <3>4, <3>5
  <2> QED BY <1>0, <1>2, <1>10, <2>0, <2>2, <2>3, <2>4
<1>7. ASSUME NEW c \in Clients, Fork(c)
      PROVE  HandlerTypes' /\ id_seed' \in Nat
  <2>0. PICK o \in OpNames, i \in JobIds \cup {NoId},
             p \in Pids \cup {None, Failed} :
               /\ o = op[c] /\ i = id[c] /\ p = pid[c]
               /\ o \in Ops[c] \cup {"none"}
               /\ Fits(pc[c], o, i, p, id_seed)
    BY DEF HandlerTypes, HandlerOK
  <2>1. PICK r \in Pids : pid' = [pid EXCEPT ![c] = r]
    BY <1>7 DEF Fork
  <2>2. pc[c] = "fork" /\ pc' = [pc EXCEPT ![c] = "record"]
        /\ UNCHANGED <<op, id, id_seed>>
    BY <1>7 DEF Fork, Goto, tableVars
  <2>3. Fits("record", o, i, r, id_seed) /\ "record" \in HandlerPCs
    BY <2>0, <2>2 DEF Fits, HandlerPCs
  <2> QED BY <1>0, <1>2, <1>10, <2>0, <2>1, <2>2, <2>3
<1>8. ASSUME NEW c \in Clients, ForkFails(c)
      PROVE  HandlerTypes' /\ id_seed' \in Nat
  <2>0. PICK o \in OpNames, i \in JobIds \cup {NoId},
             p \in Pids \cup {None, Failed} :
               /\ o = op[c] /\ i = id[c] /\ p = pid[c]
               /\ o \in Ops[c] \cup {"none"}
               /\ Fits(pc[c], o, i, p, id_seed)
    BY DEF HandlerTypes, HandlerOK
  <2>1. pc[c] = "fork" /\ pc' = [pc EXCEPT ![c] = "close"]
        /\ pid' = [pid EXCEPT ![c] = Failed]
        /\ UNCHANGED <<op, id, id_seed>>
    BY <1>8 DEF ForkFails, Goto, tableVars
  <2>2. Fits("close", o, i, Failed, id_seed) /\ "close" \in HandlerPCs
    BY <2>0, <2>1, FailedAssumption DEF Fits, HandlerPCs
  <2> QED BY <1>0, <1>2, <1>10, <2>0, <2>1, <2>2
<1> QED BY <1>1, <1>3, <1>4, <1>5, <1>6, <1>7, <1>8, Steps, MostGoOn,
           OthersLeaveHandlers

-----------------------------------------------------------------------------
(* The listings a handler makes, and what it answers.                      *)
LEMMA NextKeepsAnswers ==
    ASSUME AnswerTypes, HandlerTypes, TableTypes, SeedInv, [Next]_vars
    PROVE  AnswerTypes'
<1>1. id_seed \in 0 .. Cardinality(Clients)
  <2>1. Cardinality(Taken) <= Cardinality(Clients)
    BY ClientsCounted, FS_Subset DEF Taken
  <2> QED BY <2>1, ClientsCounted DEF SeedInv
<1>2. ASSUME UNCHANGED <<nr, reply, listed>> PROVE AnswerTypes'
  BY <1>2 DEF AnswerTypes
<1>3. ASSUME NEW c \in Clients, CountJobs(c) PROVE AnswerTypes'
  <2>1. UNCHANGED <<reply, listed>>
        /\ \E n \in {id_seed - 1, id_seed} : nr' = [nr EXCEPT ![c] = n]
    BY <1>3 DEF CountJobs
  <2>2. PICK n \in {id_seed - 1, id_seed} : nr' = [nr EXCEPT ![c] = n]
    BY <2>1
  <2>3. n \in -1 .. Cardinality(Clients)
    BY <1>1, ClientsCounted
  <2> QED BY <2>1, <2>2, <2>3 DEF AnswerTypes
<1>4. ASSUME NEW c \in Clients, UNCHANGED <<nr, listed>>,
             NEW r \in Replies, reply' = [reply EXCEPT ![c] = r]
      PROVE  AnswerTypes'
  BY <1>4 DEF AnswerTypes
<1>5. ASSUME NEW c \in Clients,
             \/ Reject(c) \/ ForkFails(c) \/ Post(c) \/ ReadStatus(c)
             \/ KillJob(c) \/ SendOutput(c)
      PROVE  AnswerTypes'
  <2>1. UNCHANGED <<nr, listed>>
    BY <1>5 DEF Reject, ForkFails, Post, ReadStatus, KillJob, SendOutput
  <2>2. CASE ReadStatus(c)
    <3>1. reply' = [reply EXCEPT ![c] = jobs[id[c]].status] /\ pc[c] = "read_status"
      BY <2>2 DEF ReadStatus, Goto
    <3>2. id[c] \in JobIds
      BY <3>1 DEF HandlerTypes, HandlerOK, Fits
    <3>3. jobs[id[c]].status \in Statuses
      BY <3>2 DEF TableTypes
    <3> QED BY <2>1, <3>1, <3>3, <1>4 DEF Statuses, Replies
  <2>3. CASE ~ ReadStatus(c)
    <3>1. \E r \in {"ok", "error"} : reply' = [reply EXCEPT ![c] = r]
      BY <1>5, <2>3 DEF Reject, ForkFails, Post, KillJob, SendOutput
    <3> QED BY <2>1, <3>1, <1>4 DEF Replies
  <2> QED BY <2>2, <2>3
<1>6. ASSUME NEW c \in Clients, GetOutput(c) PROVE AnswerTypes'
  <2>1. UNCHANGED <<nr, listed>>
        /\ (UNCHANGED reply \/ reply' = [reply EXCEPT ![c] = "error"])
    BY <1>6 DEF GetOutput
  <2> QED BY <2>1, <1>2, <1>4 DEF Replies
<1>7. ASSUME NEW c \in Clients, ListJobs(c) PROVE AnswerTypes'
  <2>1. \E L \in SUBSET JobIds : listed' = [listed EXCEPT ![c] = L]
    BY <1>7 DEF ListJobs
  <2>2. UNCHANGED nr /\ reply' = [reply EXCEPT ![c] = "ok"]
    BY <1>7 DEF ListJobs
  <2> QED BY <2>1, <2>2 DEF AnswerTypes, Replies
<1>8. ASSUME NEW c \in Clients,
             \/ CreateThread(c) \/ Receive(c) \/ TakeId(c) \/ Reserve(c)
             \/ Fill(c) \/ Fork(c) \/ Record(c) \/ GetStatus(c) \/ Close(c)
      PROVE  AnswerTypes'
  BY <1>2, <1>8 DEF CreateThread, Receive, TakeId, Reserve, Fill, Fork, Record,
                    GetStatus, Close
<1> QED BY <1>2, <1>3, <1>5, <1>6, <1>7, <1>8, Steps, OthersLeaveHandlers

(* The table and the counters.                                             *)
LEMMA NextKeepsTable ==
    ASSUME AnswerTypes, HandlerTypes, TableTypes, OtherTypes, [Next]_vars
    PROVE  TableTypes'
<1>1. ASSUME UNCHANGED <<jobs, running_jobs_nr, sem, jobs_mutex>>
      PROVE  TableTypes'
  BY <1>1 DEF TableTypes
<1>2. ASSUME UNCHANGED <<running_jobs_nr, sem, jobs_mutex>>,
             NEW i \in JobIds, NEW s \in Statuses,
             jobs' = [jobs EXCEPT ![i].status = s]
      PROVE  TableTypes'
  BY <1>2 DEF TableTypes
<1>3. Limit \in Nat
  BY JobAssumption
<1>4. ASSUME NEW c \in Clients, Reserve(c) \/ Fill(c) \/ Record(c) \/ Post(c)
                                \/ GetStatus(c) \/ KillJob(c)
      PROVE  TableTypes'
  <2>1. pc[c] \in {"fill", "record", "check"} => id[c] \in JobIds
    BY DEF HandlerTypes, HandlerOK, Fits
  <2>2. CASE Reserve(c)
    BY <1>3, <2>2 DEF Reserve, TableTypes
  <2>3. CASE Fill(c)
    <3>1. id[c] \in JobIds
      BY <2>1, <2>3 DEF Fill, Goto
    <3> QED BY <1>2, <2>3, <3>1 DEF Fill, Statuses
  <2>4. CASE Record(c)
    <3>1. id[c] \in JobIds /\ pid[c] \in Pids
      BY <2>1, <2>4 DEF Record, Goto, HandlerTypes, HandlerOK, Fits
    <3> QED BY <2>4, <3>1 DEF Record, TableTypes
  <2>5. CASE Post(c)
    BY <2>5 DEF Post, TableTypes
  <2>6. CASE GetStatus(c)
    BY <2>6 DEF GetStatus, TableTypes, tableVars
  <2>7. CASE KillJob(c)
    <3>1. id[c] \in JobIds
      BY <2>1, <2>7 DEF KillJob
    <3> QED BY <1>1, <1>2, <2>7, <3>1 DEF KillJob, Statuses
  <2> QED BY <1>4, <2>2, <2>3, <2>4, <2>5, <2>6, <2>7
<1>5. CASE SemWait
  BY <1>5 DEF SemWait, TableTypes
<1>6. CASE MarkFinished
  BY <1>2, <1>6 DEF MarkFinished, OtherTypes, Statuses
<1>7. CASE ReleaseSlot
  BY <1>3, <1>7 DEF ReleaseSlot, TableTypes
<1>8. ASSUME NEW c \in Clients,
             \/ Accept(c) \/ SetCloexec(c) \/ CreateThread(c)
             \/ Receive(c) \/ TakeId(c) \/ Reject(c) \/ Fork(c) \/ ForkFails(c)
             \/ ReadStatus(c) \/ GetOutput(c) \/ SendOutput(c) \/ CountJobs(c)
             \/ ListJobs(c) \/ Close(c)
      PROVE  TableTypes'
  BY <1>1, <1>8 DEF Accept, SetCloexec, CreateThread, Receive, TakeId, Reject,
       Fork, ForkFails, ReadStatus, GetOutput, SendOutput, CountJobs, ListJobs,
       Close, tableVars
<1>9. CASE ScanMisses \/ ScanFinds \/ UNCHANGED serving
           \/ \E p \in Pids : Wait(p) \/ ChildEnds(p)
  BY <1>1, <1>9 DEF ScanMisses, ScanFinds, serving, Wait, ChildEnds, tableVars
<1> QED BY <1>4, <1>5, <1>6, <1>7, <1>8, <1>9, Steps

(* The sockets, main, the waiter and the children.                         *)
LEMMA NextKeepsOthers ==
    ASSUME HandlerTypes, AnswerTypes, TableTypes, OtherTypes, SeedInv, [Next]_vars
    PROVE  OtherTypes'
<1> DEFINE Main == /\ fd' \in [Clients -> {"none", "inheritable", "cloexec", "closed"}]
                   /\ main' \in {"accept", "cloexec", "create"} \X (Clients \cup {None})
                   /\ main'[1] = "create" => main'[2] \in Clients /\ pc'[main'[2]] = "none"
                                                      /\ fd'[main'[2]] = "cloexec"
                   /\ main'[1] = "cloexec" => main'[2] \in Clients /\ pc'[main'[2]] = "none"
                   /\ \A c \in Clients : fd'[c] = "none" => pc'[c] = "none"
           Waiter == /\ waiter' \in {"sem_wait", "wait", "scan", "mark", "release"}
                     /\ waited' \in Pids \cup {None}
                     /\ found' \in JobIds \cup {NoId}
                     /\ waiter' \in {"scan", "mark", "release"} => waited' \in Pids
                     /\ waiter' = "mark" => found' \in JobIds
           Answers == \A c \in Clients : pc'[c] \in {"none", "recv", "take_id"} =>
                                             reply'[c] = "none"
           Procs == proc' \in [Pids -> [state : States, job : JobIds \cup {NoId},
                                        fds : SUBSET Clients]]
<1>1. Main /\ Waiter /\ Answers /\ Procs => OtherTypes'
  BY DEF OtherTypes
<1>2. UNCHANGED waiterVars => Waiter
  BY DEF waiterVars, OtherTypes
<1>3. UNCHANGED proc => Procs
  BY DEF OtherTypes
<1>4. UNCHANGED <<pc, reply>> => Answers
  BY DEF OtherTypes
<1>5. UNCHANGED <<fd, main, pc>> => Main
  BY DEF OtherTypes
<1>6. ASSUME NEW c \in Clients, UNCHANGED <<fd, main>>,
             \E q : q # "none" /\ pc' = [pc EXCEPT ![c] = q], pc[c] # "none"
      PROVE  Main
  <2>1. \A d \in Clients : pc[d] = "none" => pc'[d] = "none"
    BY <1>6 DEF HandlerTypes
  <2> QED BY <1>6, <2>1 DEF OtherTypes
<1>7. ASSUME NEW c \in Clients,
             \E q : q \notin {"none", "recv", "take_id"} /\ pc' = [pc EXCEPT ![c] = q],
             UNCHANGED reply \/ \E r : reply' = [reply EXCEPT ![c] = r]
      PROVE  Answers
  <2>1. /\ pc'[c] \notin {"none", "recv", "take_id"}
        /\ \A d \in Clients \ {c} : pc'[d] = pc[d]
    BY <1>7 DEF HandlerTypes
  <2>2. \A d \in Clients \ {c} : reply'[d] = reply[d]
    BY <1>7 DEF AnswerTypes
  <2> QED BY <2>1, <2>2 DEF OtherTypes
<1>8. ASSUME NEW c \in Clients, Accept(c) PROVE OtherTypes'
  <2>1. /\ fd' = [fd EXCEPT ![c] = "inheritable"] /\ main' = <<"cloexec", c>>
        /\ UNCHANGED pc /\ pc[c] = "none" /\ main[1] = "accept"
    BY <1>8 DEF Accept, handlerVars, OtherTypes
  <2>2. Main
    BY <2>1 DEF OtherTypes
  <2> QED BY <1>1, <1>2, <1>3, <1>4, <1>8, <2>2 DEF Accept, handlerVars
<1>9. ASSUME NEW c \in Clients, SetCloexec(c) PROVE OtherTypes'
  <2>1. /\ fd' = [fd EXCEPT ![c] = "cloexec"] /\ main' = <<"create", c>>
        /\ UNCHANGED pc /\ pc[c] = "none"
    BY <1>9 DEF SetCloexec, handlerVars, OtherTypes
  <2>2. Main
    BY <2>1 DEF OtherTypes
  <2> QED BY <1>1, <1>2, <1>3, <1>4, <1>9, <2>2 DEF SetCloexec, handlerVars
<1>10. ASSUME NEW c \in Clients, CreateThread(c) PROVE OtherTypes'
  <2>1. /\ pc' = [pc EXCEPT ![c] = "recv"] /\ main' = <<"accept", None>>
        /\ UNCHANGED <<fd, reply>> /\ pc[c] = "none" /\ fd[c] = "cloexec"
    BY <1>10 DEF CreateThread, OtherTypes
  <2>2. /\ pc'[c] = "recv" /\ \A d \in Clients \ {c} : pc'[d] = pc[d]
    BY <2>1 DEF HandlerTypes
  <2>3. Main
    BY <2>1, <2>2 DEF OtherTypes
  <2>4. Answers
    BY <2>1, <2>2 DEF OtherTypes
  <2> QED BY <1>1, <1>2, <1>3, <1>10, <2>3, <2>4 DEF CreateThread
<1>11. ASSUME NEW c \in Clients, Receive(c) PROVE OtherTypes'
  <2>1. /\ UNCHANGED <<fd, main, reply>> /\ pc[c] = "recv"
        /\ \E q : q \in {"take_id", "count", "check", "close"} /\ pc' = [pc EXCEPT ![c] = q]
    BY <1>11 DEF Receive
  <2>2. Main
    BY <1>6, <2>1
  <2>3. pc'[c] # "none" /\ \A d \in Clients \ {c} : pc'[d] = pc[d]
    BY <2>1 DEF HandlerTypes
  <2>4. Answers
    BY <2>1, <2>3 DEF OtherTypes
  <2> QED BY <1>1, <1>2, <1>3, <1>11, <2>2, <2>4 DEF Receive
<1>12. ASSUME NEW c \in Clients,
              \/ TakeId(c) \/ Reserve(c) \/ Reject(c) \/ Fill(c) \/ ForkFails(c)
              \/ Record(c) \/ Post(c) \/ GetStatus(c) \/ ReadStatus(c)
              \/ GetOutput(c) \/ SendOutput(c) \/ CountJobs(c) \/ ListJobs(c)
       PROVE  OtherTypes'
  <2>1. UNCHANGED <<fd, main, waiterVars, proc>>
    BY <1>12 DEF TakeId, Reserve, Reject, Fill, ForkFails, Record, Post,
         GetStatus, ReadStatus, GetOutput, SendOutput, CountJobs, ListJobs
  <2>2. /\ pc[c] # "none"
        /\ \E q : q \notin {"none", "recv", "take_id"} /\ pc' = [pc EXCEPT ![c] = q]
    BY <1>12 DEF TakeId, Reserve, Reject, Fill, ForkFails, Record, Post, Goto,
         GetStatus, ReadStatus, GetOutput, SendOutput, CountJobs, ListJobs
  <2>3. UNCHANGED reply \/ \E r : reply' = [reply EXCEPT ![c] = r]
    BY <1>12 DEF TakeId, Reserve, Reject, Fill, ForkFails, Record, Post,
         GetStatus, ReadStatus, GetOutput, SendOutput, CountJobs, ListJobs
  <2> QED BY <1>1, <1>2, <1>3, <1>6, <1>7, <2>1, <2>2, <2>3
<1>13. ASSUME NEW c \in Clients, Fork(c) PROVE OtherTypes'
  <2>1. /\ UNCHANGED <<fd, main, waiterVars, reply>>
        /\ pc[c] = "fork" /\ pc' = [pc EXCEPT ![c] = "record"]
    BY <1>13 DEF Fork, Goto
  <2>2. PICK p \in Pids :
          proc' = [proc EXCEPT ![p] =
                     [state |-> "running", job |-> id[c],
                      fds |-> {d \in Clients : fd[d] = "inheritable"}]]
    BY <1>13 DEF Fork
  <2>3. Procs
    BY <2>2 DEF OtherTypes, HandlerTypes, States
  <2> QED BY <1>1, <1>2, <1>6, <1>7, <2>1, <2>3
<1>14. ASSUME NEW c \in Clients, KillJob(c) PROVE OtherTypes'
  <2>1. /\ UNCHANGED <<fd, main, waiterVars>>
        /\ pc[c] = "check" /\ pc' = [pc EXCEPT ![c] = "close"]
        /\ reply' = [reply EXCEPT ![c] = "ok"]
    BY <1>14 DEF KillJob, Goto
  <2>2. UNCHANGED proc \/ \E x : proc' = [proc EXCEPT ![x].state =
                                  IF @ = "running" THEN "killed" ELSE @]
    BY <1>14 DEF KillJob
  <2>3. Procs
    <3>1. CASE \E x : proc' = [proc EXCEPT ![x].state =
                                  IF @ = "running" THEN "killed" ELSE @]
      <4>1. PICK x : proc' = [proc EXCEPT ![x].state =
                                IF @ = "running" THEN "killed" ELSE @]
        BY <3>1
      <4>2. \A p \in Pids : proc'[p] = IF p = x
              THEN [proc[p] EXCEPT !.state =
                      IF proc[p].state = "running" THEN "killed" ELSE @]
              ELSE proc[p]
        BY <4>1 DEF OtherTypes
      <4>3. DOMAIN proc' = Pids /\ proc' = [p \in Pids |-> proc'[p]]
        BY <4>1 DEF OtherTypes
      <4>4. \A p \in Pids : proc'[p] \in [state : States,
                              job : JobIds \cup {NoId}, fds : SUBSET Clients]
        <5>1. TAKE p \in Pids
        <5>2. proc[p] \in [state : States, job : JobIds \cup {NoId},
                           fds : SUBSET Clients]
          BY DEF OtherTypes
        <5>3. \/ proc'[p] = proc[p]
              \/ proc'[p] = [proc[p] EXCEPT !.state = "killed"]
              \/ proc'[p] = [proc[p] EXCEPT !.state = @]
          BY <4>2
        <5> QED BY <5>2, <5>3 DEF States
      <4> QED BY <4>3, <4>4
    <3> QED BY <1>3, <2>2, <3>1
  <2> QED BY <1>1, <1>2, <1>6, <1>7, <2>1, <2>3
<1>15. ASSUME NEW c \in Clients, Close(c) PROVE OtherTypes'
  <2>1. /\ UNCHANGED <<main, waiterVars, proc, reply>> /\ fd' = [fd EXCEPT ![c] = "closed"]
        /\ pc[c] = "close" /\ pc' = [pc EXCEPT ![c] = "done"]
    BY <1>15 DEF Close, Goto
  <2>2. \A d \in Clients : pc'[d] = IF d = c THEN "done" ELSE pc[d]
    BY <2>1 DEF HandlerTypes
  <2>3. Main
    BY <2>1, <2>2 DEF OtherTypes
  <2> QED BY <1>1, <1>2, <1>3, <1>7, <2>1, <2>3
<1>16. ASSUME SemWait \/ ScanMisses \/ ScanFinds \/ MarkFinished \/ ReleaseSlot
              \/ UNCHANGED serving
       PROVE  OtherTypes'
  <2>1. UNCHANGED <<fd, main, pc, reply, proc>>
    BY <1>16 DEF SemWait, ScanMisses, ScanFinds, MarkFinished, ReleaseSlot,
                 serving, handlerVars
  <2>2. Waiter
    <3>1. CASE ScanFinds
      <4>1. Matching # {} /\ found' = Min(Matching)
        BY <3>1 DEF ScanFinds
      <4>2. Matching \in SUBSET Nat /\ Matching \subseteq JobIds
        BY ClientsCounted DEF Matching, JobIds
      <4>3. found' \in JobIds
        BY <4>1, <4>2, MinIsLeast, Zenon
      <4> QED BY <3>1, <4>3 DEF ScanFinds, OtherTypes
    <3>2. CASE ~ ScanFinds
      BY <1>16, <3>2 DEF SemWait, ScanMisses, MarkFinished, ReleaseSlot, serving,
                         OtherTypes
    <3> QED BY <3>1, <3>2
  <2> QED BY <1>1, <1>3, <1>4, <1>5, <2>1, <2>2
<1>17. ASSUME NEW p \in Pids, Wait(p) \/ ChildEnds(p) PROVE OtherTypes'
  <2>1. UNCHANGED <<fd, main, pc, reply>>
    BY <1>17 DEF Wait, ChildEnds, handlerVars
  <2>2. Waiter
    BY <1>17 DEF Wait, ChildEnds, waiterVars, OtherTypes
  <2>3. Procs
    BY <1>17 DEF Wait, ChildEnds, OtherTypes, States
  <2> QED BY <1>1, <1>4, <1>5, <2>1, <2>2, <2>3
<1> QED BY <1>8, <1>9, <1>10, <1>11, <1>12, <1>13, <1>14, <1>15, <1>16, <1>17,
           Steps

(* The ids.                                                                *)
LEMMA NextKeepsSeed ==
    ASSUME HandlerTypes, SeedInv, OtherTypes, [Next]_vars, HandlerTypes'
    PROVE  SeedInv'
<1>1. ASSUME id_seed' = id_seed, UNCHANGED <<op, id>> PROVE SeedInv'
  BY <1>1 DEF SeedInv, Taken, UniqueIds
<1>2. ASSUME NEW c \in Clients, Receive(c) PROVE SeedInv'
  <2>1. /\ id_seed' = id_seed /\ pc[c] = "recv"
        /\ \E o : op' = [op EXCEPT ![c] = o]
        /\ UNCHANGED id \/ \E i : id' = [id EXCEPT ![c] = i]
    BY <1>2 DEF Receive, tableVars
  <2>2. op[c] = "none" /\ id[c] = NoId
    BY <2>1 DEF HandlerTypes, HandlerOK, Fits
  <2>3. \A d \in Clients \ {c} : op'[d] = op[d] /\ id'[d] = id[d]
    BY <2>1 DEF HandlerTypes
  <2>4. op'[c] = "run" => id'[c] = NoId
    <3>1. op'[c] = "run" => UNCHANGED id
      BY <1>2 DEF Receive, HandlerTypes, Listings
    <3> QED BY <2>2, <3>1
  <2>5. Taken' = Taken
    BY <2>2, <2>3, <2>4 DEF Taken
  <2>6. UniqueIds'
    BY <2>2, <2>3, <2>4 DEF UniqueIds, SeedInv
  <2> QED BY <2>1, <2>5, <2>6 DEF SeedInv
<1>3. ASSUME NEW c \in Clients, TakeId(c) PROVE SeedInv'
  <2>1. /\ pc[c] = "take_id" /\ id' = [id EXCEPT ![c] = id_seed]
        /\ id_seed' = id_seed + 1 /\ UNCHANGED op
    BY <1>3 DEF TakeId, Goto
  <2>2. op[c] = "run" /\ id[c] = NoId
    BY <2>1 DEF HandlerTypes, HandlerOK, Fits
  <2>3. id_seed \in Nat /\ id_seed # NoId
    BY DEF SeedInv, NoId
  <2>4. \A d \in Clients : id'[d] = IF d = c THEN id_seed ELSE id[d]
    BY <2>1 DEF HandlerTypes
  <2>5. Taken' = Taken \cup {c}
    BY <2>1, <2>2, <2>3, <2>4 DEF Taken
  <2>6. \A d \in Clients : op[d] = "run" => id[d] # id_seed
    <3>1. \A d \in Clients : op[d] = "run" => id[d] = NoId \/
                                (id[d] \in JobIds /\ id[d] < id_seed)
      BY DEF HandlerTypes, HandlerOK, Fits
    <3>2. \A i \in JobIds : i \in Int
      BY ClientsCounted DEF JobIds
    <3> QED BY <2>3, <3>1, <3>2
  <2>7. UniqueIds'
    BY <2>1, <2>4, <2>6 DEF UniqueIds, SeedInv
  <2>8. id_seed' \in Nat /\ id_seed' = Cardinality(Taken \cup {c})
    BY <2>1, <2>3, IdsLeft
  <2> QED BY <2>5, <2>7, <2>8 DEF SeedInv
<1>4. ASSUME NEW c \in Clients, CreateThread(c) \/ Fork(c) \/ ForkFails(c)
      PROVE  SeedInv'
  BY <1>1, <1>4 DEF CreateThread, Fork, ForkFails, tableVars
<1> QED BY <1>1, <1>2, <1>3, <1>4, Steps, MostGoOn, OthersLeaveHandlers
        DEF GoesOn

(* The initial state.                                                      *)
LEMMA InitJob == Init => JobInv
<1> SUFFICES ASSUME Init PROVE JobInv
  OBVIOUS
<1>1. HandlerTypes
  BY DEF Init, HandlerTypes, HandlerOK, Fits, HandlerPCs, OpNames
<1>2. AnswerTypes
  BY ClientsCounted DEF Init, AnswerTypes, Replies
<1>3. TableTypes
  BY JobAssumption DEF Init, TableTypes, Statuses
<1>4. OtherTypes
  BY DEF Init, OtherTypes, States
<1>5. Taken = {} /\ Cardinality({}) = 0
  BY FS_EmptySet DEF Init, Taken
<1>6. SeedInv
  BY <1>5 DEF Init, SeedInv, UniqueIds
<1> QED BY <1>1, <1>2, <1>3, <1>4, <1>6 DEF JobInv

(* What handlers hold, the types of the table, ids given out once.         *)
THEOREM JobInvariant == Spec => []JobInv
<1>1. JobInv /\ [Next]_vars => JobInv'
  BY NextKeepsHandlers, NextKeepsAnswers, NextKeepsTable, NextKeepsOthers,
     NextKeepsSeed DEF JobInv
<1> QED BY InitJob, <1>1, PTL DEF Spec

-----------------------------------------------------------------------------
(* The books: the slots, the children and the posts.  A post comes from a  *)
(* request that is done, so there are at most as many as clients.          *)
Admitted == HandlersAt({"fill", "fork"})
ToPost   == HandlersAt({"record", "post"})
NoChild  == {c \in Clients : pid[c] = Failed}
Posted   == {c \in Clients : op[c] = "run" /\ pc[c] \in {"close", "done"}}

BooksInv == /\ SlotsAccounted /\ ChildrenAccounted
            /\ sem <= Cardinality(Posted)

(* What a handler's step changes, it changes in its own variables.         *)
LEMMA OnlyItsOwn ==
    ASSUME HandlerTypes, HandlerTypes', NEW c \in Clients,
           \/ CreateThread(c)
           \/ Receive(c) \/ TakeId(c) \/ Reserve(c) \/ Reject(c) \/ Fill(c)
           \/ Fork(c) \/ ForkFails(c) \/ Record(c) \/ Post(c) \/ GetStatus(c)
           \/ ReadStatus(c) \/ KillJob(c) \/ GetOutput(c) \/ SendOutput(c)
           \/ CountJobs(c) \/ ListJobs(c) \/ Close(c)
    PROVE  \A d \in Clients \ {c} : UNCHANGED <<pc[d], op[d], id[d], pid[d]>>
<1>1. \E q : pc' = [pc EXCEPT ![c] = q]
  BY DEF CreateThread, Receive, TakeId, Reserve, Reject, Fill, Fork, ForkFails,
         Record, Post, GetStatus, ReadStatus, KillJob, GetOutput, SendOutput,
         CountJobs, ListJobs, Close, Goto
<1>2. UNCHANGED op \/ \E o : op' = [op EXCEPT ![c] = o]
  BY DEF CreateThread, Receive, TakeId, Reserve, Reject, Fill, Fork, ForkFails,
         Record, Post, GetStatus, ReadStatus, KillJob, GetOutput, SendOutput,
         CountJobs, ListJobs, Close
<1>3. UNCHANGED id \/ \E i : id' = [id EXCEPT ![c] = i]
  BY DEF CreateThread, Receive, TakeId, Reserve, Reject, Fill, Fork, ForkFails,
         Record, Post, GetStatus, ReadStatus, KillJob, GetOutput, SendOutput,
         CountJobs, ListJobs, Close
<1>4. UNCHANGED pid \/ \E p : pid' = [pid EXCEPT ![c] = p]
  BY DEF CreateThread, Receive, TakeId, Reserve, Reject, Fill, Fork, ForkFails,
         Record, Post, GetStatus, ReadStatus, KillJob, GetOutput, SendOutput,
         CountJobs, ListJobs, Close
<1> QED BY <1>1, <1>2, <1>3, <1>4 DEF HandlerTypes

(* How the sets of handlers change when one of them does.                  *)
LEMMA HandlerCounts ==
    ASSUME NEW c \in Clients,
           \A d \in Clients \ {c} : UNCHANGED <<pc[d], op[d], id[d], pid[d]>>
    PROVE  /\ Cardinality(Admitted) \in Nat /\ Cardinality(Admitted') \in Nat
           /\ Cardinality(Admitted') = Cardinality(Admitted)
                + (IF pc'[c] \in {"fill", "fork"} THEN 1 ELSE 0)
                - (IF pc[c] \in {"fill", "fork"} THEN 1 ELSE 0)
           /\ Cardinality(ToPost) \in Nat /\ Cardinality(ToPost') \in Nat
           /\ Cardinality(ToPost') = Cardinality(ToPost)
                + (IF pc'[c] \in {"record", "post"} THEN 1 ELSE 0)
                - (IF pc[c] \in {"record", "post"} THEN 1 ELSE 0)
           /\ Cardinality(NoChild) \in Nat /\ Cardinality(NoChild') \in Nat
           /\ Cardinality(NoChild') = Cardinality(NoChild)
                + (IF pid'[c] = Failed THEN 1 ELSE 0)
                - (IF pid[c] = Failed THEN 1 ELSE 0)
           /\ Cardinality(Posted) \in Nat /\ Cardinality(Posted') \in Nat
           /\ Cardinality(Posted') = Cardinality(Posted)
                + (IF op'[c] = "run" /\ pc'[c] \in {"close", "done"} THEN 1 ELSE 0)
                - (IF op[c] = "run" /\ pc[c] \in {"close", "done"} THEN 1 ELSE 0)
<1>1. PICK A \in SUBSET Clients, B \in SUBSET Clients :
        A = Admitted /\ B = Admitted'
  BY DEF Admitted, HandlersAt
<1>2. /\ \A d \in Clients : d # c => (d \in A <=> d \in B)
      /\ c \in A <=> pc[c] \in {"fill", "fork"}
      /\ c \in B <=> pc'[c] \in {"fill", "fork"}
  BY <1>1 DEF Admitted, HandlersAt
<1>3. PICK C \in SUBSET Clients, D \in SUBSET Clients :
        C = ToPost /\ D = ToPost'
  BY DEF ToPost, HandlersAt
<1>4. /\ \A d \in Clients : d # c => (d \in C <=> d \in D)
      /\ c \in C <=> pc[c] \in {"record", "post"}
      /\ c \in D <=> pc'[c] \in {"record", "post"}
  BY <1>3 DEF ToPost, HandlersAt
<1>5. PICK E \in SUBSET Clients, F \in SUBSET Clients :
        E = NoChild /\ F = NoChild'
  BY DEF NoChild
<1>6. /\ \A d \in Clients : d # c => (d \in E <=> d \in F)
      /\ c \in E <=> pid[c] = Failed
      /\ c \in F <=> pid'[c] = Failed
  BY <1>5 DEF NoChild
<1>7. PICK G \in SUBSET Clients, H \in SUBSET Clients :
        G = Posted /\ H = Posted'
  BY DEF Posted
<1>8. /\ \A d \in Clients : d # c => (d \in G <=> d \in H)
      /\ c \in G <=> op[c] = "run" /\ pc[c] \in {"close", "done"}
      /\ c \in H <=> op'[c] = "run" /\ pc'[c] \in {"close", "done"}
  BY <1>7 DEF Posted
<1>9. IsFiniteSet(Clients)
  BY ClientsCounted
<1>10. /\ Cardinality(A) \in Nat /\ Cardinality(B) \in Nat
       /\ Cardinality(B) = Cardinality(A) + (IF c \in B THEN 1 ELSE 0)
                                          - (IF c \in A THEN 1 ELSE 0)
  BY <1>2, <1>9, MovedSize
<1>11. /\ Cardinality(C) \in Nat /\ Cardinality(D) \in Nat
       /\ Cardinality(D) = Cardinality(C) + (IF c \in D THEN 1 ELSE 0)
                                          - (IF c \in C THEN 1 ELSE 0)
  BY <1>4, <1>9, MovedSize
<1>12. /\ Cardinality(E) \in Nat /\ Cardinality(F) \in Nat
       /\ Cardinality(F) = Cardinality(E) + (IF c \in F THEN 1 ELSE 0)
                                          - (IF c \in E THEN 1 ELSE 0)
  BY <1>6, <1>9, MovedSize
<1>13. /\ Cardinality(G) \in Nat /\ Cardinality(H) \in Nat
       /\ Cardinality(H) = Cardinality(G) + (IF c \in H THEN 1 ELSE 0)
                                          - (IF c \in G THEN 1 ELSE 0)
  BY <1>8, <1>9, MovedSize
<1>14. /\ Cardinality(Admitted) \in Nat /\ Cardinality(Admitted') \in Nat
       /\ Cardinality(Admitted') = Cardinality(Admitted)
                + (IF pc'[c] \in {"fill", "fork"} THEN 1 ELSE 0)
                - (IF pc[c] \in {"fill", "fork"} THEN 1 ELSE 0)
  BY <1>1, <1>2, <1>10, Zenon
<1>15. /\ Cardinality(ToPost) \in Nat /\ Cardinality(ToPost') \in Nat
       /\ Cardinality(ToPost') = Cardinality(ToPost)
                + (IF pc'[c] \in {"record", "post"} THEN 1 ELSE 0)
                - (IF pc[c] \in {"record", "post"} THEN 1 ELSE 0)
  BY <1>3, <1>4, <1>11, Zenon
<1>16. /\ Cardinality(NoChild) \in Nat /\ Cardinality(NoChild') \in Nat
       /\ Cardinality(NoChild') = Cardinality(NoChild)
                + (IF pid'[c] = Failed THEN 1 ELSE 0)
                - (IF pid[c] = Failed THEN 1 ELSE 0)
  BY <1>5, <1>6, <1>12, Zenon
<1>17. /\ Cardinality(Posted) \in Nat /\ Cardinality(Posted') \in Nat
       /\ Cardinality(Posted') = Cardinality(Posted)
                + (IF op'[c] = "run" /\ pc'[c] \in {"close", "done"} THEN 1 ELSE 0)
                - (IF op[c] = "run" /\ pc[c] \in {"close", "done"} THEN 1 ELSE 0)
  BY <1>7, <1>8, <1>13, Zenon
<1> QED BY <1>14, <1>15, <1>16, <1>17

(* How the set of children changes when one of them does.                  *)
Lives(p) == proc[p].state \in {"running", "killed", "zombie"}

LEMMA ChildCounts ==
    ASSUME NEW p \in Pids,
           \A q \in Pids \ {p} : Lives(q)' <=> Lives(q)
    PROVE  /\ Cardinality(Unreaped) \in Nat /\ Cardinality(Unreaped') \in Nat
           /\ Cardinality(Unreaped') = Cardinality(Unreaped)
                + (IF Lives(p)' THEN 1 ELSE 0) - (IF Lives(p) THEN 1 ELSE 0)
<1>1. PICK A \in SUBSET Pids, B \in SUBSET Pids :
        A = Unreaped /\ B = Unreaped'
  BY DEF Unreaped
<1>2. /\ \A d \in Pids : d # p => (d \in A <=> d \in B)
      /\ p \in A <=> Lives(p)
      /\ p \in B <=> Lives(p)'
  BY <1>1 DEF Unreaped, Lives
<1>3. /\ Cardinality(A) \in Nat /\ Cardinality(B) \in Nat
      /\ Cardinality(B) = Cardinality(A) + (IF p \in B THEN 1 ELSE 0)
                                         - (IF p \in A THEN 1 ELSE 0)
  BY <1>2, MovedSize, ClientsCounted
<1> QED BY <1>1, <1>2, <1>3, Zenon

(* The books in terms of these sets.                                       *)
LEMMA BooksMeaning ==
    /\ BooksInv <=>
          /\ running_jobs_nr = Cardinality(Admitted) + Cardinality(Unreaped)
                + One(waiter \in {"scan", "mark", "release"})
                + Cardinality(NoChild)
          /\ running_jobs_nr <= Limit
          /\ Cardinality(Unreaped) = sem + One(waiter = "wait")
                                         + Cardinality(ToPost)
          /\ sem <= Cardinality(Posted)
    /\ BooksInv' <=>
          /\ running_jobs_nr' = Cardinality(Admitted') + Cardinality(Unreaped')
                + One(waiter' \in {"scan", "mark", "release"})
                + Cardinality(NoChild')
          /\ running_jobs_nr' <= Limit
          /\ Cardinality(Unreaped') = sem' + One(waiter' = "wait")
                                           + Cardinality(ToPost')
          /\ sem' <= Cardinality(Posted')
BY DEF BooksInv, SlotsAccounted, ChildrenAccounted, Admitted, ToPost, NoChild,
       One

(* Every step keeps the books.                                             *)
LEMMA NextKeepsBooks ==
    ASSUME HandlerTypes, TableTypes, OtherTypes, HandlerTypes', TableTypes',
           BooksInv, [Next]_vars
    PROVE  BooksInv'
<1>1. /\ Cardinality(Admitted) \in Nat /\ Cardinality(ToPost) \in Nat
      /\ Cardinality(NoChild) \in Nat /\ Cardinality(Posted) \in Nat
      /\ Cardinality(Unreaped) \in Nat
      /\ sem \in Nat /\ sem' \in Nat
      /\ running_jobs_nr \in Int /\ running_jobs_nr' \in Int
  BY ClientsCounted, FS_Subset, FS_CardinalityType
     DEF Admitted, ToPost, NoChild, Posted, Unreaped, HandlersAt, TableTypes
<1>2. ASSUME UNCHANGED <<running_jobs_nr, sem, waiter, proc, pc, op, pid>>
      PROVE  BooksInv'
  BY <1>2 DEF BooksInv, SlotsAccounted, ChildrenAccounted, Unreaped,
              HandlersAt, Posted
<1>3. ASSUME NEW c \in Clients,
             \/ CreateThread(c) \/ Receive(c) \/ TakeId(c) \/ Reject(c)
             \/ GetStatus(c) \/ ReadStatus(c) \/ KillJob(c) \/ GetOutput(c)
             \/ SendOutput(c) \/ CountJobs(c) \/ ListJobs(c) \/ Close(c)
      PROVE  BooksInv'
  <2>1. /\ pc[c] \notin {"fill", "fork", "record", "post"}
        /\ pc'[c] \notin {"fill", "fork", "record", "post"}
    <3>1. \E q : /\ pc' = [pc EXCEPT ![c] = q]
                 /\ q \notin {"fill", "fork", "record", "post"}
      BY <1>3 DEF CreateThread, Receive, TakeId, Reject, GetStatus, ReadStatus,
           KillJob, GetOutput, SendOutput, CountJobs, ListJobs, Close, Goto
    <3>2. pc'[c] \notin {"fill", "fork", "record", "post"}
      BY <3>1 DEF HandlerTypes
    <3>3. CreateThread(c) => pc[c] = "none"
      BY DEF CreateThread, OtherTypes
    <3>4. pc[c] \notin {"fill", "fork", "record", "post"}
      BY <1>3, <3>3 DEF Receive, TakeId, Reject, GetStatus, ReadStatus,
           KillJob, GetOutput, SendOutput, CountJobs, ListJobs, Close, Goto
    <3> QED BY <3>2, <3>4
  <2>2. UNCHANGED <<running_jobs_nr, sem, waiter, pid>>
    BY <1>3 DEF CreateThread, Receive, TakeId, Reject, GetStatus, ReadStatus,
         KillJob, GetOutput, SendOutput, CountJobs, ListJobs, Close, tableVars,
         waiterVars
  <2>3. Unreaped' = Unreaped
    <3>1. CASE KillJob(c)
      <4>1. UNCHANGED proc \/ \E x : proc' = [proc EXCEPT ![x].state =
                                    IF @ = "running" THEN "killed" ELSE @]
        BY <3>1 DEF KillJob
      <4>2. \A p \in Pids : Lives(p)' <=> Lives(p)
        BY <4>1 DEF Lives, OtherTypes
      <4> QED BY <4>2 DEF Lives, Unreaped
    <3>2. CASE ~ KillJob(c)
      <4>1. proc' = proc
        BY <1>3, <3>2 DEF CreateThread, Receive, TakeId, Reject, GetStatus,
             ReadStatus, GetOutput, SendOutput, CountJobs, ListJobs, Close
      <4> QED BY <4>1 DEF Unreaped
    <3> QED BY <3>1, <3>2
  <2>4. \A d \in Clients \ {c} : UNCHANGED <<pc[d], op[d], id[d], pid[d]>>
    BY <1>3, OnlyItsOwn
  <2>5. /\ Cardinality(Admitted') = Cardinality(Admitted)
        /\ Cardinality(ToPost') = Cardinality(ToPost)
        /\ Cardinality(NoChild') = Cardinality(NoChild)
        /\ Cardinality(Posted') \in Nat
    BY <1>1, <2>1, <2>2, <2>4, HandlerCounts
  <2>6. Cardinality(Posted) <= Cardinality(Posted')
    <3>1. op[c] = "run" /\ pc[c] \in {"close", "done"} =>
            op'[c] = "run" /\ pc'[c] \in {"close", "done"}
      <4>1. SUFFICES ASSUME op[c] = "run", pc[c] \in {"close", "done"}
                     PROVE  op'[c] = "run" /\ pc'[c] \in {"close", "done"}
        OBVIOUS
      <4>2. Close(c)
        BY <1>3, <4>1 DEF CreateThread, OtherTypes, Receive, TakeId, Reject,
             GetStatus, ReadStatus, KillJob, GetOutput, SendOutput, CountJobs,
             ListJobs, Goto
      <4> QED BY <4>1, <4>2 DEF Close, Goto, HandlerTypes
    <3> QED BY <1>1, <2>4, <3>1, HandlerCounts
  <2> QED BY <1>1, <2>2, <2>3, <2>5, <2>6, BooksMeaning
<1>4. ASSUME NEW c \in Clients, GoesOn(c),
             Reserve(c) \/ Fill(c) \/ Record(c) \/ Post(c)
      PROVE  BooksInv'
  <2>1. UNCHANGED <<waiter, proc, pid, op>>
    BY <1>4 DEF Reserve, Fill, Record, Post, waiterVars
  <2>2. Unreaped' = Unreaped
    BY <2>1 DEF Unreaped
  <2>3. \A d \in Clients \ {c} : UNCHANGED <<pc[d], op[d], id[d], pid[d]>>
    BY <1>4, OnlyItsOwn
  <2>4. CASE Reserve(c)
    <3>1. pc[c] = "reserve" /\ pc'[c] = "fill" /\ UNCHANGED sem
          /\ running_jobs_nr' = running_jobs_nr + 1 /\ running_jobs_nr < Limit
      BY <2>4 DEF Reserve, Goto, HandlerTypes
    <3>2. Limit \in Nat
      BY JobAssumption
    <3>3. running_jobs_nr' <= Limit
      BY <1>1, <3>1, <3>2
    <3>4. /\ Cardinality(Admitted') = Cardinality(Admitted) + 1
          /\ Cardinality(ToPost') = Cardinality(ToPost)
          /\ Cardinality(NoChild') = Cardinality(NoChild)
          /\ Cardinality(Posted') = Cardinality(Posted)
      BY <1>1, <2>1, <2>3, <3>1, HandlerCounts
    <3> QED BY <1>1, <2>1, <2>2, <3>1, <3>3, <3>4, BooksMeaning DEF One
  <2>5. CASE Fill(c) \/ Record(c)
    <3>1. /\ \/ pc[c] = "fill" /\ pc'[c] = "fork"
             \/ pc[c] = "record" /\ pc'[c] = "post"
          /\ UNCHANGED <<sem, running_jobs_nr>>
      BY <2>5 DEF Fill, Record, Goto, HandlerTypes
    <3> QED BY <1>1, <2>1, <2>2, <2>3, <3>1, BooksMeaning, HandlerCounts
  <2>6. CASE Post(c)
    <3>1. pc[c] = "post" /\ pc'[c] = "close" /\ sem' = sem + 1
          /\ UNCHANGED running_jobs_nr
      BY <2>6 DEF Post, Goto, HandlerTypes
    <3>2. op[c] = "run"
      BY <3>1 DEF HandlerTypes, HandlerOK, Fits
    <3>3. /\ Cardinality(Admitted') = Cardinality(Admitted)
          /\ Cardinality(ToPost') = Cardinality(ToPost) - 1
          /\ Cardinality(NoChild') = Cardinality(NoChild)
          /\ Cardinality(Posted') = Cardinality(Posted) + 1
      BY <1>1, <2>1, <2>3, <3>1, <3>2, HandlerCounts
    <3> QED BY <1>1, <2>1, <2>2, <3>1, <3>3, BooksMeaning DEF One
  <2> QED BY <1>4, <2>4, <2>5, <2>6
<1>5. ASSUME NEW c \in Clients, Fork(c) PROVE BooksInv'
  <2>1. PICK p \in Pids :
          /\ FreshPid(p) /\ pid' = [pid EXCEPT ![c] = p]
          /\ proc' = [proc EXCEPT ![p] =
                 [state |-> "running", job |-> id[c],
                  fds |-> {d \in Clients : fd[d] = "inheritable"}]]
    BY <1>5 DEF Fork
  <2>2. /\ pc[c] = "fork" /\ pc'[c] = "record"
        /\ UNCHANGED <<running_jobs_nr, sem, waiter>>
    BY <1>5 DEF Fork, Goto, HandlerTypes, tableVars, waiterVars
  <2>3. pid[c] = None /\ pid'[c] = p /\ p # Failed /\ None # Failed
    BY <2>1, <2>2, FailedAssumption DEF HandlerTypes, HandlerOK, Fits
  <2>4. \A d \in Clients \ {c} : UNCHANGED <<pc[d], op[d], id[d], pid[d]>>
    BY <1>5, OnlyItsOwn
  <2>5. /\ ~ Lives(p) /\ Lives(p)'
        /\ \A q \in Pids \ {p} : Lives(q)' <=> Lives(q)
    BY <2>1 DEF FreshPid, Lives, OtherTypes
  <2>6. Cardinality(Unreaped') = Cardinality(Unreaped) + 1
    BY <1>1, <2>5, ChildCounts
  <2>7. /\ Cardinality(Admitted') = Cardinality(Admitted) - 1
        /\ Cardinality(ToPost') = Cardinality(ToPost) + 1
        /\ Cardinality(NoChild') = Cardinality(NoChild)
        /\ Cardinality(Posted') = Cardinality(Posted)
    BY <1>1, <2>2, <2>3, <2>4, HandlerCounts
  <2> QED BY <1>1, <2>2, <2>6, <2>7, BooksMeaning DEF One
<1>6. ASSUME NEW c \in Clients, ForkFails(c) PROVE BooksInv'
  <2>1. /\ pc[c] = "fork" /\ pc'[c] = "close" /\ pid'[c] = Failed
        /\ UNCHANGED <<running_jobs_nr, sem, waiter, proc, op>>
    BY <1>6 DEF ForkFails, Goto, HandlerTypes, tableVars, waiterVars
  <2>2. pid[c] = None /\ None # Failed /\ op[c] = "run" /\ op'[c] = "run"
    BY <2>1, FailedAssumption DEF HandlerTypes, HandlerOK, Fits
  <2>3. \A d \in Clients \ {c} : UNCHANGED <<pc[d], op[d], id[d], pid[d]>>
    BY <1>6, OnlyItsOwn
  <2>4. /\ Cardinality(Admitted') = Cardinality(Admitted) - 1
        /\ Cardinality(ToPost') = Cardinality(ToPost)
        /\ Cardinality(NoChild') = Cardinality(NoChild) + 1
        /\ Cardinality(Posted') = Cardinality(Posted) + 1
    BY <1>1, <2>1, <2>2, <2>3, HandlerCounts
  <2>5. Unreaped' = Unreaped
    BY <2>1 DEF Unreaped
  <2> QED BY <1>1, <2>1, <2>4, <2>5, BooksMeaning DEF One
<1>7. ASSUME UNCHANGED <<pc, op, pid>>
      PROVE  /\ Admitted' = Admitted /\ ToPost' = ToPost /\ NoChild' = NoChild
             /\ Posted' = Posted
  BY <1>7 DEF Admitted, ToPost, NoChild, Posted, HandlersAt
<1>8. CASE SemWait \/ ScanMisses \/ ScanFinds \/ MarkFinished \/ ReleaseSlot
  <2>1. UNCHANGED <<pc, op, pid, proc>>
    BY <1>8 DEF SemWait, ScanMisses, ScanFinds, MarkFinished, ReleaseSlot,
                handlerVars
  <2>2. Unreaped' = Unreaped
    BY <2>1 DEF Unreaped
  <2>3. CASE SemWait
    <3>1. /\ waiter = "sem_wait" /\ waiter' = "wait" /\ sem' = sem - 1
          /\ UNCHANGED running_jobs_nr
      BY <2>3 DEF SemWait
    <3> QED BY <1>1, <1>7, <2>1, <2>2, <3>1, BooksMeaning DEF One
  <2>4. CASE ScanMisses \/ ScanFinds \/ MarkFinished
    <3>1. /\ waiter \in {"scan", "mark"} /\ waiter' \in {"mark", "release"}
          /\ UNCHANGED <<sem, running_jobs_nr>>
      BY <2>4 DEF ScanMisses, ScanFinds, MarkFinished, tableVars
    <3> QED BY <1>1, <1>7, <2>1, <2>2, <3>1, BooksMeaning DEF One
  <2>5. CASE ReleaseSlot
    <3>1. /\ waiter = "release" /\ waiter' = "sem_wait" /\ UNCHANGED sem
          /\ running_jobs_nr' = running_jobs_nr - 1
      BY <2>5 DEF ReleaseSlot
    <3>2. running_jobs_nr <= Limit /\ Limit \in Nat
      BY JobAssumption DEF TableTypes
    <3> QED BY <1>1, <1>7, <2>1, <2>2, <3>1, <3>2, BooksMeaning DEF One
  <2> QED BY <1>8, <2>3, <2>4, <2>5
<1>9. ASSUME NEW p \in Pids, Wait(p) \/ ChildEnds(p) PROVE BooksInv'
  <2>1. UNCHANGED <<pc, op, pid, running_jobs_nr, sem>>
    BY <1>9 DEF Wait, ChildEnds, handlerVars, tableVars
  <2>2. \A q \in Pids \ {p} : Lives(q)' <=> Lives(q)
    BY <1>9 DEF Wait, ChildEnds, Lives, OtherTypes
  <2>3. Lives(p)
    BY <1>9 DEF Wait, ChildEnds, Lives
  <2>4. CASE Wait(p)
    <3>1. ~ Lives(p)' /\ waiter = "wait" /\ waiter' = "scan"
      BY <2>4 DEF Wait, Lives, OtherTypes
    <3>2. Cardinality(Unreaped') = Cardinality(Unreaped) - 1
      BY <1>1, <2>2, <2>3, <3>1, ChildCounts
    <3> QED BY <1>1, <1>7, <2>1, <3>1, <3>2, BooksMeaning DEF One
  <2>5. CASE ChildEnds(p)
    <3>1. Lives(p)' /\ UNCHANGED waiter
      BY <2>5 DEF ChildEnds, Lives, OtherTypes, waiterVars
    <3>2. Cardinality(Unreaped') = Cardinality(Unreaped)
      BY <1>1, <2>2, <2>3, <3>1, ChildCounts
    <3> QED BY <1>1, <1>7, <2>1, <3>1, <3>2, BooksMeaning DEF One
  <2> QED BY <1>9, <2>4, <2>5
<1>10. ASSUME NEW c \in Clients, Accept(c) \/ SetCloexec(c) PROVE BooksInv'
  BY <1>2, <1>10 DEF Accept, SetCloexec, tableVars, handlerVars, waiterVars
<1>11. CASE UNCHANGED serving
  BY <1>2, <1>11 DEF serving
<1> QED BY <1>3, <1>4, <1>5, <1>6, <1>8, <1>9, <1>10, <1>11, Steps, MostGoOn

(* The initial state.                                                      *)
LEMMA InitBooks == Init => BooksInv
<1> SUFFICES ASSUME Init PROVE BooksInv
  OBVIOUS
<1>1. /\ Admitted = {} /\ ToPost = {} /\ Unreaped = {} /\ NoChild = {}
      /\ Posted = {}
  BY FailedAssumption DEF Init, Admitted, ToPost, HandlersAt, Unreaped,
                          NoChild, Posted
<1>2. Cardinality({}) = 0
  BY FS_EmptySet
<1>3. running_jobs_nr = 0 /\ sem = 0 /\ waiter = "sem_wait" /\ Limit \in Nat
  BY JobAssumption DEF Init
<1> QED BY <1>1, <1>2, <1>3, BooksMeaning DEF One

(* Slots, children and posts always balance, and ids are never shared.     *)
THEOREM BooksAlwaysBalance == Spec => []BooksBalance
<1>1. JobInv /\ BooksInv /\ [Next]_vars /\ JobInv' => BooksInv'
  BY NextKeepsBooks DEF JobInv
<1>2. JobInv /\ BooksInv => BooksBalance
  BY DEF JobInv, SeedInv, BooksInv, BooksBalance
<1> QED BY InitBooks, JobInvariant, <1>1, <1>2, PTL DEF Spec

(* Type correctness, for any number of clients, processes and slots.       *)
THEOREM JobServerTypeCorrect == Spec => []TypeOK
<1>1. ASSUME JobInv, BooksInv, DownType PROVE TypeOK
  <2>1. /\ Cardinality(Taken) <= Cardinality(Clients)
        /\ Cardinality(Posted) <= Cardinality(Clients)
        /\ Cardinality(Posted) \in Nat
        /\ Cardinality(Admitted) \in Nat /\ Cardinality(NoChild) \in Nat
        /\ Cardinality(Unreaped) \in Nat
    BY ClientsCounted, FS_Subset, FS_CardinalityType
       DEF Taken, Posted, Admitted, HandlersAt, NoChild, Unreaped
  <2>2. id_seed \in 0 .. Cardinality(Clients)
    BY <1>1, <2>1, ClientsCounted DEF JobInv, SeedInv
  <2>3. sem \in 0 .. Cardinality(Clients)
    BY <1>1, <2>1, ClientsCounted, BooksMeaning DEF JobInv, TableTypes
  <2>4. running_jobs_nr \in 0 .. Limit
    BY <1>1, <2>1, JobAssumption, BooksMeaning DEF One
  <2> QED BY <1>1, <2>2, <2>3, <2>4
          DEF TypeOK, JobInv, HandlerTypes, AnswerTypes, TableTypes,
              OtherTypes, DownType, Statuses, Replies, States
<1>2. JobInv /\ BooksInv /\ [Next]_vars /\ JobInv' => BooksInv'
  BY NextKeepsBooks DEF JobInv
<1>3. Init => DownType
  BY DEF Init, DownType
<1>4. DownType /\ [Next]_vars => DownType'
  BY DEF Next, Crash, vars, DownType
<1> QED BY InitBooks, JobInvariant, <1>1, <1>2, <1>3, <1>4, PTL DEF Spec

-----------------------------------------------------------------------------
(* Whose child a process is.  Every process that was ever forked belongs   *)
(* to the request that forked it last, and an entry of the table has the   *)
(* pid of the child of the request with its id.  A process that is waited  *)
(* for is gone, or was forked again by a request with another id.          *)
Forked == \A p \in Pids : proc[p].state # "free" =>
             \E c \in Clients : pid[c] = p /\ id[c] = proc[p].job

Recorded == \A i \in JobIds : jobs[i].pid # None =>
               \E c \in Clients : /\ pid[c] = jobs[i].pid /\ id[c] = i
                                  /\ pc[c] # "record"

Reused(p) == \E c \in Clients : pid[c] = p /\ id[c] # proc[p].job

WaitedIsGone ==
    /\ waiter = "mark" => jobs[found].pid = waited
    /\ waiter \in {"scan", "mark"} =>
          proc[waited].state = "reaped" \/ Reused(waited)

FinishedHasPid ==
    \A i \in JobIds : jobs[i].status = "FINISHED" => jobs[i].pid # None

FateInv == Forked /\ Recorded /\ WaitedIsGone /\ FinishedHasPid /\ FinishedIsDead

FateContext == HandlerTypes /\ TableTypes /\ OtherTypes /\ SeedInv

(* Who has a child has forked it, and has an id.                           *)
LEMMA Forker ==
    ASSUME HandlerTypes, NEW c \in Clients, pid[c] \in Pids
    PROVE  /\ op[c] = "run" /\ id[c] \in JobIds
           /\ pc[c] \in {"record", "post", "close", "done"}
<1>1. None \notin Pids
  BY JobAssumption
<1>2. /\ Fits(pc[c], op[c], id[c], pid[c], id_seed) /\ pc[c] \in HandlerPCs
  BY DEF HandlerTypes, HandlerOK
<1>3. op[c] = "run" /\ pc[c] \notin {"take_id", "reserve", "fill", "fork", "leaked"}
  BY <1>1, <1>2 DEF Fits
<1>4. pc[c] \in {"record", "post", "close", "done"}
  BY <1>2, <1>3 DEF Fits, HandlerPCs, Queries, Listings
<1> QED BY <1>2, <1>3, <1>4 DEF Fits

(* Two requests to run do not have one id.                                 *)
LEMMA OneForker ==
    ASSUME HandlerTypes, SeedInv, NEW c \in Clients, NEW d \in Clients,
           pid[c] \in Pids, op[d] = "run", id[c] = id[d]
    PROVE  c = d
<1>1. op[c] = "run" /\ id[c] # NoId
  <2>1. op[c] = "run" /\ id[c] \in JobIds
    BY Forker
  <2>2. NoId \notin JobIds
    BY ClientsCounted DEF JobIds, NoId
  <2> QED BY <2>1, <2>2
<1> QED BY <1>1 DEF SeedInv, UniqueIds

(* A request keeps its child and its id.                                   *)
LEMMA ForkerStays ==
    ASSUME HandlerTypes, OtherTypes, HandlerTypes', [Next]_vars,
           NEW c \in Clients, pid[c] \in Pids
    PROVE  /\ pid'[c] = pid[c] /\ id'[c] = id[c]
           /\ pc[c] # "record" => pc'[c] # "record"
<1>1. pc[c] \in {"record", "post", "close", "done"}
  BY Forker
<1>2. CASE UNCHANGED <<pc, op, id, pid, nr, reply, listed, id_seed>>
  BY <1>2
<1>3. ASSUME NEW d \in Clients,
             \/ CreateThread(d)
             \/ Receive(d) \/ TakeId(d) \/ Reserve(d) \/ Reject(d) \/ Fill(d)
             \/ Fork(d) \/ ForkFails(d) \/ Record(d) \/ Post(d) \/ GetStatus(d)
             \/ ReadStatus(d) \/ KillJob(d) \/ GetOutput(d) \/ SendOutput(d)
             \/ CountJobs(d) \/ ListJobs(d) \/ Close(d)
      PROVE  /\ pid'[c] = pid[c] /\ id'[c] = id[c]
             /\ pc[c] # "record" => pc'[c] # "record"
  <2>1. CASE d # c
    BY <1>3, <2>1, OnlyItsOwn
  <2>2. CASE d = c
    <3>1. Record(c) \/ Post(c) \/ Close(c)
      BY <1>1, <1>3, <2>2 DEF CreateThread, Receive, TakeId, Reserve, Reject,
           Fill, Fork, ForkFails, GetStatus, ReadStatus, KillJob, GetOutput,
           SendOutput, CountJobs, ListJobs, Goto, OtherTypes
    <3>2. \E q : q # "record" /\ pc' = [pc EXCEPT ![c] = q]
      BY <3>1 DEF Record, Post, Close, Goto
    <3>3. UNCHANGED <<id, pid>>
      BY <3>1 DEF Record, Post, Close
    <3> QED BY <3>2, <3>3 DEF HandlerTypes
  <2> QED BY <2>1, <2>2
<1> QED BY <1>2, <1>3, Steps, OthersLeaveHandlers

(* Who has not forked yet has no entry in the table.                       *)
LEMMA NotYetRecorded ==
    ASSUME FateContext, Recorded, NEW c \in Clients, op[c] = "run",
           id[c] \in JobIds, pid[c] \notin Pids \/ pc[c] = "record"
    PROVE  jobs[id[c]].pid = None
<1> SUFFICES ASSUME jobs[id[c]].pid # None PROVE FALSE
  OBVIOUS
<1>1. PICK d \in Clients : /\ pid[d] = jobs[id[c]].pid /\ id[d] = id[c]
                           /\ pc[d] # "record"
  BY DEF Recorded
<1>2. pid[d] \in Pids
  BY <1>1 DEF FateContext, TableTypes
<1>3. d = c
  BY <1>1, <1>2, OneForker DEF FateContext
<1> QED BY <1>1, <1>2, <1>3

(* The steps that change a table, a child or the waiter.                   *)
LEMMA FateSteps ==
    ASSUME [Next]_vars
    PROVE  \/ \E c \in Clients : Fill(c) \/ Fork(c) \/ Record(c) \/ KillJob(c)
           \/ ScanFinds \/ MarkFinished
           \/ \E p \in Pids : Wait(p) \/ ChildEnds(p)
           \/ /\ UNCHANGED <<jobs, proc>>
              /\ \/ UNCHANGED waiterVars
                 \/ UNCHANGED waited /\ waiter' \in {"wait", "release"}
                 \/ waiter' = "sem_wait"
<1>1. ASSUME NEW c \in Clients,
             \/ Accept(c) \/ SetCloexec(c) \/ CreateThread(c)
             \/ Receive(c) \/ TakeId(c) \/ Reserve(c) \/ Reject(c)
             \/ ForkFails(c) \/ Post(c) \/ GetStatus(c) \/ ReadStatus(c)
             \/ GetOutput(c) \/ SendOutput(c) \/ CountJobs(c) \/ ListJobs(c)
             \/ Close(c)
      PROVE  UNCHANGED <<jobs, proc, waiterVars>>
  BY <1>1 DEF Accept, SetCloexec, CreateThread, Receive, TakeId, Reserve,
       Reject, ForkFails, Post, GetStatus, ReadStatus, GetOutput, SendOutput,
       CountJobs, ListJobs, Close, tableVars, waiterVars
<1>2. ASSUME SemWait \/ ScanMisses \/ ReleaseSlot \/ UNCHANGED serving
      PROVE  /\ UNCHANGED <<jobs, proc>>
             /\ \/ UNCHANGED waiterVars
                \/ UNCHANGED waited /\ waiter' \in {"wait", "release"}
                \/ waiter' = "sem_wait"
  BY <1>2 DEF SemWait, ScanMisses, ReleaseSlot, serving, tableVars, waiterVars
<1> QED BY <1>1, <1>2, Steps

(* Setting the status of an entry leaves everything else of the table.     *)
LEMMA StatusSet ==
    ASSUME TableTypes, NEW k \in JobIds, NEW s \in Statuses,
           jobs' = [jobs EXCEPT ![k].status = s]
    PROVE  /\ \A i \in JobIds : jobs'[i].pid = jobs[i].pid
           /\ \A i \in JobIds \ {k} : jobs'[i].status = jobs[i].status
           /\ jobs'[k].status = s
BY DEF TableTypes

(* What a step may do to a process: it is forked, or keeps its job and does *)
(* not come to life.                                                       *)
Forks(c, p) == /\ Fork(c) /\ pid'[c] = p /\ FreshPid(p)
               /\ pid[c] = None /\ op[c] = "run" /\ id[c] \in JobIds
               /\ proc'[p].state = "running" /\ proc'[p].job = id[c]
               /\ id' = id /\ jobs' = jobs

Continues(p) == /\ proc'[p].job = proc[p].job
                /\ proc'[p].state = "running" => proc[p].state = "running"
                /\ proc'[p].state # "free" => proc[p].state # "free"
                /\ proc[p].state = "reaped" => proc'[p].state = "reaped"

LEMMA ForkOrContinue ==
    ASSUME FateContext, [Next]_vars, NEW p \in Pids
    PROVE  Continues(p) \/ \E c \in Clients : Forks(c, p)
<1>1. CASE UNCHANGED proc
  BY <1>1 DEF Continues
<1>2. ASSUME NEW c \in Clients, Fill(c) \/ Record(c) PROVE UNCHANGED proc
  BY <1>2 DEF Fill, Record
<1>3. ASSUME ScanFinds \/ MarkFinished PROVE UNCHANGED proc
  BY <1>3 DEF ScanFinds, MarkFinished
<1>4. ASSUME NEW q \in Pids, Wait(q) \/ ChildEnds(q) PROVE Continues(p)
  BY <1>4 DEF Wait, ChildEnds, Continues, FateContext, OtherTypes
<1>5. ASSUME NEW c \in Clients, KillJob(c) PROVE Continues(p)
  BY <1>5 DEF KillJob, Continues, FateContext, OtherTypes
<1>6. ASSUME NEW c \in Clients, Fork(c) PROVE Continues(p) \/ Forks(c, p)
  <2>1. PICK q \in Pids :
          /\ FreshPid(q) /\ pid' = [pid EXCEPT ![c] = q]
          /\ proc' = [proc EXCEPT ![q] =
                 [state |-> "running", job |-> id[c],
                  fds |-> {d \in Clients : fd[d] = "inheritable"}]]
    BY <1>6 DEF Fork
  <2>2. CASE p # q
    BY <2>1, <2>2 DEF Continues, FateContext, OtherTypes
  <2>3. CASE p = q
    <3>1. pc[c] = "fork" /\ Fits(pc[c], op[c], id[c], pid[c], id_seed)
      BY <1>6 DEF Fork, Goto, FateContext, HandlerTypes, HandlerOK
    <3>2. pid[c] = None /\ op[c] = "run" /\ id[c] \in JobIds
      BY <3>1 DEF Fits
    <3>3. pid'[c] = p
      BY <2>1, <2>3 DEF FateContext, HandlerTypes
    <3>4. proc'[p].state = "running" /\ proc'[p].job = id[c]
      BY <2>1, <2>3 DEF FateContext, OtherTypes
    <3>5. id' = id /\ jobs' = jobs
      BY <1>6 DEF Fork, tableVars
    <3> QED BY <1>6, <2>1, <2>3, <3>2, <3>3, <3>4, <3>5 DEF Forks
  <2> QED BY <2>2, <2>3
<1> QED BY <1>1, <1>2, <1>3, <1>4, <1>5, <1>6, FateSteps

(* The processes still belong to the requests that forked them.            *)
LEMMA NextKeepsForked ==
    ASSUME FateContext, HandlerTypes', [Next]_vars, Forked
    PROVE  Forked'
<1> SUFFICES ASSUME NEW p \in Pids, proc'[p].state # "free"
             PROVE  \E c \in Clients : pid'[c] = p /\ id'[c] = proc'[p].job
  BY DEF Forked
<1>1. CASE Continues(p)
  <2>1. PICK c \in Clients : pid[c] = p /\ id[c] = proc[p].job
    BY <1>1 DEF Continues, Forked
  <2>2. pid'[c] = pid[c] /\ id'[c] = id[c]
    BY <2>1, ForkerStays DEF FateContext
  <2> QED BY <1>1, <2>1, <2>2 DEF Continues
<1>2. ASSUME NEW c \in Clients, Forks(c, p)
      PROVE  pid'[c] = p /\ id'[c] = proc'[p].job
  BY <1>2 DEF Forks
<1> QED BY <1>1, <1>2, ForkOrContinue

(* What a step may do to an entry: its pid is recorded, or it stays.       *)
LEMMA RecordOrStay ==
    ASSUME FateContext, [Next]_vars, NEW i \in JobIds
    PROVE  \/ jobs'[i].pid = jobs[i].pid
           \/ \E c \in Clients : /\ Record(c) /\ id[c] = i /\ pid[c] \in Pids
                                 /\ jobs'[i] = [jobs[i] EXCEPT !.pid = pid[c]]
                                 /\ pid' = pid /\ id' = id /\ pc[c] = "record"
                                 /\ pc'[c] = "post" /\ op[c] = "run"
<1>1. ASSUME NEW c \in Clients, Fill(c) PROVE jobs'[i].pid = jobs[i].pid
  <2>1. id[c] \in JobIds
    <3>1. pc[c] = "fill" /\ Fits(pc[c], op[c], id[c], pid[c], id_seed)
      BY <1>1 DEF Fill, Goto, FateContext, HandlerTypes, HandlerOK
    <3> QED BY <3>1 DEF Fits
  <2>2. jobs' = [jobs EXCEPT ![id[c]].status = "RUNNING"]
    BY <1>1 DEF Fill
  <2> QED BY <2>1, <2>2, StatusSet DEF FateContext, Statuses
<1>2. ASSUME NEW c \in Clients, KillJob(c) PROVE jobs'[i].pid = jobs[i].pid
  <2>1. id[c] \in JobIds
    <3>1. pc[c] = "check" /\ Fits(pc[c], op[c], id[c], pid[c], id_seed)
      BY <1>2 DEF KillJob, Goto, FateContext, HandlerTypes, HandlerOK
    <3> QED BY <3>1 DEF Fits
  <2>2. jobs' = jobs \/ jobs' = [jobs EXCEPT ![id[c]].status = "FINISHED"]
    BY <1>2 DEF KillJob
  <2> QED BY <2>1, <2>2, StatusSet DEF FateContext, Statuses
<1>3. ASSUME MarkFinished PROVE jobs'[i].pid = jobs[i].pid
  <2>1. found \in JobIds /\ jobs' = [jobs EXCEPT ![found].status = "FINISHED"]
    BY <1>3 DEF MarkFinished, FateContext, OtherTypes
  <2> QED BY <2>1, StatusSet DEF FateContext, Statuses
<1>4. ASSUME NEW p \in Pids, Wait(p) \/ ChildEnds(p) PROVE jobs' = jobs
  BY <1>4 DEF Wait, ChildEnds, tableVars
<1>5. (\E c \in Clients : Fork(c)) \/ ScanFinds => jobs' = jobs
  BY DEF Fork, ScanFinds, tableVars
<1>6. ASSUME NEW c \in Clients, Record(c), jobs'[i].pid # jobs[i].pid
      PROVE  /\ id[c] = i /\ pid[c] \in Pids
             /\ jobs'[i] = [jobs[i] EXCEPT !.pid = pid[c]]
             /\ pid' = pid /\ id' = id /\ pc[c] = "record"
             /\ pc'[c] = "post" /\ op[c] = "run"
  <2>1. /\ pc[c] = "record" /\ pid' = pid /\ id' = id
        /\ jobs' = [jobs EXCEPT ![id[c]].pid = pid[c]]
        /\ Fits(pc[c], op[c], id[c], pid[c], id_seed)
    BY <1>6 DEF Record, Goto, FateContext, HandlerTypes, HandlerOK
  <2>2. pid[c] \in Pids /\ op[c] = "run" /\ id[c] \in JobIds
    BY <2>1 DEF Fits
  <2>3. id[c] = i
    <3>1. jobs \in [JobIds -> [pid : Pids \cup {None}, status : Statuses]]
      BY DEF FateContext, TableTypes
    <3>2. id[c] # i => jobs'[i] = jobs[i]
      BY <2>1, <2>2, <3>1
    <3> QED BY <1>6, <3>2
  <2>4. jobs'[i] = [jobs[i] EXCEPT !.pid = pid[c]]
    BY <2>1, <2>2, <2>3 DEF FateContext, TableTypes
  <2>5. pc'[c] = "post"
    BY <1>6 DEF Record, Goto, FateContext, HandlerTypes
  <2> QED BY <2>1, <2>2, <2>3, <2>4, <2>5
<1>7. jobs' = jobs => jobs'[i].pid = jobs[i].pid
  OBVIOUS
<1>8. ASSUME jobs'[i].pid # jobs[i].pid PROVE \E c \in Clients : Record(c)
  <2>1. jobs' # jobs
    BY <1>8
  <2>2. \/ \E c \in Clients : Fill(c) \/ Fork(c) \/ Record(c) \/ KillJob(c)
        \/ ScanFinds \/ MarkFinished
        \/ \E p \in Pids : Wait(p) \/ ChildEnds(p)
    BY <2>1, FateSteps
  <2>3. ~ ScanFinds /\ ~ MarkFinished
    BY <1>3, <1>5, <1>8, <2>1
  <2>4. \A p \in Pids : ~ (Wait(p) \/ ChildEnds(p))
    BY <1>4, <2>1
  <2>5. \A c \in Clients : ~ (Fill(c) \/ Fork(c) \/ KillJob(c))
    BY <1>1, <1>2, <1>5, <1>8, <2>1
  <2> QED BY <2>2, <2>3, <2>4, <2>5
<1> QED BY <1>6, <1>8

(* The table still has the pids of the requests' children.                 *)
LEMMA NextKeepsRecorded ==
    ASSUME FateContext, HandlerTypes', [Next]_vars, Recorded
    PROVE  Recorded'
<1> SUFFICES ASSUME NEW i \in JobIds, jobs'[i].pid # None
             PROVE  \E c \in Clients : /\ pid'[c] = jobs'[i].pid /\ id'[c] = i
                                       /\ pc'[c] # "record"
  BY DEF Recorded
<1>1. CASE jobs'[i].pid = jobs[i].pid
  <2>1. PICK c \in Clients : pid[c] = jobs[i].pid /\ id[c] = i /\ pc[c] # "record"
    BY <1>1 DEF Recorded
  <2>2. pid[c] \in Pids
    BY <1>1, <2>1 DEF FateContext, TableTypes
  <2>3. pid'[c] = pid[c] /\ id'[c] = id[c] /\ pc'[c] # "record"
    BY <2>1, <2>2, ForkerStays DEF FateContext
  <2> QED BY <1>1, <2>1, <2>3
<1>2. ASSUME NEW c \in Clients, id[c] = i,
             jobs'[i] = [jobs[i] EXCEPT !.pid = pid[c]],
             pid' = pid, id' = id, pc'[c] = "post"
      PROVE  pid'[c] = jobs'[i].pid /\ id'[c] = i /\ pc'[c] # "record"
  BY <1>2 DEF FateContext, TableTypes
<1> QED BY <1>1, <1>2, RecordOrStay

(* A job gets finished when it is killed or when its process was waited    *)
(* for.                                                                    *)
LEMMA FinishStep ==
    ASSUME FateContext, [Next]_vars, NEW i \in JobIds,
           jobs'[i].status = "FINISHED", jobs[i].status # "FINISHED"
    PROVE  \/ jobs[i].pid \in Pids /\ proc'[jobs[i].pid].state # "running"
           \/ waiter = "mark" /\ found = i
<1>1. jobs' # jobs
  OBVIOUS
<1>2. ASSUME NEW c \in Clients, Fill(c) PROVE FALSE
  <2>1. pc[c] = "fill" /\ Fits(pc[c], op[c], id[c], pid[c], id_seed)
    BY <1>2 DEF Fill, Goto, FateContext, HandlerTypes, HandlerOK
  <2>2. id[c] \in JobIds
    BY <2>1 DEF Fits
  <2>3. jobs' = [jobs EXCEPT ![id[c]].status = "RUNNING"]
    BY <1>2 DEF Fill
  <2>4. jobs'[i].status \in {jobs[i].status, "RUNNING"}
    BY <2>2, <2>3, StatusSet DEF FateContext, Statuses
  <2> QED BY <2>4
<1>3. ASSUME NEW c \in Clients, Record(c) PROVE FALSE
  <2>1. pc[c] = "record" /\ Fits(pc[c], op[c], id[c], pid[c], id_seed)
    BY <1>3 DEF Record, Goto, FateContext, HandlerTypes, HandlerOK
  <2>2. id[c] \in JobIds
    BY <2>1 DEF Fits
  <2>3. jobs' = [jobs EXCEPT ![id[c]].pid = pid[c]]
    BY <1>3 DEF Record
  <2>4. jobs'[i].status = jobs[i].status
    BY <2>2, <2>3 DEF FateContext, TableTypes
  <2> QED BY <2>4
<1>4. ASSUME NEW c \in Clients, KillJob(c)
      PROVE  jobs[i].pid \in Pids /\ proc'[jobs[i].pid].state # "running"
  <2>1. pc[c] = "check" /\ Fits(pc[c], op[c], id[c], pid[c], id_seed)
    BY <1>4 DEF KillJob, Goto, FateContext, HandlerTypes, HandlerOK
  <2>2. id[c] \in JobIds
    BY <2>1 DEF Fits
  <2>3. /\ jobs[id[c]].pid # None
        /\ proc' = [proc EXCEPT ![jobs[id[c]].pid].state =
                                    IF @ = "running" THEN "killed" ELSE @]
        /\ jobs' = [jobs EXCEPT ![id[c]].status = "FINISHED"]
    BY <1>1, <1>4 DEF KillJob
  <2>4. i = id[c]
    BY <2>2, <2>3, StatusSet DEF FateContext, Statuses
  <2>5. jobs[i].pid \in Pids
    BY <2>3, <2>4 DEF FateContext, TableTypes
  <2>6. proc'[jobs[i].pid].state # "running"
    BY <2>3, <2>4, <2>5 DEF FateContext, OtherTypes
  <2> QED BY <2>5, <2>6
<1>5. ASSUME MarkFinished PROVE waiter = "mark" /\ found = i
  <2>1. /\ waiter = "mark" /\ found \in JobIds
        /\ jobs' = [jobs EXCEPT ![found].status = "FINISHED"]
    BY <1>5 DEF MarkFinished, FateContext, OtherTypes
  <2> QED BY <2>1, StatusSet DEF FateContext, Statuses
<1>6. ASSUME NEW c \in Clients, Fork(c) PROVE FALSE
  BY <1>1, <1>6 DEF Fork, tableVars
<1>7. ~ ScanFinds
  BY <1>1 DEF ScanFinds, tableVars
<1>8. ASSUME NEW p \in Pids, Wait(p) \/ ChildEnds(p) PROVE FALSE
  BY <1>1, <1>8 DEF Wait, ChildEnds, tableVars
<1>9. \/ \E c \in Clients : Fill(c) \/ Fork(c) \/ Record(c) \/ KillJob(c)
      \/ ScanFinds \/ MarkFinished
      \/ \E p \in Pids : Wait(p) \/ ChildEnds(p)
  BY <1>1, FateSteps
<1>10. \/ \E c \in Clients : KillJob(c)
       \/ MarkFinished
  BY <1>2, <1>3, <1>6, <1>7, <1>8, <1>9
<1> QED BY <1>4, <1>5, <1>10

(* A job that is finished has been recorded.                               *)
LEMMA NextKeepsFinishedHasPid ==
    ASSUME FateContext, [Next]_vars, WaitedIsGone, FinishedHasPid
    PROVE  FinishedHasPid'
<1> SUFFICES ASSUME NEW i \in JobIds, jobs'[i].status = "FINISHED"
             PROVE  jobs'[i].pid # None
  BY DEF FinishedHasPid
<1>0. None \notin Pids
  BY JobAssumption
<1>1. jobs[i].pid # None
  <2>1. CASE jobs[i].status = "FINISHED"
    BY <2>1 DEF FinishedHasPid
  <2>2. CASE jobs[i].pid \in Pids
    BY <1>0, <2>2
  <2>3. CASE waiter = "mark" /\ found = i
    BY <1>0, <2>3 DEF WaitedIsGone, FateContext, OtherTypes
  <2> QED BY <2>1, <2>2, <2>3, FinishStep
<1>2. CASE jobs'[i].pid = jobs[i].pid
  BY <1>1, <1>2
<1>3. ASSUME NEW c \in Clients, pid[c] \in Pids,
             jobs'[i] = [jobs[i] EXCEPT !.pid = pid[c]]
      PROVE  jobs'[i].pid # None
  BY <1>0, <1>3 DEF FateContext, TableTypes
<1> QED BY <1>2, <1>3, RecordOrStay

(* A pid that was used again stays so.                                     *)
LEMMA ReusedStays ==
    ASSUME FateContext, HandlerTypes', [Next]_vars, NEW p \in Pids,
           Continues(p), Reused(p)
    PROVE  Reused(p)'
<1>1. PICK c \in Clients : pid[c] = p /\ id[c] # proc[p].job
  BY DEF Reused
<1>2. pid'[c] = pid[c] /\ id'[c] = id[c]
  BY <1>1, ForkerStays DEF FateContext
<1> QED BY <1>1, <1>2 DEF Reused, Continues

(* A pid that is forked after somebody had it is used again.               *)
LEMMA ForkedAgain ==
    ASSUME FateContext, HandlerTypes', [Next]_vars, NEW p \in Pids,
           NEW c \in Clients, Forks(c, p), NEW d \in Clients, pid[d] = p
    PROVE  Reused(p)'
<1>1. id[d] # id[c]
  <2>1. id[d] = id[c] => d = c
    BY OneForker DEF Forks, FateContext
  <2>2. pid[c] # p
    BY JobAssumption DEF Forks
  <2> QED BY <2>1, <2>2
<1>2. pid'[d] = p /\ id'[d] = id[d]
  BY ForkerStays DEF FateContext
<1> QED BY <1>1, <1>2 DEF Reused, Forks

(* What the waiter knows of its process.                                   *)
LEMMA NextKeepsWaited ==
    ASSUME FateContext, HandlerTypes', [Next]_vars, Forked, Recorded,
           WaitedIsGone
    PROVE  WaitedIsGone'
<1>0. /\ waiter \in {"scan", "mark"} => waited \in Pids
      /\ waiter = "mark" => found \in JobIds
      /\ None \notin Pids
  BY JobAssumption DEF FateContext, OtherTypes
<1>1. ASSUME waiter' \in {"scan", "mark"}
      PROVE  \/ ScanFinds
             \/ \E p \in Pids : Wait(p)
             \/ UNCHANGED <<waiter, waited, found>>
  <2>1. ASSUME NEW c \in Clients, Fill(c) \/ Fork(c) \/ Record(c) \/ KillJob(c)
        PROVE  UNCHANGED <<waiter, waited, found>>
    BY <2>1 DEF Fill, Fork, Record, KillJob, waiterVars
  <2>2. ASSUME NEW p \in Pids, ChildEnds(p)
        PROVE  UNCHANGED <<waiter, waited, found>>
    BY <2>2 DEF ChildEnds, waiterVars
  <2>3. ~ MarkFinished
    BY <1>1 DEF MarkFinished
  <2>4. waiter' \notin {"wait", "release", "sem_wait"}
    BY <1>1
  <2> QED BY <2>1, <2>2, <2>3, <2>4, FateSteps DEF waiterVars
<1>2. ASSUME waiter' = "mark" PROVE jobs'[found'].pid = waited'
  <2>1. CASE ScanFinds
    <3>1. PICK S \in SUBSET JobIds : S = Matching
      BY DEF Matching
    <3>2. found' = Min(S) /\ S # {} /\ jobs' = jobs /\ waited' = waited
      BY <2>1, <3>1 DEF ScanFinds, tableVars
    <3>3. Min(S) \in S
      <4>1. S \in SUBSET Nat
        BY ClientsCounted DEF JobIds
      <4> QED BY <3>2, <4>1, MinIsLeast
    <3>4. jobs[Min(S)].pid = waited
      BY <3>1, <3>3 DEF Matching
    <3> QED BY <3>2, <3>4
  <2>2. CASE UNCHANGED <<waiter, waited, found>>
    <3>1. found \in JobIds /\ jobs[found].pid = waited /\ waited \in Pids
      BY <1>0, <1>2, <2>2 DEF WaitedIsGone
    <3>2. ASSUME NEW c \in Clients, id[c] = found, op[c] = "run",
                 pc[c] = "record"
          PROVE  FALSE
      BY <1>0, <3>1, <3>2, NotYetRecorded
    <3>3. jobs'[found].pid = jobs[found].pid
      <4>1. PICK k \in JobIds : k = found
        BY <3>1
      <4>2. \/ jobs'[k].pid = jobs[k].pid
            \/ \E c \in Clients : id[c] = k /\ pc[c] = "record" /\ op[c] = "run"
        <5>1. \/ jobs'[k].pid = jobs[k].pid
              \/ \E c \in Clients :
                    /\ Record(c) /\ id[c] = k /\ pid[c] \in Pids
                    /\ jobs'[k] = [jobs[k] EXCEPT !.pid = pid[c]]
                    /\ pid' = pid /\ id' = id /\ pc[c] = "record"
                    /\ pc'[c] = "post" /\ op[c] = "run"
          BY RecordOrStay
        <5> QED BY <5>1
      <4> QED BY <3>2, <4>1, <4>2
    <3> QED BY <2>2, <3>1, <3>3
  <2>3. ASSUME NEW p \in Pids, Wait(p) PROVE FALSE
    BY <1>2, <2>3 DEF Wait
  <2> QED BY <1>1, <1>2, <2>1, <2>2, <2>3
<1>3. ASSUME waiter' \in {"scan", "mark"}
      PROVE  proc'[waited'].state = "reaped" \/ Reused(waited)'
  <2>1. ASSUME NEW p \in Pids, Wait(p)
        PROVE  proc'[waited'].state = "reaped"
    BY <2>1 DEF Wait, FateContext, OtherTypes
  <2>2. CASE ScanFinds \/ UNCHANGED <<waiter, waited, found>>
    <3>1. waiter \in {"scan", "mark"} /\ waited' = waited
      BY <1>3, <2>2 DEF ScanFinds
    <3>2. PICK w \in Pids : w = waited
      BY <1>0, <3>1
    <3>3. proc[w].state = "reaped" \/ Reused(w)
      BY <3>1, <3>2 DEF WaitedIsGone
    <3>4. CASE Continues(w)
      <4>1. CASE proc[w].state = "reaped"
        BY <3>1, <3>2, <3>4, <4>1 DEF Continues
      <4>2. CASE Reused(w)
        <5>1. Reused(w)'
          BY <3>4, <4>2, ReusedStays
        <5> QED BY <3>1, <3>2, <5>1 DEF Reused
      <4> QED BY <3>3, <4>1, <4>2
    <3>5. ASSUME NEW c \in Clients, Forks(c, w) PROVE Reused(waited)'
      <4>1. PICK d \in Clients : pid[d] = w
        BY <3>3 DEF Forked, Reused
      <4>2. Reused(w)'
        BY <3>5, <4>1, ForkedAgain
      <4> QED BY <3>1, <3>2, <4>2 DEF Reused
    <3> QED BY <3>4, <3>5, ForkOrContinue
  <2> QED BY <1>1, <1>3, <2>1, <2>2
<1> QED BY <1>2, <1>3 DEF WaitedIsGone

(* A process that runs does not have a finished job.                       *)
LEMMA NextKeepsDead ==
    ASSUME FateContext, HandlerTypes', [Next]_vars, FateInv
    PROVE  FinishedIsDead'
<1> SUFFICES ASSUME NEW p \in Pids, proc'[p].state = "running",
                    jobs'[proc'[p].job].status = "FINISHED"
             PROVE  Reused(p)'
  BY DEF FinishedIsDead, Reused
<1>1. ASSUME NEW c \in Clients, Forks(c, p) PROVE FALSE
  <2>1. jobs[id[c]].status = "FINISHED" /\ id[c] \in JobIds
    BY <1>1 DEF Forks
  <2>2. jobs[id[c]].pid # None
    BY <2>1 DEF FateInv, FinishedHasPid
  <2>3. jobs[id[c]].pid = None
    BY <1>1, <2>1, JobAssumption, NotYetRecorded DEF FateInv, Forks
  <2> QED BY <2>2, <2>3
<1>2. CASE Continues(p)
  <2>1. proc[p].state = "running" /\ proc'[p].job = proc[p].job
    BY <1>2 DEF Continues
  <2>2. PICK e \in Clients : pid[e] = p /\ id[e] = proc[p].job
    BY <2>1 DEF FateInv, Forked
  <2>3. PICK k \in JobIds : k = proc[p].job
    BY <2>2, Forker DEF FateContext
  <2>4. ASSUME jobs[k].pid \in Pids PROVE jobs[k].pid = p
    <3>1. PICK d \in Clients : pid[d] = jobs[k].pid /\ id[d] = k
      BY <2>4, JobAssumption DEF FateInv, Recorded
    <3>2. op[e] = "run"
      BY <2>2, Forker DEF FateContext
    <3>3. d = e
      BY <2>2, <2>3, <2>4, <3>1, <3>2, OneForker DEF FateContext
    <3> QED BY <2>2, <3>1, <3>3
  <2>5. CASE jobs[k].status = "FINISHED"
    <3>1. Reused(p)
      BY <2>1, <2>3, <2>5 DEF FateInv, FinishedIsDead, Reused
    <3> QED BY <1>2, <3>1, ReusedStays
  <2>6. CASE jobs[k].pid \in Pids /\ proc'[jobs[k].pid].state # "running"
    BY <2>4, <2>6
  <2>7. CASE waiter = "mark" /\ found = k
    <3>1. jobs[k].pid = waited /\ waited \in Pids
      BY <2>7 DEF FateInv, WaitedIsGone, FateContext, OtherTypes
    <3>2. waited = p
      BY <2>4, <3>1
    <3>3. Reused(p)
      BY <2>1, <2>7, <3>2 DEF FateInv, WaitedIsGone
    <3> QED BY <1>2, <3>3, ReusedStays
  <2>8. jobs'[k].status = "FINISHED"
    BY <2>1, <2>3
  <2> QED BY <2>5, <2>6, <2>7, <2>8, FinishStep
<1> QED BY <1>1, <1>2, ForkOrContinue

(* The initial state.                                                      *)
LEMMA InitFate == Init => FateInv
<1> SUFFICES ASSUME Init PROVE FateInv
  OBVIOUS
<1>1. Forked /\ FinishedIsDead
  BY DEF Init, Forked, FinishedIsDead
<1>2. Recorded /\ FinishedHasPid
  BY DEF Init, Recorded, FinishedHasPid
<1>3. WaitedIsGone
  BY DEF Init, WaitedIsGone
<1> QED BY <1>1, <1>2, <1>3 DEF FateInv

(* Whose child each process is, what the table says of it and what the     *)
(* waiter knows: an invariant.                                             *)
THEOREM FateInvariant == Spec => []FateInv
<1>1. JobInv /\ FateInv /\ [Next]_vars /\ JobInv' => FateInv'
  <2> SUFFICES ASSUME JobInv, FateInv, [Next]_vars, JobInv' PROVE FateInv'
    OBVIOUS
  <2>1. FateContext /\ HandlerTypes'
    BY DEF JobInv, FateContext
  <2>2. Forked /\ Recorded /\ WaitedIsGone /\ FinishedHasPid
    BY DEF FateInv
  <2> QED BY <2>1, <2>2, NextKeepsForked, NextKeepsRecorded, NextKeepsWaited,
             NextKeepsFinishedHasPid, NextKeepsDead DEF FateInv
<1> QED BY InitFate, JobInvariant, <1>1, PTL DEF Spec

(* A job is reported finished only when its process has ended or has been  *)
(* sent the signal that ends it, unless the pid was given out twice.       *)
THEOREM FinishedJobsAreDead == Spec => []FinishedIsDead
BY FateInvariant, PTL DEF FateInv

(* A finished job stays finished, although run fills its entry without a   *)
(* lock: the entry it fills has no process yet.                            *)
THEOREM FinishedStays == Spec => FinishedIsFinal
<1>1. JobInv /\ FateInv /\ [Next]_vars =>
        [\A i \in JobIds : jobs[i].status = "FINISHED" => jobs'[i].status = "FINISHED"]_vars
  <2> SUFFICES ASSUME JobInv, FateInv, [Next]_vars, NEW i \in JobIds,
                      jobs[i].status = "FINISHED", jobs'[i].status # "FINISHED"
               PROVE  FALSE
    OBVIOUS
  <2>0. FateContext /\ jobs' # jobs
    BY DEF JobInv, FateContext
  <2>1. \/ \E c \in Clients : Fill(c) \/ Fork(c) \/ Record(c) \/ KillJob(c)
        \/ ScanFinds \/ MarkFinished
        \/ \E p \in Pids : Wait(p) \/ ChildEnds(p)
    BY <2>0, FateSteps
  <2>2. ASSUME NEW c \in Clients, Fill(c) PROVE FALSE
    <3>1. pc[c] = "fill" /\ Fits(pc[c], op[c], id[c], pid[c], id_seed)
      BY <2>0, <2>2 DEF Fill, Goto, FateContext, HandlerTypes, HandlerOK
    <3>2. id[c] \in JobIds /\ op[c] = "run" /\ pid[c] = None
      BY <3>1 DEF Fits
    <3>3. jobs' = [jobs EXCEPT ![id[c]].status = "RUNNING"]
      BY <2>2 DEF Fill
    <3>4. i = id[c]
      BY <2>0, <3>2, <3>3, StatusSet DEF FateContext, Statuses
    <3>5. jobs[i].pid = None
      BY <2>0, <3>2, <3>4, JobAssumption, NotYetRecorded DEF FateInv
    <3> QED BY <3>5 DEF FateInv, FinishedHasPid
  <2>3. ASSUME NEW c \in Clients, Record(c) PROVE FALSE
    <3>1. pc[c] = "record" /\ Fits(pc[c], op[c], id[c], pid[c], id_seed)
      BY <2>0, <2>3 DEF Record, Goto, FateContext, HandlerTypes, HandlerOK
    <3>2. id[c] \in JobIds
      BY <3>1 DEF Fits
    <3>3. jobs' = [jobs EXCEPT ![id[c]].pid = pid[c]]
      BY <2>3 DEF Record
    <3>4. jobs'[i].status = jobs[i].status
      BY <2>0, <3>2, <3>3 DEF FateContext, TableTypes
    <3> QED BY <3>4
  <2>4. ASSUME NEW c \in Clients, KillJob(c) PROVE FALSE
    <3>1. pc[c] = "check" /\ Fits(pc[c], op[c], id[c], pid[c], id_seed)
      BY <2>0, <2>4 DEF KillJob, Goto, FateContext, HandlerTypes, HandlerOK
    <3>2. id[c] \in JobIds
      BY <3>1 DEF Fits
    <3>3. jobs' = [jobs EXCEPT ![id[c]].status = "FINISHED"]
      BY <2>0, <2>4 DEF KillJob
    <3> QED BY <2>0, <3>2, <3>3, StatusSet DEF FateContext, Statuses
  <2>5. ASSUME MarkFinished PROVE FALSE
    <3>1. found \in JobIds /\ jobs' = [jobs EXCEPT ![found].status = "FINISHED"]
      BY <2>0, <2>5 DEF MarkFinished, FateContext, OtherTypes
    <3> QED BY <2>0, <3>1, StatusSet DEF FateContext, Statuses
  <2>6. ASSUME NEW c \in Clients, Fork(c) PROVE FALSE
    BY <2>0, <2>6 DEF Fork, tableVars
  <2>7. ~ ScanFinds
    BY <2>0 DEF ScanFinds, tableVars
  <2>8. ASSUME NEW p \in Pids, Wait(p) \/ ChildEnds(p) PROVE FALSE
    BY <2>0, <2>8 DEF Wait, ChildEnds, tableVars
  <2> QED BY <2>1, <2>2, <2>3, <2>4, <2>5, <2>6, <2>7, <2>8
<1> QED BY JobInvariant, FateInvariant, <1>1, PTL DEF Spec, FinishedIsFinal

-----------------------------------------------------------------------------
(* When clients name only the ids they were told and fork never fails, an  *)
(* id that a client was told, or that a request names, has its pid in the  *)
(* table.                                                                  *)
Answered(c) ==
    /\ op[c] = "run" /\ reply[c] = "ok" => pc[c] \in {"close", "done"}
    /\ op[c] = "run" /\ pc[c] \in {"post", "close", "done"} =>
          jobs[id[c]].pid # None
    /\ pc[c] = "check" => jobs[id[c]].pid # None
    /\ pc[c] # "stuck"

AnsweredInv == \A c \in Clients : Answered(c)

(* A pid in the table stays there.                                         *)
LEMMA PidStays ==
    ASSUME FateContext, [Next]_vars, NEW i \in JobIds, jobs[i].pid # None
    PROVE  jobs'[i].pid # None
<1>1. ASSUME NEW c \in Clients, pid[c] \in Pids,
             jobs'[i] = [jobs[i] EXCEPT !.pid = pid[c]]
      PROVE  jobs'[i].pid # None
  BY <1>1, JobAssumption DEF FateContext, TableTypes
<1> QED BY <1>1, RecordOrStay

(* The handlers whose variables a step leaves alone keep what they have.   *)
LEMMA OthersAnswered ==
    ASSUME FateContext, AnsweredInv, [Next]_vars, NEW d \in Clients,
           UNCHANGED <<pc[d], op[d], id[d], reply[d]>>
    PROVE  Answered(d)'
<1>1. Answered(d)
  BY DEF AnsweredInv
<1>2. Fits(pc[d], op[d], id[d], pid[d], id_seed)
  BY DEF FateContext, HandlerTypes, HandlerOK
<1>3. op[d] = "run" /\ pc[d] \in {"post", "close", "done"} => id[d] \in JobIds
  BY <1>2 DEF Fits
<1>4. pc[d] = "check" => id[d] \in JobIds
  BY <1>2 DEF Fits
<1>5. id[d] \in JobIds /\ jobs[id[d]].pid # None => jobs'[id[d]].pid # None
  BY PidStays
<1> QED BY <1>1, <1>3, <1>4, <1>5 DEF Answered

(* The handler that takes a step.                                          *)
LEMMA StepAnswered ==
    ASSUME Honest = TRUE, ForkMayFail = FALSE,
           FateContext, AnsweredInv, reply \in [Clients -> Replies],
           NEW c \in Clients,
           \/ CreateThread(c)
           \/ Receive(c) \/ TakeId(c) \/ Reserve(c) \/ Reject(c) \/ Fill(c)
           \/ Fork(c) \/ ForkFails(c) \/ Record(c) \/ Post(c) \/ GetStatus(c)
           \/ ReadStatus(c) \/ KillJob(c) \/ GetOutput(c) \/ SendOutput(c)
           \/ CountJobs(c) \/ ListJobs(c) \/ Close(c)
    PROVE  Answered(c)'
<1>0. /\ Fits(pc[c], op[c], id[c], pid[c], id_seed) /\ Answered(c)
      /\ pc \in [Clients -> HandlerPCs] /\ op \in [Clients -> OpNames]
      /\ id \in [Clients -> JobIds \cup {NoId}]
      /\ None \notin Pids
  BY JobAssumption DEF FateContext, HandlerTypes, HandlerOK, AnsweredInv
<1> HIDE DEF HandlerPCs, OpNames, JobIds, NoId
<1>1. CASE CreateThread(c)
  <2>1. pc[c] = "none" /\ pc'[c] = "recv" /\ op' = op
    BY <1>0, <1>1 DEF CreateThread, FateContext, OtherTypes
  <2>2. op[c] = "none"
    BY <1>0, <2>1 DEF Fits
  <2> QED BY <2>1, <2>2 DEF Answered
<1>2. CASE Receive(c)
  <2>1. pc[c] = "recv" /\ reply[c] = "none" /\ reply' = reply /\ jobs' = jobs
    BY <1>2 DEF Receive, tableVars, FateContext, OtherTypes
  <2>2. PICK o \in Ops[c] :
          /\ op' = [op EXCEPT ![c] = o]
          /\ CASE o = "run" -> /\ pc' = [pc EXCEPT ![c] = "take_id"]
                               /\ UNCHANGED id
               [] o \in {"get_jobs", "istoric"} ->
                               /\ pc' = [pc EXCEPT ![c] = "count"]
                               /\ UNCHANGED id
               [] o = "other" -> /\ pc' = [pc EXCEPT ![c] = "close"]
                                 /\ UNCHANGED id
               [] OTHER -> \E i \in Nameable :
                               /\ id' = [id EXCEPT ![c] = i]
                               /\ pc' = [pc EXCEPT ![c] = "check"]
    BY <1>2 DEF Receive
  <2>3. CASE o \in {"run", "get_jobs", "istoric", "other"}
    <3>1. /\ pc'[c] \in {"take_id", "count", "close"} /\ op'[c] = o
          /\ o = "run" => pc'[c] = "take_id"
      BY <1>0, <2>2, <2>3
    <3> QED BY <2>1, <3>1 DEF Answered
  <2>4. CASE o \notin {"run", "get_jobs", "istoric", "other"}
    <3>1. PICK i \in Nameable : /\ id' = [id EXCEPT ![c] = i]
                                /\ pc' = [pc EXCEPT ![c] = "check"]
      BY <2>2, <2>4
    <3>2. PICK d \in Clients : op[d] = "run" /\ reply[d] = "ok" /\ i = id[d]
      BY <3>1 DEF Nameable, Told
    <3>3. jobs[i].pid # None
      BY <3>2 DEF AnsweredInv, Answered
    <3>4. id'[c] = i /\ pc'[c] = "check" /\ op'[c] = o
      BY <1>0, <2>2, <3>1
    <3> QED BY <2>1, <2>4, <3>3, <3>4 DEF Answered
  <2> QED BY <2>3, <2>4
<1>3. CASE TakeId(c) \/ Reserve(c) \/ Fill(c) \/ Fork(c)
  <2>1. /\ pc[c] \in {"take_id", "reserve", "fill", "fork"}
        /\ pc'[c] \in {"reserve", "fill", "fork", "record"}
        /\ UNCHANGED <<op, reply>>
    BY <1>0, <1>3 DEF TakeId, Reserve, Fill, Fork, Goto
  <2> QED BY <1>0, <2>1 DEF Answered
<1>4. CASE Reject(c)
  <2>1. pc'[c] = "leaked" /\ reply'[c] = "error"
    BY <1>0, <1>4 DEF Reject, Goto
  <2> QED BY <2>1 DEF Answered
<1>5. ~ ForkFails(c)
  BY DEF ForkFails
<1>6. CASE Record(c)
  <2>1. /\ pc[c] = "record" /\ pc'[c] = "post" /\ UNCHANGED <<op, id, reply>>
        /\ jobs' = [jobs EXCEPT ![id[c]].pid = pid[c]]
    BY <1>0, <1>6 DEF Record, Goto
  <2>2. pid[c] \in Pids /\ op[c] = "run" /\ id[c] \in JobIds
    BY <1>0, <2>1 DEF Fits
  <2>3. jobs'[id[c]].pid = pid[c]
    BY <2>1, <2>2 DEF FateContext, TableTypes
  <2> QED BY <1>0, <2>1, <2>2, <2>3 DEF Answered
<1>7. CASE Post(c)
  <2>1. pc[c] = "post" /\ pc'[c] = "close" /\ UNCHANGED <<op, id, jobs>>
    BY <1>0, <1>7 DEF Post, Goto
  <2> QED BY <1>0, <2>1 DEF Answered
<1>8. CASE GetStatus(c)
  <2>1. pc[c] = "check" /\ op[c] = "get_status" /\ UNCHANGED op
    BY <1>8 DEF GetStatus
  <2>2. pc'[c] = "read_status"
    BY <1>0, <1>8, <2>1 DEF GetStatus, Goto, Answered
  <2> QED BY <2>1, <2>2 DEF Answered
<1>9. CASE \/ ReadStatus(c) \/ KillJob(c) \/ GetOutput(c) \/ SendOutput(c)
           \/ CountJobs(c) \/ ListJobs(c)
  <2>1. /\ pc[c] \in {"read_status", "check", "send_output", "count", "list"}
        /\ pc'[c] \in {"close", "send_output", "list"} /\ UNCHANGED op
    BY <1>0, <1>9 DEF ReadStatus, KillJob, GetOutput, SendOutput, CountJobs,
                      ListJobs, Goto
  <2>2. op[c] # "run"
    BY <1>0, <2>1 DEF Fits, Queries, Listings
  <2> QED BY <2>1, <2>2 DEF Answered
<1>10. CASE Close(c)
  <2>1. pc[c] = "close" /\ pc'[c] = "done" /\ UNCHANGED <<op, id, jobs, reply>>
    BY <1>0, <1>10 DEF Close, Goto, tableVars
  <2> QED BY <1>0, <2>1 DEF Answered
<1> QED BY <1>1, <1>2, <1>3, <1>4, <1>5, <1>6, <1>7, <1>8, <1>9, <1>10

LEMMA NextKeepsAnswered ==
    ASSUME Honest = TRUE, ForkMayFail = FALSE, JobInv, JobInv', [Next]_vars,
           AnsweredInv
    PROVE  AnsweredInv'
<1>0. FateContext /\ HandlerTypes' /\ reply \in [Clients -> Replies]
  BY DEF JobInv, FateContext, AnswerTypes
<1>1. CASE UNCHANGED <<pc, op, id, pid, nr, reply, listed, id_seed>>
  BY <1>0, <1>1, OthersAnswered DEF AnsweredInv
<1>2. ASSUME NEW c \in Clients,
             \/ CreateThread(c)
             \/ Receive(c) \/ TakeId(c) \/ Reserve(c) \/ Reject(c) \/ Fill(c)
             \/ Fork(c) \/ ForkFails(c) \/ Record(c) \/ Post(c) \/ GetStatus(c)
             \/ ReadStatus(c) \/ KillJob(c) \/ GetOutput(c) \/ SendOutput(c)
             \/ CountJobs(c) \/ ListJobs(c) \/ Close(c)
      PROVE  AnsweredInv'
  <2>1. Answered(c)'
    BY <1>0, <1>2, StepAnswered
  <2>2. \A d \in Clients \ {c} : UNCHANGED <<pc[d], op[d], id[d], pid[d]>>
    BY <1>0, <1>2, OnlyItsOwn DEF FateContext
  <2>3. UNCHANGED reply \/ \E r : reply' = [reply EXCEPT ![c] = r]
    BY <1>2 DEF CreateThread, Receive, TakeId, Reserve, Reject, Fill, Fork,
         ForkFails, Record, Post, GetStatus, ReadStatus, KillJob, GetOutput,
         SendOutput, CountJobs, ListJobs, Close
  <2>4. \A d \in Clients \ {c} : reply'[d] = reply[d]
    BY <1>0, <2>3
  <2>5. ASSUME NEW d \in Clients, d # c PROVE Answered(d)'
    BY <1>0, <2>2, <2>4, <2>5, OthersAnswered
  <2> QED BY <2>1, <2>5 DEF AnsweredInv
<1> QED BY <1>1, <1>2, Steps, OthersLeaveHandlers

(* When clients name only ids they were told and fork does not fail, no    *)
(* handler locks jobs_mutex a second time.                                 *)
THEOREM HonestNeverStuck ==
    ASSUME Honest = TRUE, ForkMayFail = FALSE
    PROVE  Spec => []NeverStuck
<1>1. Init => AnsweredInv
  BY DEF Init, AnsweredInv, Answered
<1>2. JobInv /\ AnsweredInv /\ [Next]_vars /\ JobInv' => AnsweredInv'
  BY NextKeepsAnswered
<1>3. AnsweredInv => NeverStuck
  BY DEF AnsweredInv, Answered, NeverStuck
<1> QED BY JobInvariant, <1>1, <1>2, <1>3, PTL DEF Spec
=============================================================================
