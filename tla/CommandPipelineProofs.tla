----------------------- MODULE CommandPipelineProofs ------------------------
(***************************************************************************)
(* Proofs about CommandPipeline for any number of children, workers and    *)
(* commands, any size of the list and any lengths of the commands.  One    *)
(* invariant counts: semaphores, threads and entries.  The other, for pids *)
(* of five digits, follows the commands through the pipe: what has come    *)
(* through and what is still in the pipe stand, one after the other, for   *)
(* the commands written so far, each once and those of a child in order.   *)
(***************************************************************************)
EXTENDS CommandPipeline, CountingLemmas

Unit      == Children \X Nat \X Nat
Entry     == [1 .. ReadLen -> Unit \cup {None}]
MainPlace == {"room", "read", "add", "post", "wake", "join", "end"}
Places    == {"test", "wait", "retest", "take", "give", "exit"}

ChildTypes ==
    /\ msgLen \in [Children -> MsgLens]
    /\ sent \in [Children -> 0 .. PerChild]
    /\ exited \subseteq Children
    /\ \A c \in exited : sent[c] = PerChild

ListTypes ==
    /\ pipe \in Seq(Unit)
    /\ buffer \in Entry
    /\ comands_list \in Seq(Entry)
    /\ taken \in Seq(Entry)

ThreadTypes ==
    /\ main \in MainPlace
    /\ reads \in Nat
    /\ take_commands \in Nat
    /\ add_commands \in Nat
    /\ finished \in {0, 1}
    /\ pc \in [Workers -> Places]

TypeInv == ChildTypes /\ ListTypes /\ ThreadTypes

(* Where main is tells how far it has come, and what it has read is in the *)
(* list or was taken from it.                                              *)
MainInv ==
    /\ reads <= Total
    /\ main \in {"read", "add", "post"} => reads < Total
    /\ main \in {"wake", "join", "end"} <=> finished = 1
    /\ finished = 1 => reads = Total
    /\ Len(taken) + Len(comands_list) = reads + One(main = "post")

(* The semaphores, as long as main posts one for each entry and after.     *)
SemInv ==
    /\ SemaphoresExact
    /\ finished = 1 =>
          add_commands <= Total + (IF main = "wake" THEN 0 ELSE Cardinality(Workers))

CountInv == MainInv /\ SemInv

-----------------------------------------------------------------------------
(* There are finitely many children and workers.                           *)
LEMMA Finitely ==
    /\ Cardinality(Children) \in Nat /\ Cardinality(Workers) \in Nat
    /\ IsFiniteSet(Children) /\ IsFiniteSet(Workers)
    /\ PerChild \in Nat /\ PerChild > 0
    /\ MaxCommands \in Nat /\ ReadLen \in Nat /\ ReadLen > 0
    /\ Total \in Nat
<1>1. Cardinality(Children) \in Nat /\ Cardinality(Workers) \in Nat
  BY FS_CardinalityType, PipelineAssumption
<1>2. \A x, y \in Nat : x * y \in Nat
  OBVIOUS
<1> QED BY <1>1, <1>2, PipelineAssumption DEF Total

(* Every step is one of these.                                             *)
LEMMA PipelineSteps ==
    ASSUME [Next]_vars
    PROVE  \/ \E c \in Children : ChildWrite(c) \/ ChildExit(c)
           \/ MainRoom \/ MainRead \/ MainAdd \/ MainPost
           \/ MainFinish \/ MainWake \/ MainJoin
           \/ \E w \in Workers : \/ WorkerTest(w) \/ WorkerWait(w)
                                 \/ WorkerRetest(w) \/ WorkerTake(w)
                                 \/ WorkerGive(w)
           \/ UNCHANGED vars
BY DEF Next, ChildStep, MainStep, WorkerStep

(* A command is a sequence of units.                                       *)
LEMMA CommandUnits ==
    ASSUME NEW c \in Children, NEW n \in Nat, NEW len \in Nat
    PROVE  /\ Command(c, n, len) \in Seq(Unit)
           /\ Len(Command(c, n, len)) = len
           /\ \A k \in 1 .. len : Command(c, n, len)[k] = <<c, n, k>>
<1>1. Command(c, n, len) \in [1 .. len -> Unit]
  BY DEF Command, Unit
<1>2. Command(c, n, len) \in Seq(Unit) /\ Len(Command(c, n, len)) = len
  BY <1>1
<1>3. \A k \in 1 .. len : Command(c, n, len)[k] = <<c, n, k>>
  BY DEF Command
<1> QED BY <1>2, <1>3

(* How much main reads.                                                    *)
LEMMA ReadSize ==
    ASSUME ListTypes
    PROVE  LET got == Min({ReadLen, Len(pipe)})
           IN  got \in Nat /\ got <= ReadLen /\ got <= Len(pipe)
               /\ (Len(pipe) >= ReadLen => got = ReadLen)
<1>1. Len(pipe) \in Nat
  BY DEF ListTypes
<1>2. {ReadLen, Len(pipe)} \in SUBSET Nat /\ {ReadLen, Len(pipe)} # {}
  BY <1>1, Finitely
<1>3. /\ Min({ReadLen, Len(pipe)}) \in {ReadLen, Len(pipe)}
      /\ \A y \in {ReadLen, Len(pipe)} : Min({ReadLen, Len(pipe)}) <= y
  BY <1>2, MinIsLeast
<1> QED BY <1>1, <1>3, Finitely

(* Every step keeps the types of what the children have done.              *)
LEMMA NextKeepsChildTypes ==
    ASSUME TypeInv, [Next]_vars PROVE ChildTypes'
<1>1. CASE UNCHANGED childVars
  BY <1>1 DEF TypeInv, ChildTypes, childVars
<1>2. ASSUME NEW c \in Children, ChildWrite(c) PROVE ChildTypes'
  <2>1. /\ sent[c] < PerChild /\ sent' = [sent EXCEPT ![c] = @ + 1]
        /\ msgLen' = msgLen /\ exited' = exited
    BY <1>2 DEF ChildWrite
  <2>2. sent[c] + 1 \in 0 .. PerChild
    BY <2>1, Finitely DEF TypeInv, ChildTypes
  <2>3. c \notin exited
    BY <2>1, Finitely DEF TypeInv, ChildTypes
  <2> QED BY <2>1, <2>2, <2>3 DEF TypeInv, ChildTypes
<1>3. ASSUME NEW c \in Children, ChildExit(c) PROVE ChildTypes'
  BY <1>3 DEF ChildExit, TypeInv, ChildTypes
<1>4. CASE UNCHANGED vars
  BY <1>1, <1>4 DEF vars, childVars
<1>5. ASSUME \/ MainRoom \/ MainRead \/ MainAdd \/ MainPost
             \/ MainFinish \/ MainWake \/ MainJoin
      PROVE  UNCHANGED childVars
  BY <1>5 DEF MainRoom, MainRead, ReadAtMost, MainAdd, MainPost, MainFinish,
              MainWake, MainJoin
<1>6. ASSUME NEW w \in Workers,
             \/ WorkerTest(w) \/ WorkerWait(w) \/ WorkerRetest(w)
             \/ WorkerTake(w) \/ WorkerGive(w)
      PROVE  UNCHANGED childVars
  BY <1>6 DEF WorkerTest, WorkerWait, WorkerRetest, WorkerTake, WorkerGive
<1> QED BY <1>1, <1>2, <1>3, <1>4, <1>5, <1>6, PipelineSteps

(* Every step keeps the types of the sequences.                            *)
LEMMA NextKeepsListTypes ==
    ASSUME TypeInv, [Next]_vars PROVE ListTypes'
<1>0. /\ pipe \in Seq(Unit) /\ buffer \in Entry
      /\ comands_list \in Seq(Entry) /\ taken \in Seq(Entry)
  BY DEF TypeInv, ListTypes
<1> HIDE DEF Entry, Unit
<1>1. CASE UNCHANGED <<pipe, buffer, comands_list, taken>>
  BY <1>0, <1>1 DEF ListTypes
<1>2. ASSUME NEW c \in Children, ChildWrite(c) PROVE ListTypes'
  <2>1. /\ pipe' = pipe \o Command(c, sent[c] + 1, msgLen[c])
        /\ UNCHANGED <<buffer, comands_list, taken>>
    BY <1>2 DEF ChildWrite, mainVars
  <2>2. sent[c] + 1 \in Nat /\ msgLen[c] \in Nat
    <3>1. msgLen[c] \in MsgLens /\ sent[c] \in 0 .. PerChild
      BY DEF TypeInv, ChildTypes
    <3>2. MsgLens \subseteq Nat
      BY PipelineAssumption
    <3>3. \A x \in 0 .. PerChild : x + 1 \in Nat
      BY Finitely
    <3>4. sent[c] + 1 \in Nat
      BY <3>1, <3>3
    <3>5. msgLen[c] \in Nat
      BY <3>1, <3>2
    <3> QED BY <3>4, <3>5
  <2>3. Command(c, sent[c] + 1, msgLen[c]) \in Seq(Unit)
    BY <2>2, CommandUnits
  <2>4. pipe' \in Seq(Unit)
    <3>1. PICK m \in Seq(Unit) : m = Command(c, sent[c] + 1, msgLen[c])
      BY <2>3
    <3>2. pipe \o m \in Seq(Unit)
      BY <1>0, ConcatProperties
    <3> QED BY <2>1, <3>1, <3>2
  <2> QED BY <1>0, <2>1, <2>4 DEF ListTypes
<1>3. CASE MainRead
  <2>1. PICK got \in Nat :
          /\ got <= ReadLen /\ got <= Len(pipe)
          /\ buffer' = [k \in 1 .. ReadLen |->
                           IF k <= got THEN pipe[k] ELSE buffer[k]]
          /\ pipe' = SubSeq(pipe, got + 1, Len(pipe))
          /\ UNCHANGED <<comands_list, taken>>
    BY <1>3, ReadSize DEF MainRead, ReadAtMost, TypeInv
  <2>2. Len(pipe) \in Nat /\ \A k \in 1 .. Len(pipe) : pipe[k] \in Unit
    BY <1>0
  <2>3. \A k \in 1 .. ReadLen : buffer'[k] \in Unit \cup {None}
    <3> TAKE k \in 1 .. ReadLen
    <3>1. CASE k <= got
      <4>1. k \in 1 .. Len(pipe)
        BY <2>1, <2>2, <3>1, Finitely
      <4> QED BY <2>1, <2>2, <3>1, <4>1
    <3>2. CASE ~ (k <= got)
      BY <1>0, <2>1, <3>2 DEF Entry
    <3> QED BY <3>1, <3>2
  <2>4. buffer' \in Entry
    <3>1. DOMAIN buffer' = 1 .. ReadLen
          /\ buffer' = [k \in DOMAIN buffer' |-> buffer'[k]]
      BY <2>1
    <3> QED BY <2>3, <3>1 DEF Entry
  <2>5. pipe' \in Seq(Unit)
    <3>1. \A i \in got + 1 .. Len(pipe) : pipe[i] \in Unit
      BY <2>1, <2>2
    <3> QED BY <2>1, <2>2, <3>1, SubSeqProperties
  <2> QED BY <1>0, <2>1, <2>4, <2>5 DEF ListTypes
<1>4. CASE MainAdd
  <2>1. /\ comands_list' = Append(comands_list, buffer)
        /\ UNCHANGED <<pipe, buffer, taken>>
    BY <1>4 DEF MainAdd
  <2> QED BY <1>0, <2>1, AppendProperties DEF ListTypes
<1>5. ASSUME NEW w \in Workers, WorkerTake(w) PROVE ListTypes'
  <2>1. /\ comands_list # <<>> /\ taken' = Append(taken, Head(comands_list))
        /\ comands_list' = Tail(comands_list) /\ UNCHANGED <<pipe, buffer>>
    BY <1>5 DEF WorkerTake, mainVars
  <2>2. Head(comands_list) \in Entry /\ Tail(comands_list) \in Seq(Entry)
    BY <1>0, <2>1, HeadTailProperties
  <2>3. taken' \in Seq(Entry)
    BY <1>0, <2>1, <2>2, AppendProperties
  <2> QED BY <1>0, <2>1, <2>2, <2>3 DEF ListTypes
<1>6. ASSUME NEW c \in Children, ChildExit(c)
      PROVE  UNCHANGED <<pipe, buffer, comands_list, taken>>
  BY <1>6 DEF ChildExit, mainVars
<1>7. ASSUME \/ MainRoom \/ MainPost \/ MainFinish \/ MainWake \/ MainJoin
             \/ UNCHANGED vars
      PROVE  UNCHANGED <<pipe, buffer, comands_list, taken>>
  BY <1>7 DEF MainRoom, MainPost, MainFinish, MainWake, MainJoin, vars
<1>8. ASSUME NEW w \in Workers,
             WorkerTest(w) \/ WorkerWait(w) \/ WorkerRetest(w) \/ WorkerGive(w)
      PROVE  UNCHANGED <<pipe, buffer, comands_list, taken>>
  BY <1>8 DEF WorkerTest, WorkerWait, WorkerRetest, WorkerGive, mainVars
<1> QED BY <1>1, <1>2, <1>3, <1>4, <1>5, <1>6, <1>7, <1>8, PipelineSteps

(* Every step keeps the types of the places, the counters and semaphores.  *)
LEMMA NextKeepsThreadTypes ==
    ASSUME TypeInv, [Next]_vars PROVE ThreadTypes'
<1>0. ThreadTypes /\ Cardinality(Workers) \in Nat
  BY Finitely DEF TypeInv
<1>1. ASSUME NEW c \in Children, ChildWrite(c) \/ ChildExit(c)
      PROVE  ThreadTypes'
  BY <1>0, <1>1 DEF ChildWrite, ChildExit, ThreadTypes, mainVars
<1>2. ASSUME \/ MainRoom \/ MainRead \/ MainAdd \/ MainPost
             \/ MainFinish \/ MainWake \/ MainJoin
      PROVE  ThreadTypes'
  BY <1>0, <1>2 DEF MainRoom, MainRead, ReadAtMost, MainAdd, MainPost,
       MainFinish, MainWake, MainJoin, MainGoto, MainPlace, ThreadTypes
<1>3. ASSUME NEW w \in Workers,
             \/ WorkerTest(w) \/ WorkerWait(w) \/ WorkerRetest(w)
             \/ WorkerTake(w) \/ WorkerGive(w)
      PROVE  ThreadTypes'
  <2>1. \E q \in Places : pc' = [pc EXCEPT ![w] = q]
    BY <1>3 DEF WorkerTest, WorkerWait, WorkerRetest, WorkerTake, WorkerGive,
                Goto, Places
  <2>2. pc' \in [Workers -> Places]
    BY <1>0, <2>1 DEF ThreadTypes
  <2>3. UNCHANGED <<main, reads, finished>>
    BY <1>3 DEF WorkerTest, WorkerWait, WorkerRetest, WorkerTake, WorkerGive,
                mainVars
  <2>4. take_commands' \in Nat /\ add_commands' \in Nat
    BY <1>0, <1>3 DEF WorkerTest, WorkerWait, WorkerRetest, WorkerTake,
                      WorkerGive, ThreadTypes
  <2> QED BY <1>0, <2>2, <2>3, <2>4 DEF ThreadTypes
<1>4. CASE UNCHANGED vars
  BY <1>0, <1>4 DEF vars, ThreadTypes
<1> QED BY <1>1, <1>2, <1>3, <1>4, PipelineSteps

(* The types are an invariant.                                             *)
LEMMA PipelineTypes == Spec => []TypeInv
<1>1. Init => TypeInv
  <2> SUFFICES ASSUME Init PROVE TypeInv
    OBVIOUS
  <2>1. ChildTypes
    BY Finitely DEF Init, ChildTypes
  <2>2. ListTypes
    <3>1. buffer \in Entry
      BY DEF Init, Entry
    <3>2. pipe \in Seq(Unit) /\ comands_list \in Seq(Entry) /\ taken \in Seq(Entry)
      BY EmptySeq DEF Init
    <3> QED BY <3>1, <3>2 DEF ListTypes
  <2>3. ThreadTypes
    BY Finitely DEF Init, ThreadTypes, MainPlace, Places
  <2> QED BY <2>1, <2>2, <2>3 DEF TypeInv
<1>2. TypeInv /\ [Next]_vars => TypeInv'
  BY NextKeepsChildTypes, NextKeepsListTypes, NextKeepsThreadTypes DEF TypeInv
<1> QED BY <1>1, <1>2, PTL DEF Spec

-----------------------------------------------------------------------------
Takers   == WorkersAt({"take"})
Givers   == WorkersAt({"give"})
Admitted == WorkersAt({"retest", "take"})

(* How the sets of workers change when one of them goes on.                *)
LEMMA WorkerCounts ==
    ASSUME NEW w \in Workers, \A v \in Workers \ {w} : pc'[v] = pc[v]
    PROVE  /\ Cardinality(Takers') = Cardinality(Takers)
                + (IF pc'[w] = "take" THEN 1 ELSE 0)
                - (IF pc[w] = "take" THEN 1 ELSE 0)
           /\ Cardinality(Givers') = Cardinality(Givers)
                + (IF pc'[w] = "give" THEN 1 ELSE 0)
                - (IF pc[w] = "give" THEN 1 ELSE 0)
           /\ Cardinality(Admitted') = Cardinality(Admitted)
                + (IF pc'[w] \in {"retest", "take"} THEN 1 ELSE 0)
                - (IF pc[w] \in {"retest", "take"} THEN 1 ELSE 0)
<1>0. IsFiniteSet(Workers)
  BY PipelineAssumption
<1>1. /\ Takers \in SUBSET Workers /\ Takers' \in SUBSET Workers
      /\ \A v \in Workers : v # w => (v \in Takers <=> v \in Takers')
      /\ w \in Takers' <=> pc'[w] = "take"
      /\ w \in Takers <=> pc[w] = "take"
  BY DEF Takers, WorkersAt
<1>2. /\ Givers \in SUBSET Workers /\ Givers' \in SUBSET Workers
      /\ \A v \in Workers : v # w => (v \in Givers <=> v \in Givers')
      /\ w \in Givers' <=> pc'[w] = "give"
      /\ w \in Givers <=> pc[w] = "give"
  BY DEF Givers, WorkersAt
<1>3. /\ Admitted \in SUBSET Workers /\ Admitted' \in SUBSET Workers
      /\ \A v \in Workers : v # w => (v \in Admitted <=> v \in Admitted')
      /\ w \in Admitted' <=> pc'[w] \in {"retest", "take"}
      /\ w \in Admitted <=> pc[w] \in {"retest", "take"}
  BY DEF Admitted, WorkersAt
<1>4. Cardinality(Takers') = Cardinality(Takers)
                + (IF w \in Takers' THEN 1 ELSE 0) - (IF w \in Takers THEN 1 ELSE 0)
  BY <1>0, <1>1, MovedSize
<1>5. Cardinality(Givers') = Cardinality(Givers)
                + (IF w \in Givers' THEN 1 ELSE 0) - (IF w \in Givers THEN 1 ELSE 0)
  BY <1>0, <1>2, MovedSize
<1>6. Cardinality(Admitted') = Cardinality(Admitted)
                + (IF w \in Admitted' THEN 1 ELSE 0)
                - (IF w \in Admitted THEN 1 ELSE 0)
  BY <1>0, <1>3, MovedSize
<1> QED BY <1>1, <1>2, <1>3, <1>4, <1>5, <1>6

LEMMA WorkerSizes ==
    /\ Cardinality(Takers) \in Nat /\ Cardinality(Givers) \in Nat
    /\ Cardinality(Admitted) \in Nat
    /\ Cardinality(Takers) <= Cardinality(Admitted)
    /\ Cardinality(Takers') <= Cardinality(Admitted')
<1>1. /\ IsFiniteSet(Takers) /\ IsFiniteSet(Givers) /\ IsFiniteSet(Admitted)
  BY PipelineAssumption, FS_Subset DEF Takers, Givers, Admitted, WorkersAt
<1>2. Takers \subseteq Admitted /\ Takers' \subseteq Admitted'
  BY DEF Takers, Admitted, WorkersAt
<1>3. IsFiniteSet(Admitted')
  BY PipelineAssumption, FS_Subset DEF Admitted, WorkersAt
<1> QED BY <1>1, <1>2, <1>3, FS_Subset, FS_CardinalityType

(* The invariant in terms of these sets.                                   *)
Books ==
    /\ Cardinality(Takers) <= Len(comands_list)
    /\ take_commands + Len(comands_list) + One(main \in {"read", "add"})
         + Cardinality(Givers) = MaxCommands
    /\ finished = 0 => add_commands + Cardinality(Admitted) + One(main = "post")
                          = Len(comands_list)
    /\ finished = 1 =>
         add_commands <= Total + (IF main = "wake" THEN 0 ELSE Cardinality(Workers))

LEMMA CountMeaning ==
    /\ CountInv <=> MainInv /\ Books
    /\ CountInv' <=> MainInv' /\ Books'
BY DEF CountInv, SemInv, SemaphoresExact, Books, Takers, Givers, Admitted

(* Every step keeps the books of the semaphores.                           *)
LEMMA NextKeepsCounts ==
    ASSUME TypeInv, CountInv, [Next]_vars PROVE CountInv'
<1>1. /\ MainInv
      /\ main \in MainPlace /\ finished \in {0, 1} /\ reads \in Nat
      /\ take_commands \in Nat /\ add_commands \in Nat
      /\ Len(comands_list) \in Nat /\ Len(taken) \in Nat
      /\ Total \in Nat /\ Cardinality(Workers) \in Nat
  BY Finitely, CountMeaning DEF TypeInv, ListTypes, ThreadTypes
<1>2. /\ Cardinality(Takers) \in Nat /\ Cardinality(Givers) \in Nat
      /\ Cardinality(Admitted) \in Nat
      /\ Cardinality(Takers) <= Cardinality(Admitted)
  BY WorkerSizes
<1>3. pc' = pc => Takers' = Takers /\ Givers' = Givers /\ Admitted' = Admitted
  BY DEF Takers, Givers, Admitted, WorkersAt
<1>4. ASSUME UNCHANGED <<pc, main, reads, comands_list, take_commands,
                         add_commands, finished, taken>>
      PROVE  CountInv'
  BY <1>3, <1>4, CountMeaning DEF MainInv, Books
<1>5. ASSUME NEW c \in Children, ChildWrite(c) \/ ChildExit(c)
      PROVE  CountInv'
  BY <1>4, <1>5 DEF ChildWrite, ChildExit, mainVars
<1>6. CASE MainRoom \/ MainRead
  <2>1. CASE MainRoom
    <3>1. /\ UNCHANGED <<pc, reads, comands_list, add_commands, finished, taken>>
          /\ main = "room" /\ main' = "read" /\ reads < Total
          /\ take_commands' = take_commands - 1
      BY <2>1 DEF MainRoom, MainGoto
    <3> QED BY <1>1, <1>2, <1>3, <3>1, CountMeaning DEF MainInv, Books, One
  <2>2. CASE MainRead
    <3>1. /\ UNCHANGED <<pc, reads, comands_list, add_commands, finished, taken,
                         take_commands>>
          /\ main = "read" /\ main' = "add"
      BY <2>2 DEF MainRead, ReadAtMost, MainGoto
    <3> QED BY <1>1, <1>2, <1>3, <3>1, CountMeaning DEF MainInv, Books, One
  <2> QED BY <1>6, <2>1, <2>2
<1>7. CASE MainAdd
  <2>1. /\ UNCHANGED <<pc, reads, take_commands, add_commands, finished, taken>>
        /\ main = "add" /\ main' = "post"
        /\ comands_list' = Append(comands_list, buffer)
    BY <1>7 DEF MainAdd, MainGoto
  <2>2. Len(comands_list') = Len(comands_list) + 1
    BY <2>1 DEF TypeInv, ListTypes
  <2> HIDE <2>1
  <2>3. /\ UNCHANGED <<pc, reads, take_commands, add_commands, finished, taken>>
        /\ main = "add" /\ main' = "post"
    BY <2>1
  <2> QED BY <1>1, <1>2, <1>3, <2>2, <2>3, CountMeaning DEF MainInv, Books, One
<1>8. CASE MainPost
  <2>1. /\ UNCHANGED <<pc, comands_list, take_commands, finished, taken>>
        /\ main = "post" /\ main' = "room"
        /\ add_commands' = add_commands + 1 /\ reads' = reads + 1
    BY <1>8 DEF MainPost, MainGoto
  <2> QED BY <1>1, <1>2, <1>3, <2>1, CountMeaning DEF MainInv, Books, One
<1>9. CASE MainFinish
  <2>1. /\ UNCHANGED <<pc, comands_list, take_commands, add_commands, reads, taken>>
        /\ main = "room" /\ main' = "wake" /\ finished' = 1 /\ reads = Total
    BY <1>9 DEF MainFinish, MainGoto
  <2>2. finished = 0
    BY <1>1, <2>1 DEF MainInv
  <2> QED BY <1>1, <1>2, <1>3, <2>1, <2>2, CountMeaning DEF MainInv, Books, One
<1>10. CASE MainWake \/ MainJoin
  <2>1. CASE MainWake
    <3>1. /\ UNCHANGED <<pc, comands_list, take_commands, finished, reads, taken>>
          /\ main = "wake" /\ main' = "join"
          /\ add_commands' = add_commands + Cardinality(Workers)
      BY <2>1 DEF MainWake, MainGoto
    <3> QED BY <1>1, <1>2, <1>3, <3>1, CountMeaning DEF MainInv, Books, One
  <2>2. CASE MainJoin
    <3>1. /\ UNCHANGED <<pc, comands_list, take_commands, finished, reads, taken,
                         add_commands>>
          /\ main = "join" /\ main' = "end"
      BY <2>2 DEF MainJoin, MainGoto
    <3> QED BY <1>1, <1>2, <1>3, <3>1, CountMeaning DEF MainInv, Books, One
  <2> QED BY <1>10, <2>1, <2>2
<1>11. ASSUME NEW w \in Workers,
              \/ WorkerTest(w) \/ WorkerWait(w) \/ WorkerRetest(w)
              \/ WorkerTake(w) \/ WorkerGive(w)
       PROVE  CountInv'
  <2>1. \E q \in Places : pc' = [pc EXCEPT ![w] = q]
    BY <1>11 DEF WorkerTest, WorkerWait, WorkerRetest, WorkerTake, WorkerGive,
                 Goto, Places
  <2>2. \A v \in Workers \ {w} : pc'[v] = pc[v]
    BY <2>1 DEF TypeInv, ThreadTypes
  <2>3. /\ Cardinality(Takers') = Cardinality(Takers)
                + (IF pc'[w] = "take" THEN 1 ELSE 0)
                - (IF pc[w] = "take" THEN 1 ELSE 0)
        /\ Cardinality(Givers') = Cardinality(Givers)
                + (IF pc'[w] = "give" THEN 1 ELSE 0)
                - (IF pc[w] = "give" THEN 1 ELSE 0)
        /\ Cardinality(Admitted') = Cardinality(Admitted)
                + (IF pc'[w] \in {"retest", "take"} THEN 1 ELSE 0)
                - (IF pc[w] \in {"retest", "take"} THEN 1 ELSE 0)
    BY <2>2, WorkerCounts
  <2>4. UNCHANGED <<main, reads, finished>>
    BY <1>11 DEF WorkerTest, WorkerWait, WorkerRetest, WorkerTake, WorkerGive,
                 mainVars
  <2>5. CASE WorkerTest(w)
    <3>1. /\ pc[w] = "test" /\ pc'[w] \in {"exit", "wait"}
          /\ UNCHANGED <<comands_list, take_commands, add_commands, taken>>
      BY <2>5 DEF WorkerTest, Goto, TypeInv, ThreadTypes
    <3> QED BY <1>1, <1>2, <2>3, <2>4, <3>1, CountMeaning DEF MainInv, Books
  <2>6. CASE WorkerWait(w)
    <3>1. /\ pc[w] = "wait" /\ pc'[w] = "retest"
          /\ add_commands' = add_commands - 1
          /\ UNCHANGED <<comands_list, take_commands, taken>>
      BY <2>6 DEF WorkerWait, Goto, TypeInv, ThreadTypes
    <3> QED BY <1>1, <1>2, <2>3, <2>4, <3>1, CountMeaning DEF MainInv, Books
  <2>7. CASE WorkerRetest(w)
    <3>1. /\ pc[w] = "retest"
          /\ \/ finished = 1 /\ pc'[w] = "exit"
             \/ finished = 0 /\ pc'[w] = "take"
          /\ UNCHANGED <<comands_list, take_commands, add_commands, taken>>
      BY <2>7 DEF WorkerRetest, Goto, TypeInv, ThreadTypes
    <3>2. /\ Cardinality(Takers') <= Cardinality(Admitted')
      BY WorkerSizes
    <3>3. finished = 0 => Cardinality(Admitted') <= Len(comands_list)
      BY <1>1, <1>2, <2>3, <3>1, CountMeaning DEF Books, One
    <3> QED BY <1>1, <1>2, <2>3, <2>4, <3>1, <3>2, <3>3, CountMeaning DEF MainInv, Books
  <2>8. CASE WorkerTake(w)
    <3>1. /\ pc[w] = "take" /\ pc'[w] = "give"
          /\ UNCHANGED <<take_commands, add_commands>>
      BY <2>8 DEF WorkerTake, Goto, TypeInv, ThreadTypes
    <3>2. /\ comands_list # <<>> /\ taken' = Append(taken, Head(comands_list))
          /\ comands_list' = Tail(comands_list)
      BY <2>8 DEF WorkerTake
    <3>3. /\ Len(comands_list') = Len(comands_list) - 1
          /\ Len(taken') = Len(taken) + 1
      BY <3>2 DEF TypeInv, ListTypes
    <3> HIDE <3>2
    <3>4. /\ Cardinality(Takers') = Cardinality(Takers) - 1
          /\ Cardinality(Givers') = Cardinality(Givers) + 1
          /\ Cardinality(Admitted') = Cardinality(Admitted) - 1
      BY <1>2, <2>3, <3>1
    <3>5. MainInv'
      BY <1>1, <2>4, <3>3 DEF MainInv, One
    <3>6. Books /\ One(main \in {"read", "add"}) \in Nat /\ One(main = "post") \in Nat
      BY CountMeaning DEF One
    <3>7. Books'
      <4>1. /\ One(main' \in {"read", "add"}) = One(main \in {"read", "add"})
            /\ One(main' = "post") = One(main = "post")
            /\ finished' = finished /\ main' = main
            /\ take_commands' = take_commands /\ add_commands' = add_commands
        BY <2>4, <3>1
      <4>2. Cardinality(Takers') <= Len(comands_list')
        BY <1>1, <1>2, <3>3, <3>4, <3>6 DEF Books
      <4>3. take_commands' + Len(comands_list')
              + One(main' \in {"read", "add"}) + Cardinality(Givers')
              = MaxCommands
        BY <1>1, <1>2, <3>3, <3>4, <3>6, <4>1 DEF Books
      <4>4. finished' = 0 => add_commands' + Cardinality(Admitted')
                               + One(main' = "post") = Len(comands_list')
        <5>1. PICK x \in Nat, y \in Nat, z \in Nat, n \in Nat :
                /\ x = add_commands /\ y = Cardinality(Admitted)
                /\ z = One(main = "post") /\ n = Len(comands_list)
          BY <1>1, <1>2, <3>6
        <5>2. finished = 0 => x + y + z = n
          BY <3>6, <5>1 DEF Books
        <5>3. /\ add_commands' = x /\ Cardinality(Admitted') = y - 1
              /\ One(main' = "post") = z /\ Len(comands_list') = n - 1
              /\ finished' = finished
          BY <3>3, <3>4, <4>1, <5>1
        <5>4. x + y + z = n => x + (y - 1) + z = n - 1
          OBVIOUS
        <5> QED BY <5>2, <5>3, <5>4
      <4> QED BY <3>6, <4>1, <4>2, <4>3, <4>4 DEF Books
    <3> QED BY <3>5, <3>7, CountMeaning
  <2>9. CASE WorkerGive(w)
    <3>1. /\ pc[w] = "give" /\ pc'[w] = "test"
          /\ take_commands' = take_commands + 1
          /\ UNCHANGED <<comands_list, add_commands, taken>>
      BY <2>9 DEF WorkerGive, Goto, TypeInv, ThreadTypes
    <3>2. /\ Cardinality(Takers') = Cardinality(Takers)
          /\ Cardinality(Givers') = Cardinality(Givers) - 1
          /\ Cardinality(Admitted') = Cardinality(Admitted)
      BY <1>2, <2>3, <3>1
    <3>3. MainInv'
      BY <1>1, <2>4, <3>1 DEF MainInv
    <3>4. Books /\ One(main \in {"read", "add"}) \in Nat
      BY CountMeaning DEF One
    <3>5. Books'
      BY <1>1, <1>2, <2>4, <3>1, <3>2, <3>4 DEF Books
    <3> QED BY <3>3, <3>5, CountMeaning
  <2> QED BY <1>11, <2>5, <2>6, <2>7, <2>8, <2>9
<1>12. CASE UNCHANGED vars
  BY <1>4, <1>12 DEF vars
<1> QED BY <1>5, <1>6, <1>7, <1>8, <1>9, <1>10, <1>11, <1>12, PipelineSteps

LEMMA InitCounts == Init => CountInv
<1> SUFFICES ASSUME Init PROVE CountInv
  OBVIOUS
<1>1. Takers = {} /\ Givers = {} /\ Admitted = {}
  BY DEF Init, Takers, Givers, Admitted, WorkersAt
<1>2. Cardinality({}) = 0
  BY FS_EmptySet
<1>3. /\ main = "room" /\ reads = 0 /\ comands_list = <<>> /\ taken = <<>>
      /\ take_commands = MaxCommands /\ add_commands = 0 /\ finished = 0
      /\ Len(<<>>) = 0
  BY DEF Init
<1>4. MainInv
  BY <1>3, Finitely DEF MainInv, One
<1>5. Books
  BY <1>1, <1>2, <1>3, Finitely DEF Books, One
<1> QED BY <1>4, <1>5, CountMeaning

(* The semaphores say what is in the list, and main's loop where it is.    *)
THEOREM CountInvariant == Spec => []CountInv
<1>1. TypeInv /\ CountInv /\ [Next]_vars => CountInv'
  BY NextKeepsCounts
<1> QED BY InitCounts, PipelineTypes, <1>1, PTL DEF Spec

(* Type correctness; with it, main never passes the end of the list.       *)
THEOREM PipelineTypeCorrect == Spec => []TypeOK
<1>1. ASSUME TypeInv, CountInv PROVE TypeOK
  <2>1. Entries = Seq(Entry)
    BY DEF Entries, Entry, Unit
  <2>2. /\ MainInv /\ Books
        /\ main \in MainPlace /\ finished \in {0, 1} /\ reads \in Nat
        /\ take_commands \in Nat /\ add_commands \in Nat
        /\ Len(comands_list) \in Nat /\ Len(taken) \in Nat
        /\ Cardinality(Givers) \in Nat /\ Cardinality(Admitted) \in Nat
        /\ One(main \in {"read", "add"}) \in Nat
        /\ One(main = "post") \in {0, 1}
    BY <1>1, CountMeaning, WorkerSizes DEF TypeInv, ListTypes, ThreadTypes, One
  <2>3. Len(comands_list) <= MaxCommands /\ take_commands \in 0 .. MaxCommands
    BY <2>2, Finitely DEF Books
  <2>4. reads \in 0 .. Total
    BY <2>2, Finitely DEF MainInv
  <2>5. add_commands \in 0 .. Total + Cardinality(Workers)
    <3>1. CASE finished = 1
      BY <2>2, <3>1, Finitely DEF Books
    <3>2. CASE finished = 0
      <4>1. add_commands <= Len(comands_list)
        BY <2>2, <3>2 DEF Books
      <4>2. Len(comands_list) <= Total
        BY <2>2, Finitely DEF MainInv, One
      <4> QED BY <2>2, <4>1, <4>2, Finitely
    <3> QED BY <2>2, <3>1, <3>2
  <2>6. finished \in 0 .. 1
    BY <2>2
  <2> QED BY <1>1, <2>1, <2>3, <2>4, <2>5, <2>6
          DEF TypeOK, TypeInv, ChildTypes, ListTypes, ThreadTypes, MainPlace, Places
<1> QED BY CountInvariant, PipelineTypes, <1>1, PTL

-----------------------------------------------------------------------------
(* The sequence E stands for the commands written so far: E[i] is the child*)
(* and the number of the i-th.  The first have come through, the others    *)
(* are in the pipe, one behind the other.                                  *)
Numbered(E) ==
    /\ E \in Seq(Children \X Nat)
    /\ \A i \in 1 .. Len(E) : E[i][2] \in 1 .. sent[E[i][1]]
    /\ \A i, j \in 1 .. Len(E) :
          i < j /\ E[i][1] = E[j][1] => E[i][2] < E[j][2]
    /\ \A c \in Children : \A n \in 1 .. sent[c] :
          \E i \in 1 .. Len(E) : E[i] = <<c, n>>

HasCome(E) ==
    /\ Len(Through) <= Len(E)
    /\ \A i \in 1 .. Len(Through) :
          Through[i] = Command(E[i][1], E[i][2], ReadLen)

InPipe(E) ==
    /\ Len(pipe) = (Len(E) - Len(Through)) * ReadLen
    /\ \A i \in 1 .. Len(E) - Len(Through) : \A k \in 1 .. ReadLen :
          pipe[(i - 1) * ReadLen + k]
             = <<E[Len(Through) + i][1], E[Len(Through) + i][2], k>>

StreamInv == FiveDigits => \E E : Numbered(E) /\ HasCome(E) /\ InPipe(E)

(* A sequence of one element.                                              *)
LEMMA Single ==
    ASSUME NEW S, NEW x \in S
    PROVE  <<x>> \in Seq(S) /\ Len(<<x>>) = 1 /\ <<x>>[1] = x
<1>1. <<x>> \in Seq(S)
  OBVIOUS
<1> QED BY <1>1

(* What has come through is a sequence of entries.                         *)
LEMMA ThroughType ==
    ASSUME TypeInv
    PROVE  /\ Through \in Seq(Entry) /\ Len(Through) \in Nat
           /\ Len(Through) = Len(taken) + Len(comands_list)
                               + One(main = "add")
<1>1. taken \in Seq(Entry) /\ comands_list \in Seq(Entry) /\ buffer \in Entry
  BY DEF TypeInv, ListTypes
<1> HIDE DEF Entry
<1>2. /\ taken \o comands_list \in Seq(Entry)
      /\ Len(taken \o comands_list) = Len(taken) + Len(comands_list)
  BY <1>1, ConcatProperties
<1>3. PICK X \in Seq(Entry) :
        /\ X = IF main = "add" THEN <<buffer>> ELSE <<>>
        /\ Len(X) = One(main = "add")
  <2>1. <<buffer>> \in Seq(Entry) /\ Len(<<buffer>>) = 1
    BY <1>1, Single
  <2>2. PICK e \in Seq(Entry) : e = <<>> /\ Len(e) = 0
    BY EmptySeq
  <2>3. CASE main = "add"
    BY <2>1, <2>3 DEF One
  <2>4. CASE main # "add"
    <3>1. e = IF main = "add" THEN <<buffer>> ELSE <<>>
      BY <2>2, <2>4
    <3>2. Len(e) = One(main = "add")
      BY <2>2, <2>4 DEF One
    <3> QED BY <3>1, <3>2
  <2> QED BY <2>3, <2>4
<1>4. PICK T \in Seq(Entry) :
        T = taken \o comands_list /\ Len(T) = Len(taken) + Len(comands_list)
  BY <1>2
<1>5. T \o X \in Seq(Entry) /\ Len(T \o X) = Len(T) + Len(X)
  BY ConcatProperties
<1>6. Through = T \o X
  BY <1>3, <1>4 DEF Through
<1>7. Len(Through) \in Nat
  BY <1>5, <1>6, LenProperties
<1> QED BY <1>3, <1>4, <1>5, <1>6, <1>7

(* Only a read brings an entry; the others pass entries on.                *)
LEMMA ThroughStays ==
    ASSUME TypeInv, [Next]_vars PROVE MainRead \/ Through' = Through
<1>0. taken \in Seq(Entry) /\ comands_list \in Seq(Entry) /\ buffer \in Entry
  BY DEF TypeInv, ListTypes
<1> HIDE DEF Entry
<1>1. ASSUME NEW c \in Children, ChildWrite(c) \/ ChildExit(c)
      PROVE  Through' = Through
  BY <1>1 DEF ChildWrite, ChildExit, mainVars, Through
<1>2. CASE MainRoom \/ MainPost \/ MainFinish \/ MainWake \/ MainJoin
  <2>1. /\ UNCHANGED <<taken, comands_list, buffer>>
        /\ main # "add" /\ main' # "add"
    BY <1>2 DEF MainRoom, MainPost, MainFinish, MainWake, MainJoin, MainGoto
  <2> QED BY <2>1 DEF Through
<1>3. CASE MainAdd
  <2>1. /\ taken' = taken /\ comands_list' = Append(comands_list, buffer)
        /\ main = "add" /\ main' = "post"
    BY <1>3 DEF MainAdd, MainGoto
  <2>2. Through = (taken \o comands_list) \o <<buffer>>
    BY <2>1 DEF Through
  <2>3. Through' = (taken \o Append(comands_list, buffer)) \o <<>>
    BY <2>1 DEF Through
  <2>4. PICK b \in Seq(Entry) : b = <<buffer>>
    BY <1>0, Single
  <2>5. Append(comands_list, buffer) = comands_list \o b
    <3>1. Append(comands_list, buffer) = comands_list \o <<buffer>>
      BY <1>0, AppendIsConcat
    <3> QED BY <2>4, <3>1
  <2>6. comands_list \o b \in Seq(Entry)
    BY <1>0, ConcatProperties
  <2>7. PICK l \in Seq(Entry) : l = comands_list \o b
    BY <2>6
  <2>8. taken \o l \in Seq(Entry)
    BY <1>0, ConcatProperties
  <2>9. (taken \o l) \o <<>> = taken \o l
    BY <2>8, ConcatEmptySeq
  <2>10. (taken \o comands_list) \o b = taken \o (comands_list \o b)
    BY <1>0, ConcatAssociative
  <2> QED BY <2>2, <2>3, <2>4, <2>5, <2>7, <2>9, <2>10
<1>4. ASSUME NEW w \in Workers, WorkerTake(w) PROVE Through' = Through
  <2>1. /\ comands_list # <<>> /\ taken' = Append(taken, Head(comands_list))
        /\ comands_list' = Tail(comands_list) /\ UNCHANGED <<buffer, main>>
    BY <1>4 DEF WorkerTake, mainVars
  <2>2. PICK h \in Entry, t \in Seq(Entry) :
           h = Head(comands_list) /\ t = Tail(comands_list)
    BY <1>0, <2>1, HeadTailProperties
  <2>3. PICK b \in Seq(Entry) : b = <<h>>
    BY <2>2, Single
  <2>4. comands_list = b \o t
    BY <1>0, <2>1, <2>2, <2>3
  <2>5. taken' = taken \o b
    BY <1>0, <2>1, <2>2, <2>3, AppendIsConcat
  <2>6. (taken \o b) \o t = taken \o (b \o t)
    BY <1>0, ConcatAssociative
  <2>7. taken' \o comands_list' = taken \o comands_list
    BY <2>1, <2>2, <2>4, <2>5, <2>6
  <2> QED BY <2>1, <2>7 DEF Through
<1>5. ASSUME NEW w \in Workers,
             WorkerTest(w) \/ WorkerWait(w) \/ WorkerRetest(w) \/ WorkerGive(w)
      PROVE  Through' = Through
  BY <1>5 DEF WorkerTest, WorkerWait, WorkerRetest, WorkerGive, mainVars, Through
<1>6. CASE UNCHANGED vars
  BY <1>6 DEF vars, Through
<1> QED BY <1>1, <1>2, <1>3, <1>4, <1>5, <1>6, PipelineSteps

(* Multiples of a length.                                                  *)
LEMMA Multiples ==
    /\ \A r \in Nat : 0 * r = 0 /\ (1 - 1) * r = 0
    /\ \A a, r \in Nat : a * r \in Nat /\ (a + 1) * r = a * r + r
    /\ \A a, b, r \in Nat : a <= b => a * r <= b * r
OBVIOUS

(* A step of a child, or of main when it does not read.                    *)
LEMMA StreamStays ==
    ASSUME NEW E, Numbered(E), HasCome(E), InPipe(E),
           Through' = Through, pipe' = pipe, sent' = sent
    PROVE  Numbered(E)' /\ HasCome(E)' /\ InPipe(E)'
BY DEF Numbered, HasCome, InPipe

(* A child writes: its command is the last to come.                        *)
LEMMA WriteNumbers ==
    ASSUME TypeInv, NEW E, Numbered(E), NEW c \in Children,
           sent' = [sent EXCEPT ![c] = @ + 1],
           NEW F, F = Append(E, <<c, sent[c] + 1>>)
    PROVE  Numbered(F)'
<1> DEFINE L == Len(E)
<1>1. /\ E \in Seq(Children \X Nat) /\ L \in Nat
      /\ \A d \in Children : sent[d] \in Nat
      /\ \A d \in Children : sent'[d] = IF d = c THEN sent[c] + 1 ELSE sent[d]
  BY Finitely DEF Numbered, TypeInv, ChildTypes
<1>2. <<c, sent[c] + 1>> \in Children \X Nat
  BY <1>1
<1>3. /\ F \in Seq(Children \X Nat) /\ Len(F) = L + 1
      /\ \A i \in 1 .. L : F[i] = E[i]
      /\ F[L + 1] = <<c, sent[c] + 1>>
  BY <1>1, <1>2, AppendProperties
<1>4. \A i \in 1 .. L : E[i] \in Children \X Nat
  BY <1>1
<1>5. \A i \in 1 .. L : E[i][1] \in Children /\ E[i][2] \in Nat
  BY <1>4
<1>6. \A i \in 1 .. L : E[i][2] \in 1 .. sent[E[i][1]]
  BY DEF Numbered
<1>7. \A i, j \in 1 .. L : i < j /\ E[i][1] = E[j][1] => E[i][2] < E[j][2]
  BY DEF Numbered
<1>8. \A d \in Children : \A n \in 1 .. sent[d] : \E i \in 1 .. L : E[i] = <<d, n>>
  BY DEF Numbered
<1>9. F[L + 1][1] = c /\ F[L + 1][2] = sent[c] + 1
  BY <1>3
<1>10. \A i \in 1 .. Len(F) : i \in 1 .. L \/ i = L + 1
  BY <1>1, <1>3
<1>11. sent[c] + 1 \in Nat /\ \A d \in Children : sent[d] <= sent'[d]
  BY <1>1
<1> HIDE DEF L
<1>12. \A i \in 1 .. Len(F) : F[i][2] \in 1 .. sent'[F[i][1]]
  <2> TAKE i \in 1 .. Len(F)
  <2>1. CASE i \in 1 .. L
    <3>1. PICK d \in Children, n \in Nat :
            d = E[i][1] /\ n = E[i][2] /\ n \in 1 .. sent[d]
      BY <1>5, <1>6, <2>1
    <3>2. F[i][1] = d /\ F[i][2] = n
      BY <1>3, <2>1, <3>1
    <3>3. n \in 1 .. sent'[d]
      BY <1>1, <3>1
    <3> QED BY <3>2, <3>3
  <2>2. CASE i = L + 1
    <3>1. PICK m \in Nat : m = sent[c] + 1
      BY <1>11
    <3>2. m \in 1 .. m
      BY <1>1, <3>1
    <3>3. F[i][2] = m /\ F[i][1] = c /\ sent'[c] = m
      BY <1>1, <1>9, <2>2, <3>1
    <3> QED BY <3>2, <3>3
  <2> QED BY <1>10, <2>1, <2>2
<1>13. \A i, j \in 1 .. Len(F) :
          i < j /\ F[i][1] = F[j][1] => F[i][2] < F[j][2]
  <2> SUFFICES ASSUME NEW i \in 1 .. Len(F), NEW j \in 1 .. Len(F),
                      i < j, F[i][1] = F[j][1]
               PROVE  F[i][2] < F[j][2]
    OBVIOUS
  <2>1. i \in 1 .. L
    BY <1>1, <1>3
  <2>2. CASE j \in 1 .. L
    BY <1>3, <1>7, <2>1, <2>2
  <2>3. CASE j = L + 1
    BY <1>1, <1>3, <1>5, <1>6, <1>9, <2>1, <2>3
  <2> QED BY <1>10, <2>2, <2>3
<1>14. \A d \in Children : \A n \in 1 .. sent'[d] :
          \E i \in 1 .. Len(F) : F[i] = <<d, n>>
  <2> SUFFICES ASSUME NEW d \in Children, NEW n \in 1 .. sent'[d]
               PROVE  \E i \in 1 .. Len(F) : F[i] = <<d, n>>
    OBVIOUS
  <2>1. CASE n \in 1 .. sent[d]
    <3>1. PICK i \in 1 .. L : E[i] = <<d, n>>
      BY <1>8, <2>1
    <3>2. i \in 1 .. Len(F) /\ F[i] = <<d, n>>
      BY <1>1, <1>3, <3>1
    <3> QED BY <3>2
  <2>2. CASE n \notin 1 .. sent[d]
    <3>1. d = c /\ n = sent[c] + 1
      BY <1>1, <2>2
    <3>2. L + 1 \in 1 .. Len(F)
      BY <1>1, <1>3
    <3> QED BY <1>3, <3>1, <3>2
  <2> QED BY <2>1, <2>2
<1>15. Numbered(F)'
  BY <1>3, <1>12, <1>13, <1>14 DEF Numbered
<1> QED BY <1>15

(* and its units are the last in the pipe.                                 *)
LEMMA WriteStream ==
    ASSUME TypeInv, FiveDigits, NEW E, Numbered(E), HasCome(E), InPipe(E),
           NEW c \in Children, ChildWrite(c), Through' = Through
    PROVE  \E F : Numbered(F)' /\ HasCome(F)' /\ InPipe(F)'
<1>0. PICK F : F = Append(E, <<c, sent[c] + 1>>)
  OBVIOUS
<1> DEFINE L == Len(E)
<1>1. /\ sent' = [sent EXCEPT ![c] = @ + 1]
      /\ pipe' = pipe \o Command(c, sent[c] + 1, ReadLen)
  BY DEF ChildWrite, FiveDigits
<1>2. Numbered(F)'
  BY <1>0, <1>1, WriteNumbers
<1>3. E \in Seq(Children \X Nat) /\ sent[c] + 1 \in Nat
  <2>1. sent[c] \in Nat
    BY Finitely DEF TypeInv, ChildTypes
  <2> QED BY <2>1 DEF Numbered
<1>4. /\ Len(F) = L + 1 /\ L \in Nat
      /\ \A i \in 1 .. L : F[i] = E[i]
      /\ F[L + 1] = <<c, sent[c] + 1>>
  <2>1. <<c, sent[c] + 1>> \in Children \X Nat
    BY <1>3
  <2> QED BY <1>0, <1>3, <2>1, AppendProperties, LenProperties
<1>5. PICK T \in Nat : /\ T = Len(Through) /\ T <= L
                      /\ Len(pipe) = (L - T) * ReadLen
  BY ThroughType DEF HasCome, InPipe
<1>6. PICK m \in Seq(Unit) :
        /\ m = Command(c, sent[c] + 1, ReadLen) /\ Len(m) = ReadLen
        /\ \A k \in 1 .. ReadLen : m[k] = <<c, sent[c] + 1, k>>
  BY <1>3, CommandUnits, Finitely
<1>7. pipe \in Seq(Unit) /\ Len(pipe) \in Nat
  BY DEF TypeInv, ListTypes
<1>8. /\ Len(pipe') = Len(pipe) + ReadLen
      /\ \A x \in 1 .. Len(pipe) : pipe'[x] = pipe[x]
      /\ \A k \in 1 .. ReadLen : pipe'[Len(pipe) + k] = m[k]
  <2>1. /\ Len(pipe \o m) = Len(pipe) + Len(m)
        /\ \A x \in 1 .. Len(pipe) + Len(m) : (pipe \o m)[x] =
               IF x <= Len(pipe) THEN pipe[x] ELSE m[x - Len(pipe)]
    BY <1>7, ConcatProperties
  <2>2. pipe' = pipe \o m
    BY <1>1, <1>6
  <2>3. \A x \in 1 .. Len(pipe) : pipe'[x] = pipe[x]
    BY <1>6, <1>7, <2>1, <2>2, Finitely
  <2>4. \A k \in 1 .. ReadLen : pipe'[Len(pipe) + k] = m[k]
    BY <1>6, <1>7, <2>1, <2>2, Finitely
  <2> QED BY <1>6, <2>1, <2>2, <2>3, <2>4
<1> HIDE DEF L
<1>9. HasCome(F)'
  <2>1. \A i \in 1 .. T : F[i] = E[i]
    BY <1>4, <1>5
  <2>2. T <= Len(F)
    BY <1>4, <1>5
  <2>3. \A i \in 1 .. T : Through[i] = Command(E[i][1], E[i][2], ReadLen)
    BY <1>5 DEF HasCome
  <2>4. \A i \in 1 .. T : Through[i] = Command(F[i][1], F[i][2], ReadLen)
    BY <2>1, <2>3
  <2> QED BY <1>5, <2>2, <2>4 DEF HasCome
<1>10. Len(pipe') = (Len(F) - T) * ReadLen
  <2>1. L - T \in Nat /\ Len(F) - T = (L - T) + 1
    BY <1>4, <1>5
  <2>2. (L - T + 1) * ReadLen = (L - T) * ReadLen + ReadLen
    BY <2>1, Multiples, Finitely
  <2> QED BY <1>5, <1>8, <2>1, <2>2
<1>11. ASSUME NEW i \in 1 .. Len(F) - T, NEW k \in 1 .. ReadLen
       PROVE  pipe'[(i - 1) * ReadLen + k] = <<F[T + i][1], F[T + i][2], k>>
  <2>1. L - T \in Nat /\ Len(F) - T = (L - T) + 1 /\ i \in Nat /\ i - 1 \in Nat
        /\ k \in Nat /\ 1 <= k /\ k <= ReadLen /\ ReadLen \in Nat
    BY <1>4, <1>5, Finitely
  <2>2. CASE i <= L - T
    <3>1. (i - 1) * ReadLen \in Nat /\ i * ReadLen = (i - 1) * ReadLen + ReadLen
      <4>1. ((i - 1) + 1) * ReadLen = (i - 1) * ReadLen + ReadLen
        BY <2>1, Multiples
      <4>2. (i - 1) + 1 = i
        BY <2>1
      <4> QED BY <2>1, <4>1, <4>2, Multiples
    <3>2. i * ReadLen <= (L - T) * ReadLen
      BY <2>1, <2>2, Multiples
    <3>3. (i - 1) * ReadLen + k \in 1 .. Len(pipe)
      BY <1>5, <1>7, <2>1, <3>1, <3>2
    <3>4. i \in 1 .. L - T
      BY <2>1, <2>2
    <3>5. pipe[(i - 1) * ReadLen + k] = <<E[T + i][1], E[T + i][2], k>>
      BY <1>5, <3>4 DEF InPipe, L
    <3>6. T + i \in 1 .. L
      BY <1>4, <1>5, <3>4
    <3>7. F[T + i] = E[T + i]
      BY <1>4, <3>6
    <3> QED BY <1>8, <3>3, <3>5, <3>7
  <2>3. CASE i = L - T + 1
    <3>1. i - 1 = L - T /\ T + i = L + 1
      BY <1>4, <1>5, <2>1, <2>3
    <3>2. (i - 1) * ReadLen = Len(pipe)
      BY <1>5, <3>1
    <3>3. pipe'[Len(pipe) + k] = <<c, sent[c] + 1, k>>
      BY <1>6, <1>8
    <3>4. F[T + i] = <<c, sent[c] + 1>>
      BY <1>4, <3>1
    <3>5. F[T + i][1] = c /\ F[T + i][2] = sent[c] + 1
      BY <3>4
    <3> QED BY <3>2, <3>3, <3>5
  <2> QED BY <2>1, <2>2, <2>3
<1>12. InPipe(F)'
  BY <1>5, <1>10, <1>11 DEF InPipe
<1> QED BY <1>2, <1>9, <1>12

(* When every child has written all its commands, there are Total of them. *)
LEMMA AllSent ==
    ASSUME NEW E, Numbered(E), \A c \in Children : sent[c] = PerChild
    PROVE  Len(E) = Total
<1>1. /\ E \in Seq(Children \X Nat) /\ Len(E) \in Nat
      /\ \A i \in 1 .. Len(E) : E[i] \in Children \X Nat
  BY DEF Numbered
<1>2. \A i \in 1 .. Len(E) : E[i] \in Children \X (1 .. PerChild)
  <2> TAKE i \in 1 .. Len(E)
  <2>1. PICK d \in Children, n \in Nat : E[i] = <<d, n>>
    <3>1. E[i] \in Children \X Nat
      BY <1>1
    <3> QED BY <3>1
  <2>2. E[i][2] \in 1 .. sent[E[i][1]]
    BY DEF Numbered
  <2>3. n \in 1 .. sent[d]
    BY <2>1, <2>2
  <2> QED BY <2>1, <2>3
<1>3. \A i, j \in 1 .. Len(E) : i # j => E[i] # E[j]
  <2> SUFFICES ASSUME NEW i \in 1 .. Len(E), NEW j \in 1 .. Len(E),
                      i # j, E[i] = E[j]
               PROVE  FALSE
    OBVIOUS
  <2>1. E[i][1] = E[j][1] /\ E[i][2] = E[j][2] /\ E[i][2] \in Nat
    BY <1>1
  <2>2. i < j => E[i][2] < E[j][2]
    BY <2>1 DEF Numbered
  <2>3. j < i => E[j][2] < E[i][2]
    BY <2>1 DEF Numbered
  <2> QED BY <1>1, <2>1, <2>2, <2>3
<1> DEFINE elements == {E[i] : i \in DOMAIN E}
<1>4. DOMAIN E = 1 .. Len(E)
  BY <1>1
<1>5. Cardinality(elements) = Len(E)
  BY <1>1, <1>3, <1>4, DistinctLength
<1>6. elements = Children \X (1 .. PerChild)
  <2>1. elements \subseteq Children \X (1 .. PerChild)
    BY <1>2, <1>4
  <2>2. ASSUME NEW c \in Children, NEW n \in 1 .. PerChild
        PROVE  <<c, n>> \in elements
    <3>1. \E i \in 1 .. Len(E) : E[i] = <<c, n>>
      BY DEF Numbered
    <3> QED BY <1>4, <3>1
  <2>3. Children \X (1 .. PerChild) \subseteq elements
    BY <2>2
  <2> QED BY <2>1, <2>3
<1>7. /\ IsFiniteSet(1 .. PerChild) /\ Cardinality(1 .. PerChild) = PerChild
      /\ IsFiniteSet(Children)
  BY IntervalSize, Finitely
<1>8. Cardinality(Children \X (1 .. PerChild))
        = Cardinality(Children) * Cardinality(1 .. PerChild)
  BY <1>7, FS_Product
<1> HIDE DEF elements
<1>9. Cardinality(Children) * PerChild = PerChild * Cardinality(Children)
  BY Finitely
<1> QED BY <1>5, <1>6, <1>7, <1>8, <1>9 DEF Total

(* Main reads: the first command of the pipe comes through.                *)
LEMMA ReadComes ==
    ASSUME TypeInv, ListTypes', MainRead
    PROVE  /\ Len(Through') = Len(Through) + 1
           /\ \A i \in 1 .. Len(Through) : Through'[i] = Through[i]
           /\ Through'[Len(Through) + 1] = buffer'
<1>1. /\ main = "read" /\ main' = "add"
      /\ UNCHANGED <<taken, comands_list>>
  BY DEF MainRead, ReadAtMost, MainGoto
<1>2. taken \in Seq(Entry) /\ comands_list \in Seq(Entry) /\ buffer' \in Entry
  BY DEF TypeInv, ListTypes
<1> HIDE DEF Entry
<1>3. PICK T \in Seq(Entry) : T = taken \o comands_list
  BY <1>2, ConcatProperties
<1>4. Through = T
  <2>1. Through = T \o <<>>
    BY <1>1, <1>3 DEF Through
  <2> QED BY <2>1, ConcatEmptySeq
<1>5. PICK b \in Seq(Entry) : b = <<buffer'>> /\ Len(b) = 1 /\ b[1] = buffer'
  BY <1>2, Single
<1>6. Through' = T \o b
  BY <1>1, <1>3, <1>5 DEF Through
<1>7. /\ Len(T \o b) = Len(T) + Len(b)
      /\ \A i \in 1 .. Len(T) + Len(b) :
            (T \o b)[i] = IF i <= Len(T) THEN T[i] ELSE b[i - Len(T)]
  BY ConcatProperties
<1>8. Len(T) \in Nat
  OBVIOUS
<1>9. \A i \in 1 .. Len(T) : (T \o b)[i] = T[i]
  BY <1>5, <1>7, <1>8
<1>10. (T \o b)[Len(T) + 1] = buffer'
  BY <1>5, <1>7, <1>8
<1> QED BY <1>4, <1>5, <1>6, <1>7, <1>9, <1>10

(* At a read, not everything written has come through.                     *)
LEMMA MoreToCome ==
    ASSUME TypeInv, MainInv, NEW E, Numbered(E), HasCome(E), InPipe(E), MainRead
    PROVE  Len(Through) < Len(E)
<1>1. main = "read" /\ (pipe # <<>> \/ exited = Children)
  BY DEF MainRead, ReadAtMost, MainGoto
<1>2. /\ Len(Through) \in Nat /\ Len(E) \in Nat /\ Len(Through) <= Len(E)
      /\ Len(pipe) \in Nat /\ pipe \in Seq(Unit)
  BY ThroughType DEF Numbered, HasCome, TypeInv, ListTypes
<1>3. Len(Through) < Total
  <2>1. Len(Through) = Len(taken) + Len(comands_list) + 0
    BY <1>1, ThroughType DEF One
  <2>2. /\ reads < Total /\ Len(taken) + Len(comands_list) = reads + 0
        /\ reads \in Nat
    BY <1>1 DEF MainInv, One, TypeInv, ThreadTypes
  <2> QED BY <1>2, <2>1, <2>2, Finitely DEF TypeInv, ListTypes
<1>4. CASE exited = Children
  <2>1. \A c \in Children : sent[c] = PerChild
    BY <1>4 DEF TypeInv, ChildTypes
  <2>2. Len(E) = Total
    BY <2>1, AllSent
  <2> QED BY <1>3, <2>2
<1>5. CASE pipe # <<>>
  <2>1. Len(pipe) # 0
    BY <1>2, <1>5, EmptySeq
  <2>2. Len(pipe) = (Len(E) - Len(Through)) * ReadLen
    BY DEF InPipe
  <2>3. Len(E) = Len(Through) => FALSE
    <3>1. ASSUME Len(E) = Len(Through) PROVE FALSE
      <4>1. Len(E) - Len(Through) = 0
        BY <1>2, <3>1
      <4>2. 0 * ReadLen = 0
        BY Multiples, Finitely
      <4> QED BY <2>1, <2>2, <4>1, <4>2
    <3> QED BY <3>1
  <2> QED BY <1>2, <2>3
<1> QED BY <1>1, <1>4, <1>5

LEMMA ReadStream ==
    ASSUME TypeInv, ListTypes', MainInv,
           NEW E, Numbered(E), HasCome(E), InPipe(E), MainRead
    PROVE  Numbered(E)' /\ HasCome(E)' /\ InPipe(E)'
<1>1. PICK T \in Nat, L \in Nat :
        /\ T = Len(Through) /\ L = Len(E) /\ T < L
        /\ Len(pipe) = (L - T) * ReadLen
  <2>1. Len(Through) < Len(E) /\ Len(Through) \in Nat
    BY MoreToCome, ThroughType
  <2>2. Len(E) \in Nat
    BY DEF Numbered
  <2>3. Len(pipe) = (Len(E) - Len(Through)) * ReadLen
    BY DEF InPipe
  <2> QED BY <2>1, <2>2, <2>3
<1>2. pipe \in Seq(Unit) /\ Len(pipe) \in Nat
  BY DEF TypeInv, ListTypes
<1>3. PICK d \in Nat : d = L - T - 1
  BY <1>1
<1>4. /\ Len(pipe) = d * ReadLen + ReadLen /\ d * ReadLen \in Nat
  <2>1. d + 1 = L - T
    BY <1>1, <1>3
  <2> QED BY <1>1, <2>1, Multiples, Finitely
<1>5. /\ buffer' = [k \in 1 .. ReadLen |-> IF k <= ReadLen THEN pipe[k] ELSE buffer[k]]
      /\ pipe' = SubSeq(pipe, ReadLen + 1, Len(pipe))
      /\ sent' = sent
  <2>1. Min({ReadLen, Len(pipe)}) = ReadLen
    <3>1. Len(pipe) >= ReadLen
      BY <1>2, <1>4, Finitely
    <3> QED BY <3>1, ReadSize DEF TypeInv
  <2> QED BY <2>1 DEF MainRead, ReadAtMost, childVars
<1>6. /\ Len(Through') = T + 1
      /\ \A i \in 1 .. T : Through'[i] = Through[i]
      /\ Through'[T + 1] = buffer'
  BY <1>1, ReadComes
<1>7. Numbered(E)'
  BY <1>5 DEF Numbered
<1>8. \A i \in 1 .. L - T : \A k \in 1 .. ReadLen :
         pipe[(i - 1) * ReadLen + k] = <<E[T + i][1], E[T + i][2], k>>
  BY <1>1 DEF InPipe
<1>9. buffer' = Command(E[T + 1][1], E[T + 1][2], ReadLen)
  <2>1. \A k \in 1 .. ReadLen : pipe[k] = <<E[T + 1][1], E[T + 1][2], k>>
    <3> TAKE k \in 1 .. ReadLen
    <3>1. 1 \in 1 .. L - T
      BY <1>1
    <3>2. pipe[(1 - 1) * ReadLen + k] = <<E[T + 1][1], E[T + 1][2], k>>
      BY <1>8, <3>1
    <3>3. (1 - 1) * ReadLen + k = k
      BY Multiples, Finitely
    <3> QED BY <3>2, <3>3
  <2>2. \A k \in 1 .. ReadLen : k <= ReadLen
    BY Finitely
  <2> QED BY <1>5, <2>1, <2>2 DEF Command
<1>10. HasCome(E)'
  <2>1. T + 1 <= L
    BY <1>1
  <2>2. \A i \in 1 .. T : Through[i] = Command(E[i][1], E[i][2], ReadLen)
    BY <1>1 DEF HasCome
  <2>3. \A i \in 1 .. T + 1 : i \in 1 .. T \/ i = T + 1
    OBVIOUS
  <2>4. \A i \in 1 .. T + 1 : Through'[i] = Command(E[i][1], E[i][2], ReadLen)
    BY <1>6, <1>9, <2>2, <2>3
  <2> QED BY <1>1, <1>6, <2>1, <2>4 DEF HasCome
<1>11. /\ Len(pipe') = d * ReadLen
       /\ \A x \in 1 .. d * ReadLen : pipe'[x] = pipe[ReadLen + x]
  <2>1. \A x \in ReadLen + 1 .. Len(pipe) : pipe[x] \in Unit
    <3>1. \A x \in 1 .. Len(pipe) : pipe[x] \in Unit
      BY <1>2
    <3> QED BY <1>2, <3>1, Finitely
  <2>2. PICK a \in Nat : a = ReadLen + 1 /\ a <= Len(pipe) + 1
    BY <1>2, <1>4, Finitely
  <2>3. PICK b \in Nat : b = Len(pipe)
    BY <1>2
  <2>4. /\ Len(SubSeq(pipe, a, b)) = IF a <= b THEN b - a + 1 ELSE 0
        /\ \A x \in 1 .. b - a + 1 : SubSeq(pipe, a, b)[x] = pipe[a + x - 1]
    <3>1. a \in Int /\ b \in Int /\ \A x \in a .. b : pipe[x] \in Unit
      BY <2>1, <2>2, <2>3
    <3> HIDE DEF Unit
    <3> QED BY <3>1, SubSeqProperties
  <2>5. pipe' = SubSeq(pipe, a, b)
    BY <1>5, <2>2, <2>3
  <2>6. b - a + 1 = d * ReadLen
    BY <1>4, <2>2, <2>3, Finitely
  <2>7. Len(pipe') = d * ReadLen
    BY <1>4, <2>2, <2>3, <2>4, <2>5, <2>6
  <2>8. \A x \in 1 .. d * ReadLen : a + x - 1 = ReadLen + x
    BY <2>2, Finitely
  <2> QED BY <2>4, <2>5, <2>6, <2>7, <2>8
<1>12. ASSUME NEW i \in 1 .. d, NEW k \in 1 .. ReadLen
       PROVE  pipe'[(i - 1) * ReadLen + k]
                = <<E[T + 1 + i][1], E[T + 1 + i][2], k>>
  <2>1. /\ i \in Nat /\ i - 1 \in Nat /\ (i - 1) + 1 = i /\ i <= d /\ k \in Nat
        /\ 1 <= k /\ k <= ReadLen /\ ReadLen \in Nat
    BY Finitely
  <2>2. (i - 1) * ReadLen \in Nat /\ i * ReadLen = (i - 1) * ReadLen + ReadLen
    BY <2>1, Multiples
  <2>3. i * ReadLen <= d * ReadLen
    BY <2>1, Multiples
  <2>4. (i - 1) * ReadLen + k \in 1 .. d * ReadLen
    BY <1>4, <2>1, <2>2, <2>3
  <2>5. pipe'[(i - 1) * ReadLen + k] = pipe[ReadLen + ((i - 1) * ReadLen + k)]
    BY <1>11, <2>4
  <2>6. ReadLen + ((i - 1) * ReadLen + k) = i * ReadLen + k
    BY <2>1, <2>2
  <2>7. i + 1 \in 1 .. L - T /\ (i + 1) - 1 = i /\ T + (i + 1) = T + 1 + i
    BY <1>1, <1>3, <2>1
  <2>8. pipe[((i + 1) - 1) * ReadLen + k] = <<E[T + (i + 1)][1], E[T + (i + 1)][2], k>>
    BY <1>8, <2>7
  <2> QED BY <2>5, <2>6, <2>7, <2>8
<1>13. L - (T + 1) = d
  BY <1>1, <1>3
<1>14. InPipe(E)'
  <2>1. PICK U \in Nat : U = T + 1 /\ U = Len(Through') /\ L - U = d
    BY <1>1, <1>6, <1>13
  <2>2. \A i \in 1 .. L - U : \A k \in 1 .. ReadLen :
           pipe'[(i - 1) * ReadLen + k] = <<E[U + i][1], E[U + i][2], k>>
    BY <1>12, <2>1
  <2>3. Len(pipe') = (L - U) * ReadLen
    BY <1>11, <2>1
  <2> QED BY <1>1, <2>1, <2>2, <2>3 DEF InPipe
<1> QED BY <1>7, <1>10, <1>14

(* Every step keeps the stream.                                            *)
LEMMA NextKeepsStream ==
    ASSUME TypeInv, ListTypes', MainInv, StreamInv, [Next]_vars PROVE StreamInv'
<1>1. msgLen' = msgLen
  <2>1. ASSUME NEW c \in Children, ChildWrite(c) \/ ChildExit(c)
        PROVE  msgLen' = msgLen
    BY <2>1 DEF ChildWrite, ChildExit
  <2>2. ASSUME \/ MainRoom \/ MainRead \/ MainAdd \/ MainPost
               \/ MainFinish \/ MainWake \/ MainJoin \/ UNCHANGED vars
        PROVE  msgLen' = msgLen
    BY <2>2 DEF MainRoom, MainRead, ReadAtMost, MainAdd, MainPost, MainFinish,
                MainWake, MainJoin, vars, childVars
  <2>3. ASSUME NEW w \in Workers,
               \/ WorkerTest(w) \/ WorkerWait(w) \/ WorkerRetest(w)
               \/ WorkerTake(w) \/ WorkerGive(w)
        PROVE  msgLen' = msgLen
    BY <2>3 DEF WorkerTest, WorkerWait, WorkerRetest, WorkerTake, WorkerGive,
                childVars
  <2> QED BY <2>1, <2>2, <2>3, PipelineSteps
<1>2. SUFFICES ASSUME FiveDigits
               PROVE  \E E : Numbered(E)' /\ HasCome(E)' /\ InPipe(E)'
  BY <1>1 DEF StreamInv, FiveDigits
<1>3. PICK E : Numbered(E) /\ HasCome(E) /\ InPipe(E)
  BY <1>2 DEF StreamInv
<1>4. CASE MainRead
  BY <1>3, <1>4, ReadStream
<1>5. ASSUME NEW c \in Children, ChildWrite(c), Through' = Through
      PROVE  \E F : Numbered(F)' /\ HasCome(F)' /\ InPipe(F)'
  BY <1>2, <1>3, <1>5, WriteStream
<1>6. ASSUME UNCHANGED <<pipe, sent>>, Through' = Through
      PROVE  Numbered(E)' /\ HasCome(E)' /\ InPipe(E)'
  BY <1>3, <1>6, StreamStays
<1>7. ASSUME NEW c \in Children, ChildExit(c) PROVE UNCHANGED <<pipe, sent>>
  BY <1>7 DEF ChildExit
<1>8. ASSUME \/ MainRoom \/ MainAdd \/ MainPost \/ MainFinish \/ MainWake
             \/ MainJoin \/ UNCHANGED vars
      PROVE  UNCHANGED <<pipe, sent>>
  BY <1>8 DEF MainRoom, MainAdd, MainPost, MainFinish, MainWake, MainJoin,
              vars, childVars
<1>9. ASSUME NEW w \in Workers,
             \/ WorkerTest(w) \/ WorkerWait(w) \/ WorkerRetest(w)
             \/ WorkerTake(w) \/ WorkerGive(w)
      PROVE  UNCHANGED <<pipe, sent>>
  BY <1>9 DEF WorkerTest, WorkerWait, WorkerRetest, WorkerTake, WorkerGive,
              childVars
<1>10. MainRead \/ Through' = Through
  BY ThroughStays
<1> QED BY <1>4, <1>5, <1>6, <1>7, <1>8, <1>9, <1>10, PipelineSteps

(* At the start nothing has been written.                                  *)
LEMMA InitStream == Init => StreamInv
<1> SUFFICES ASSUME Init PROVE \E E : Numbered(E) /\ HasCome(E) /\ InPipe(E)
  BY DEF StreamInv
<1>1. PICK e \in Seq(Children \X Nat) : e = <<>> /\ Len(e) = 0
  BY EmptySeq
<1>2. /\ \A c \in Children : sent[c] = 0
      /\ pipe = <<>> /\ Len(pipe) = 0 /\ main = "room"
      /\ taken = <<>> /\ comands_list = <<>>
  BY DEF Init
<1>3. Len(Through) = 0
  <2>1. Through = (<<>> \o <<>>) \o <<>>
    BY <1>2 DEF Through
  <2>2. <<>> \o <<>> = <<>>
    BY ConcatEmptySeq, EmptySeq
  <2> QED BY <1>2, <2>1, <2>2
<1>4. Numbered(e)
  BY <1>1, <1>2 DEF Numbered
<1>5. HasCome(e)
  BY <1>1, <1>3 DEF HasCome
<1>6. InPipe(e)
  <2>1. Len(e) - Len(Through) = 0
    BY <1>1, <1>3
  <2>2. 0 * ReadLen = 0
    BY Multiples, Finitely
  <2> QED BY <1>2, <2>1, <2>2 DEF InPipe
<1> QED BY <1>4, <1>5, <1>6

(* With pids of five digits, the commands written are, in order, those that*)
(* came through and those still in the pipe.                               *)
THEOREM StreamInvariant == Spec => []StreamInv
<1>1. TypeInv /\ TypeInv' /\ CountInv /\ StreamInv /\ [Next]_vars => StreamInv'
  BY NextKeepsStream DEF TypeInv, CountInv
<1> QED BY InitStream, PipelineTypes, CountInvariant, <1>1, PTL DEF Spec

-----------------------------------------------------------------------------
(* Of the commands of one child that have come through up to the i-th, the *)
(* i-th is the last, and its number says how many they are.                *)
LEMMA CountOfChild ==
    ASSUME TypeInv, NEW E, Numbered(E), HasCome(E), NEW i \in 1 .. Len(Through)
    PROVE  Cardinality(FromChild(E[i][1], i)) = E[i][2]
<1>1. /\ Len(Through) \in Nat /\ Len(E) \in Nat /\ Len(Through) <= Len(E)
      /\ \A j \in 1 .. Len(E) : E[j] \in Children \X Nat
  BY ThroughType DEF Numbered, HasCome
<1>2. i \in 1 .. Len(E) /\ \A j \in 1 .. i : j \in 1 .. Len(Through) /\ j \in 1 .. Len(E)
  BY <1>1
<1>3. \A j \in 1 .. Len(E) : E[j][1] \in Children /\ E[j][2] \in Nat
  BY <1>1
<1>4. PICK c \in Children, n \in Nat : c = E[i][1] /\ n = E[i][2] /\ n \in 1 .. sent[c]
  BY <1>2, <1>3 DEF Numbered
<1>5. \A j \in 1 .. i : Through[j][1][1] = E[j][1]
  <2> TAKE j \in 1 .. i
  <2>1. Through[j] = Command(E[j][1], E[j][2], ReadLen)
    BY <1>2 DEF HasCome
  <2>2. 1 \in 1 .. ReadLen
    BY Finitely
  <2>3. Through[j][1] = <<E[j][1], E[j][2], 1>>
    <3>1. PICK d \in Children, m \in Nat, r \in Nat :
            d = E[j][1] /\ m = E[j][2] /\ r = ReadLen
      BY <1>2, <1>3, Finitely
    <3>2. Command(d, m, r)[1] = <<d, m, 1>>
      BY <2>2, <3>1 DEF Command
    <3> QED BY <2>1, <3>1, <3>2
  <2> QED BY <2>3
<1> DEFINE S == FromChild(c, i)
<1>6. \A j \in 1 .. i : j \in S <=> E[j][1] = c
  BY <1>5 DEF FromChild
<1>7. S \subseteq 1 .. i
  BY DEF FromChild
<1> HIDE DEF S
<1>8. \A j, k \in 1 .. Len(E) :
         j < k /\ E[j][1] = E[k][1] => E[j][2] < E[k][2]
  BY DEF Numbered
<1>9. \A j \in S : E[j][2] \in 1 .. n
  <2> TAKE j \in S
  <2>1. j \in 1 .. i /\ E[j][1] = c /\ j \in 1 .. Len(E)
    BY <1>2, <1>6, <1>7
  <2>2. E[j][2] \in 1 .. sent[E[j][1]]
    BY <2>1 DEF Numbered
  <2>3. PICK m \in Nat : m = E[j][2] /\ 1 <= m
    BY <1>3, <2>1, <2>2
  <2>4. j < i => m < n
    BY <1>2, <1>4, <1>8, <2>1, <2>3
  <2>5. j = i => m = n
    BY <1>4, <2>3
  <2>6. m <= n
    BY <1>2, <2>1, <2>4, <2>5
  <2> QED BY <2>3, <2>6
<1>10. PICK f \in [S -> 1 .. n] : \A j \in S : f[j] = E[j][2]
  <2>1. [j \in S |-> E[j][2]] \in [S -> 1 .. n]
    BY <1>9
  <2> QED BY <2>1
<1>11. \A j, k \in S : f[j] = f[k] => j = k
  <2> SUFFICES ASSUME NEW j \in S, NEW k \in S, f[j] = f[k], j # k PROVE FALSE
    OBVIOUS
  <2>1. /\ j \in 1 .. i /\ k \in 1 .. i /\ E[j][1] = E[k][1]
        /\ j \in 1 .. Len(E) /\ k \in 1 .. Len(E)
    BY <1>2, <1>6, <1>7
  <2>2. E[j][2] = E[k][2] /\ E[j][2] \in Nat
    BY <1>3, <1>10, <2>1
  <2>3. j < k \/ k < j
    BY <2>1
  <2> QED BY <1>8, <2>1, <2>2, <2>3
<1>12. \A m \in 1 .. n : \E j \in S : f[j] = m
  <2> TAKE m \in 1 .. n
  <2>1. m \in 1 .. sent[c]
    BY <1>4 DEF TypeInv, ChildTypes
  <2>2. PICK j \in 1 .. Len(E) : E[j] = <<c, m>>
    BY <2>1 DEF Numbered
  <2>3. E[j][1] = c /\ E[j][2] = m
    BY <2>2
  <2>4. ~ (i < j)
    <3>1. i < j => n < m
      BY <1>2, <1>4, <1>8, <2>3
    <3> QED BY <1>4, <3>1
  <2>5. j \in 1 .. i
    BY <1>2, <2>4
  <2>6. j \in S
    BY <1>6, <2>3, <2>5
  <2> QED BY <1>10, <2>3, <2>6
<1>13. IsFiniteSet(S)
  <2>1. i \in Nat
    BY <1>2
  <2>2. PICK I : I = 1 .. i
    OBVIOUS
  <2>3. IsFiniteSet(I) /\ S \subseteq I
    BY <1>7, <2>1, <2>2, IntervalSize
  <2> QED BY <2>3, FS_Subset
<1>14. Cardinality(1 .. n) = Cardinality(S)
  BY <1>11, <1>12, <1>13, BijectionSize
<1>15. Cardinality(S) = n
  BY <1>14, IntervalSize
<1> QED BY <1>4, <1>15 DEF S

(* Every entry of the list is one whole command, the next of its child;    *)
(* nobody takes from an empty list or adds to a full one.                  *)
THEOREM CommandsAreKept == Spec => []CommandsKept
<1>1. ASSUME TypeInv, CountInv, StreamInv PROVE CommandsKept
  <2>1. SemaphoresExact
    BY <1>1 DEF CountInv, SemInv
  <2>2. ASSUME FiveDigits, NEW i \in 1 .. Len(Through)
        PROVE  \E c \in Children : \E n \in 1 .. sent[c] :
                  /\ Through[i] = Command(c, n, ReadLen)
                  /\ Cardinality(FromChild(c, i)) = n
    <3>1. PICK E : Numbered(E) /\ HasCome(E)
      BY <1>1, <2>2 DEF StreamInv
    <3>2. i \in 1 .. Len(E)
      BY <1>1, <3>1, ThroughType DEF HasCome, Numbered
    <3>3. E[i][1] \in Children /\ E[i][2] \in 1 .. sent[E[i][1]]
      BY <3>1, <3>2 DEF Numbered
    <3>4. Through[i] = Command(E[i][1], E[i][2], ReadLen)
      BY <3>1 DEF HasCome
    <3>5. Cardinality(FromChild(E[i][1], i)) = E[i][2]
      BY <1>1, <3>1, CountOfChild
    <3> QED BY <3>3, <3>4, <3>5
  <2> QED BY <2>1, <2>2 DEF CommandsKept, CommandsWhole
<1> QED BY PipelineTypes, CountInvariant, StreamInvariant, <1>1, PTL
=============================================================================
