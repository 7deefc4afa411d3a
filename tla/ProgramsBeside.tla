---------------------------- MODULE ProgramsBeside ---------------------------
(* The programs of threads under names of their own, so that they can stand *)
(* in one module beside other programs: ThreadProofs proves about them.     *)
CONSTANTS LabThreads, LabMain, LabNone, Words, Mutexes, Size, MaxItems,
          T1, T2, T3, Rounds, LabTurns

VARIABLES lab,        \* which program runs
          script, pc, asleep, reg, mem, owner, cells, taken

Labs == INSTANCE ThreadPrograms WITH
    program <- lab, Threads <- LabThreads, Main <- LabMain, None <- LabNone,
    Turns <- LabTurns
=============================================================================
