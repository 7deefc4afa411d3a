----------------------------- MODULE PatternCount ----------------------------
(***************************************************************************)
(* Lab7_threads/lin_Exercises/4-pfgrep: parallel_fgrep.c splits a mapped   *)
(* file into one chunk per thread, the threads count a string in their     *)
(* chunks and main adds the counts up; serial_fgrep.c counts in the whole  *)
(* file.                                                                   *)
(*                                                                         *)
(* Sizes are size_t: a difference below zero is a huge number.  What lies  *)
(* between the end of the file and the end of its page reads as zeros, and *)
(* a read past the page ends the process.                                  *)
(***************************************************************************)
EXTENDS Integers, Sequences

CONSTANTS Letters,     \* what files and strings are made of, none is Zero
          Zero,
          Sizes,       \* the sizes of the files
          StringSizes,
          NumThreads,  \* NUM_THREADS
          Page         \* the bytes of the mapping's pages

(* A file fits into its mapping, and a page is large beside NUM_THREADS.   *)
ASSUME CountAssumption ==
    /\ Zero \notin Letters
    /\ Page \in Nat /\ Sizes \subseteq 0 .. Page
    /\ StringSizes \subseteq Nat \ {0}
    /\ NumThreads \in Nat \ {0} /\ NumThreads * (NumThreads - 1) <= Page

VARIABLES text, string, result, total

countVars == <<text, string, result, total>>

Parts  == 0 .. NumThreads - 1
NotYet == -1
Crash  == -2      \* the process was killed
Huge   == 2 * Page + Len(string)

CountStart ==
         /\ \E n \in Sizes : text \in [1 .. n -> Letters]
         /\ \E n \in StringSizes : string \in [1 .. n -> Letters]
         /\ result = [i \in Parts |-> NotYet]
         /\ total = NotYet

(* Nothing is counted.                                                     *)
CountQuiet == /\ text = <<>> /\ string = <<>> /\ total = NotYet
              /\ result = [i \in Parts |-> NotYet]

Byte(i) == IF i < Len(text) THEN text[i + 1] ELSE Zero
Minus(a, b) == IF a < b THEN Huge ELSE a - b

(* memcmp(where + i, string, string_size) == 0; how it reads past the page *)
(* does not matter, count gets there anyway.                               *)
Matches(at) == \A k \in 1 .. Len(string) : Byte(at + k - 1) = string[k]

(* From offset i of the area that begins at where; the size is unsigned.   *)
last_start(size) ==
    IF size + 1 < Len(string) THEN Huge ELSE size + 1 - Len(string)
tally(where, last) ==
    LET found[i \in Nat] ==
            IF i >= last THEN 0
            ELSE IF Matches(where + i) THEN 1 + found[i + Len(string)]
            ELSE found[i + 1]
    IN  found[0]
count(where, size) ==
    IF where + last_start(size) + Len(string) - 1 > Page THEN Crash
    ELSE tally(where, last_start(size))

serial == count(0, Len(text))

(* split_file_mapping.                                                     *)
chunk_size == (Len(text) + NumThreads - 1) \div NumThreads
chunk_mem(i) == i * chunk_size
last_size == LET left == Minus(Len(text), chunk_mem(NumThreads - 1))
             IN  IF chunk_size < left THEN chunk_size ELSE left

(* Variant: the chunks do not overlap.                                     *)
SizeWithoutOverlap(i) == IF i = NumThreads - 1 THEN last_size ELSE chunk_size

size_of(i) ==
    IF i = NumThreads - 1 THEN last_size
    ELSE IF i = NumThreads - 2 /\ Len(string) - 1 > last_size
         THEN chunk_size + last_size
    ELSE chunk_size + Len(string) - 1

thread_code(i) == /\ result[i] = NotYet
                  /\ \A j \in Parts : result[j] # Crash
                  /\ result' = [result EXCEPT ![i] = count(chunk_mem(i), size_of(i))]
                  /\ UNCHANGED <<text, string, total>>

sum_of_results ==
    LET sum[n \in 0 .. NumThreads] ==
            IF n = 0 THEN 0 ELSE sum[n - 1] + result[n - 1]
    IN  sum[NumThreads]
SumUp == /\ total = NotYet /\ \A i \in Parts : result[i] >= 0
         /\ total' = sum_of_results
         /\ UNCHANGED <<text, string, result>>

CountStep == SumUp \/ \E i \in Parts : thread_code(i)

CountSpec == CountStart /\ [][CountStep]_countVars

-----------------------------------------------------------------------------
CountTypeOK == /\ result \in [Parts -> Nat \cup {NotYet, Crash}]
               /\ total \in Nat \cup {NotYet}

(* No proper prefix of the string is one of its suffixes.                  *)
Unbordered == \A k \in 1 .. Len(string) - 1 :
                 \E j \in 1 .. k : string[j] # string[Len(string) - k + j]

(* What main adds up is what serial_fgrep counts, although the chunks      *)
(* overlap and the last ones may be short, empty or behind the end.        *)
SumIsSerial == total # NotYet /\ Unbordered => total = serial

(* A thread reads past the page only where its chunk is shorter than the   *)
(* string by more than one.                                                *)
NoCrash == (\E i \in Parts : result[i] = Crash) => Len(string) > last_size + 1

(* The parallel count is the serial one when the string has no border, and *)
(* the process is killed only when the last chunk is too short.            *)
SameAsSerial == SumIsSerial /\ NoCrash
=============================================================================
