---------------------------- MODULE MCFileWorkers ---------------------------
(* Small instances of FileWorkers, in the manner of in_file.txt.           *)
EXTENDS FileWorkers, TLC
CONSTANTS a, b

MCFiles == {a, b}
Generate(f) == [op |-> "generate", file1 |-> f, file2 |-> f]
Checksum(f, g) == [op |-> "checksum", file1 |-> f, file2 |-> g]

MCTwoLines   == <<Checksum(a, b), Generate(a)>>
MCThreeLines == <<Generate(b), Checksum(a, b), Generate(a)>>
=============================================================================
