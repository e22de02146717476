----------------------------- MODULE MCPrograms -----------------------------
(***************************************************************************)
(* Programs for TLC: a small image whose blocks are out of order, with an *)
(* unused dentry between used ones and one at the end.                     *)
(***************************************************************************)
EXTENDS Programs, TLC

\* The length of the file is a multiple of the block size and of reads of 3 bytes,
\* not of 4: reads start and end inside blocks and at their ends.
Dir ==
    LET D(n, ty, i) == [file_name |-> n, file_type |-> ty, inode_index |-> i]
    IN (0 :> D(".", DIRECTORY, 0)) @@ (1 :> D(EMPTY, RTC, 0))
       @@ (2 :> D("file", FILE, 1)) @@ (3 :> D(EMPTY, RTC, 0))

\* Unused entries of data_index are 0.
Index(bs) == [k \in 0 .. 4 |-> IF k < Len(bs) THEN bs[k + 1] ELSE 0]

Nodes ==
    (0 :> [length |-> 0, data_index |-> Index(<< >>)])
    @@ (1 :> [length |-> 6, data_index |-> Index(<<3, 1, 2>>)])

Blocks == [b \in 0 .. 3 |-> [o \in 0 .. FS_BLOCK_SIZE - 1 |-> <<b, o>>]]

Near == <<"filex", "fil", EMPTY>>

Asked == { ".", "file", EMPTY, "none" }
=============================================================================
