------------------------------ MODULE MCFiles ------------------------------
EXTENDS Files

(* ".", the RTC and two files: one ends inside its third block, the other   *)
(* with its first.                                                          *)
MCDentries == << [file_name |-> ".", file_type |-> DIR, inode_num |-> 0],
                 [file_name |-> "rtc", file_type |-> RTC, inode_num |-> 0],
                 [file_name |-> "frame0", file_type |-> FILE, inode_num |-> 1],
                 [file_name |-> "frame1", file_type |-> FILE, inode_num |-> 2] >>
MCSize == [i \in {1, 2} |-> IF i = 1 THEN 5 ELSE 2]
MCBlocks == [i \in {1, 2} |-> IF i = 1 THEN << 5, 0, 4 >> ELSE << 3 >>]
=============================================================================
