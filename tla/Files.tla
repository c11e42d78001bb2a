-------------------------------- MODULE Files --------------------------------
(***************************************************************************)
(* Files of one process: the descriptor table in its PCB (open, read and   *)
(* close of syscalls.c, the table that execute makes and halt or an        *)
(* exception closes) and the read-only file system (file_system.c).        *)
(*                                                                         *)
(* Tables are private and the image never changes, so ticks do not matter  *)
(* here.  The loop of read_data is a step per block; a page fault on the   *)
(* program's buffer may end the process in the middle of it.  A byte is    *)
(* named by its place in the image, a pair of data block and offset.       *)
(*                                                                         *)
(* Calls that fail, and reads and writes that are always refused, change   *)
(* nothing and are left out; stdin and stdout are in Terminal, what is read*)
(* and written through a descriptor of the RTC is in Rtc.                  *)
(***************************************************************************)
EXTENDS Integers, Sequences

CONSTANTS
    MAX_FD_NUM,  \* the last descriptor; the code has 7
    FOUR_KB,     \* bytes in a block; the code has 4096
    WORD,        \* number of values of uint32_t; the code has 2^32
    Dentries,    \* the directory
    Size,        \* bytes of each inode
    Blocks,      \* data block numbers of each inode
    Counts       \* bound: the counts programs read with, as uint32_t

RTC == 0
DIR == 1
FILE == 2
Inodes == DOMAIN Size

ASSUME FilesAssumption ==
    /\ MAX_FD_NUM \in Nat /\ MAX_FD_NUM >= 2
    /\ FOUR_KB \in Nat \ {0}
    /\ WORD \in Nat \ {0} /\ WORD % 2 = 0
    /\ Counts \subseteq 0 .. WORD - 1

(* The image is well formed: the directory fits its block, files have an    *)
(* inode, and an inode has as many blocks as its size needs, within the     *)
(* signed range.                                                            *)
ASSUME ImageAssumption ==
    /\ Dentries \in Seq([file_name : STRING, file_type : Nat, inode_num : Nat])
    /\ Len(Dentries) < WORD
    /\ Inodes \subseteq Nat
    /\ Size \in [Inodes -> Nat]
    /\ Blocks \in [Inodes -> Seq(Nat)]
    /\ \A d \in 1 .. Len(Dentries) :
          Dentries[d].file_type = FILE => Dentries[d].inode_num \in Inodes
    /\ \A i \in Inodes : /\ Size[i] <= Len(Blocks[i]) * FOUR_KB
                         /\ Len(Blocks[i]) * FOUR_KB < WORD \div 2

Fds == 2 .. MAX_FD_NUM

VARIABLES
    fdt,     \* the descriptors: table (which jump table), inode, file_position
    rd,      \* read_data in progress, or Idle
    buf,     \* what it has copied so far
    got,     \* history: the bytes each descriptor has delivered since its open,
    listed,  \* or the directory entries
    astray   \* read_data has left the blocks of the file

history == <<got, listed>>
vars == <<fdt, rd, buf, history, astray>>

(* flags is -1 exactly when table is CLOSED.                                *)
CLOSED == -1
Idle == [fd |-> 0, count |-> 0, cur |-> 0, end |-> 0, block |-> 0]
Byte == Nat \X (0 .. FOUR_KB - 1)

TypeOK ==
    /\ fdt \in [Fds -> [table : {CLOSED, RTC, DIR, FILE}, inode : Nat,
                        file_position : 0 .. WORD - 1]]
    /\ rd \in [fd : Fds \cup {0}, count : 0 .. WORD - 1, cur : 0 .. WORD - 1,
               end : 0 .. WORD - 1, block : Nat]
    /\ buf \in Seq(Byte)
    /\ got \in [Fds -> Seq(Byte)]
    /\ listed \in [Fds -> Seq(1 .. Len(Dentries))]
    /\ astray \in BOOLEAN

Reading == rd # Idle

(* execute marks every descriptor as not in use; the rest of the table is   *)
(* left over from the stack.                                                *)
Init ==
    /\ fdt = [f \in Fds |-> [table |-> CLOSED, inode |-> 0, file_position |-> 0]]
    /\ rd = Idle
    /\ buf = << >>
    /\ got = [f \in Fds |-> << >>]
    /\ listed = [f \in Fds |-> << >>]
    /\ astray = FALSE

-----------------------------------------------------------------------------
(* The first entry with a name; none if there is no such file.              *)
Names == {Dentries[d].file_name : d \in 1 .. Len(Dentries)}
find_dentry(name) ==
    {d \in 1 .. Len(Dentries) :
        /\ Dentries[d].file_name = name
        /\ \A e \in 1 .. d - 1 : Dentries[e].file_name # name}

(* open: the lowest descriptor that is not in use.                          *)
LowestFree(f) ==
    fdt[f].table = CLOSED /\ \A g \in 2 .. f - 1 : fdt[g].table # CLOSED

open(name) ==
    \E d \in find_dentry(name), f \in Fds :
        LET dentry == Dentries[d]
        IN  /\ ~Reading
            /\ LowestFree(f)
            /\ dentry.file_type \in {RTC, DIR, FILE}
            /\ fdt' = [fdt EXCEPT ![f] =
                 [table |-> dentry.file_type,
                  inode |-> IF dentry.file_type = FILE THEN dentry.inode_num ELSE 0,
                  file_position |-> 0]]
            /\ got' = [got EXCEPT ![f] = << >>]
            /\ listed' = [listed EXCEPT ![f] = << >>]
            /\ UNCHANGED <<rd, buf, astray>>

close(f) ==
    /\ ~Reading
    /\ fdt[f].table # CLOSED
    /\ fdt' = [fdt EXCEPT ![f].table = CLOSED]
    /\ UNCHANGED <<rd, buf, history, astray>>

-----------------------------------------------------------------------------
(* read: the descriptor is in use and its jump table leads to a read of the *)
(* given kind.                                                              *)
Dispatched(f, table) == ~Reading /\ fdt[f].table = table

(* read_data: end = offset + length, in uint32_t arithmetic, cut off at the *)
(* end of the file.  An offset past the end reads nothing.                  *)
EndNotCut(i, offset, length) == (offset + length) % WORD
EndOneShort(i, offset, length) ==
    LET e == (offset + length) % WORD IN IF e >= Size[i] THEN Size[i] - 1 ELSE e
EndOf(i, offset, length) ==
    LET e == (offset + length) % WORD
    IN  IF offset > Size[i] THEN offset
        ELSE IF e > Size[i] THEN Size[i] ELSE e

(* file_read: the call of read_data up to its loop.                         *)
file_read(f, n) ==
    LET file == fdt[f]
    IN  /\ Dispatched(f, FILE)
        /\ rd' = [fd |-> f, count |-> n, cur |-> file.file_position,
                  end |-> EndOf(file.inode, file.file_position, n),
                  block |-> file.file_position \div FOUR_KB]
        /\ buf' = << >>
        /\ UNCHANGED <<fdt, history, astray>>

(* One round of the loop: the rest of the block or what is left to read.    *)
CopyToLastByte(cur, end) ==
    LET left == (end - cur) % WORD
        room == FOUR_KB - 1 - (cur % FOUR_KB)
    IN  IF room > left THEN left ELSE room
CopyLength(cur, end) ==
    LET left == (end - cur) % WORD
        room == FOUR_KB - (cur % FOUR_KB)
    IN  IF room > left THEN left ELSE room

SameBlock(b) == b
NextBlock(b) == b + 1

CopyBlock ==
    LET i == fdt[rd.fd].inode
        n == CopyLength(rd.cur, rd.end)
    IN  /\ Reading /\ ~astray
        /\ rd.cur # rd.end
        /\ IF rd.block < Len(Blocks[i])
             THEN /\ buf' = buf \o [k \in 1 .. n |-> <<Blocks[i][rd.block + 1],
                                                       (rd.cur % FOUR_KB) + k - 1>>]
                  /\ rd' = [rd EXCEPT !.cur = (@ + n) % WORD, !.block = NextBlock(@)]
                  /\ UNCHANGED astray
             ELSE /\ astray' = TRUE
                  /\ UNCHANGED <<buf, rd>>
        /\ UNCHANGED <<fdt, history>>

(* The loop ends; file_read moves the position.                             *)
ReadDone ==
    LET f == rd.fd
    IN  /\ Reading /\ ~astray
        /\ rd.cur = rd.end
        /\ fdt' = [fdt EXCEPT ![f].file_position = @ + Len(buf)]
        /\ got' = [got EXCEPT ![f] = @ \o buf]
        /\ rd' = Idle
        /\ buf' = << >>
        /\ UNCHANGED <<listed, astray>>

(* dir_read: the next name, nothing after the last one.                     *)
EntryAfter(pos) == pos + 2
EntryAt(pos) == pos + 1

dir_read(f) ==
    LET pos == fdt[f].file_position
    IN  /\ Dispatched(f, DIR)
        /\ pos < Len(Dentries)
        /\ listed' = [listed EXCEPT ![f] = Append(@, EntryAt(pos))]
        /\ fdt' = [fdt EXCEPT ![f].file_position = pos + 1]
        /\ UNCHANGED <<rd, buf, got, astray>>

-----------------------------------------------------------------------------
(* halt closes every descriptor, and so does an exception, also one on the  *)
(* buffer of a read; then the PCB serves another process.                   *)
halt ==
    /\ fdt' = [f \in Fds |-> [fdt[f] EXCEPT !.table = CLOSED]]
    /\ rd' = Idle
    /\ buf' = << >>
    /\ astray' = FALSE
    /\ UNCHANGED history

Next ==
    \/ \E name \in Names : open(name)
    \/ \E f \in Fds : close(f) \/ dir_read(f) \/ \E n \in Counts : file_read(f, n)
    \/ CopyBlock \/ ReadDone \/ halt

Spec == Init /\ [][Next]_vars

(* The processor executes the loop of a read that has begun.                *)
FairSpec == Spec /\ WF_vars(CopyBlock \/ ReadDone)

-----------------------------------------------------------------------------
(***************************************************************************)
(* Properties.                                                             *)
(***************************************************************************)

(* What a file contains, by definition of the image.                        *)
Content(i) == [k \in 1 .. Size[i] |-> <<Blocks[i][(k - 1) \div FOUR_KB + 1],
                                        (k - 1) % FOUR_KB>>]

(* The count of a read is not negative as int32_t.                          *)
Sensible(n) == n < WORD \div 2

(* The reads of a descriptor since its open, in pieces of any size across   *)
(* block boundaries, have delivered the bytes of the file from the first up *)
(* to file_position, each once and in order (read_data, file_read).         *)
FileInOrder ==
    \A f \in Fds : fdt[f].table = FILE =>
        /\ fdt[f].file_position <= Size[fdt[f].inode]
        /\ got[f] = SubSeq(Content(fdt[f].inode), 1, fdt[f].file_position)

(* With a count that is not negative the loop of read_data approaches its   *)
(* end from below and stays in the file, wherever the reads before it left  *)
(* the position: offset + length does not wrap and no block is missing.     *)
LoopInFile ==
    Reading /\ Sensible(rd.count) =>
        /\ ~astray
        /\ rd.cur <= rd.end
        /\ rd.end <= Size[fdt[rd.fd].inode]

(* A read of at least one byte that returns 0 has met the end of the file:  *)
(* the program has all of it (how cat and grep find the end).               *)
ZeroIsEnd ==
    Reading /\ ~astray /\ rd.cur = rd.end /\ buf = << >> /\ rd.count # 0
        /\ Sensible(rd.count) => got[rd.fd] = Content(fdt[rd.fd].inode)

(* The reads of a descriptor of the directory list its entries one by one,  *)
(* in order, none twice and none left out (dir_read).                       *)
ListedInOrder ==
    \A f \in Fds : fdt[f].table = DIR =>
        listed[f] = [d \in 1 .. fdt[f].file_position |-> d]

(* The loop of read_data, whose test is cur != end, ends if the count is    *)
(* not negative.                                                            *)
ReadEnds == (Reading /\ Sensible(rd.count)) ~> ~Reading
=============================================================================
