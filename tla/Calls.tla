------------------------------- MODULE Calls -------------------------------
(***************************************************************************)
(* What the system calls refuse: the check of the call number (linkage.S),  *)
(* the checks of descriptors, names and pointers in syscalls.c, those of    *)
(* the terminal and the RTC (kb.c, rtc.c), and the program ece391syserr     *)
(* that tries them.  The table of descriptors maps a descriptor to the kind *)
(* of its jump table, or to "free" when its flags are -1.  A buffer is NULL *)
(* or the sequence of the one int32_t it holds.  A result 0 stands for any  *)
(* result of a call that was not refused where the value is not a           *)
(* descriptor.                                                              *)
(***************************************************************************)
EXTENDS CommandLine, SequencesExt

CONSTANTS
    Types   \* of each entry of Directory: "rtc", "dir" or "file"

MAX_FD_NUM == 7
NULL == << >>
Frequencies == {2, 4, 8, 16, 32, 64, 128, 512, 1024}
STDIN == <<115, 116, 100, 105, 110>>
STDOUT == <<115, 116, 100, 111, 117, 116>>

(* execute and launch leave stdin and stdout open and the rest free.        *)
FreshTable == [fd \in 0 .. MAX_FD_NUM |->
                  CASE fd = 0 -> "stdin" [] fd = 1 -> "stdout" [] OTHER -> "free"]

InTable(fd) == fd >= 0 /\ fd <= MAX_FD_NUM

Answer(ok, table) == [ret |-> IF ok THEN 0 ELSE -1, table |-> table]

(* terminal_read and terminal_write, before they wait or print.             *)
ValidBuffer(buf, nbytes) == buf # NULL /\ nbytes >= 0

rtc_write(buf, nbytes) == nbytes = 4 /\ buf # NULL /\ buf[1] \in Frequencies

(* The jump tables: stdin has no write and stdout no read; a file and the   *)
(* directory refuse every write, and look at no pointer or count in a read. *)
Readable(kind, buf, nbytes) ==
    kind \in {"rtc", "dir", "file"} \/ (kind = "stdin" /\ ValidBuffer(buf, nbytes))
Writable(kind, buf, nbytes) ==
    \/ kind = "stdout" /\ ValidBuffer(buf, nbytes)
    \/ kind = "rtc" /\ rtc_write(buf, nbytes)

read(table, fd, buf, nbytes) ==
    Answer(InTable(fd) /\ Readable(table[fd], buf, nbytes), table)
write(table, fd, buf, nbytes) ==
    Answer(InTable(fd) /\ Writable(table[fd], buf, nbytes), table)

ClosesAnything(table, fd) ==
    IF fd < 2 \/ fd > MAX_FD_NUM THEN Answer(FALSE, table)
    ELSE Answer(TRUE, [table EXCEPT ![fd] = "free"])
close(table, fd) ==
    IF fd < 2 \/ fd > MAX_FD_NUM \/ table[fd] = "free" THEN Answer(FALSE, table)
    ELSE Answer(TRUE, [table EXCEPT ![fd] = "free"])

(* strncmp with the length of the name given: a beginning of "stdin" or     *)
(* "stdout" is taken for it.  The empty name, like NULL, is refused.  The   *)
(* first free descriptor from 2 is used.                                    *)
open(table, name) ==
    LET filename == Array(name, Len(name) + 1)
        IsBeginning(of) == strncmp(filename, Array(of, Len(of) + 1), strlen(filename)) = 0
        found == find_dentry(filename)
        free == {fd \in 2 .. MAX_FD_NUM : table[fd] = "free"}
        first == CHOOSE fd \in free : \A g \in free : fd <= g
        d == CHOOSE e \in found : TRUE
    IN  CASE IsBeginning(<< >>) -> Answer(FALSE, table)
          [] ~IsBeginning(<< >>) /\ IsBeginning(STDIN) -> [ret |-> 0, table |-> table]
          [] ~IsBeginning(STDIN) /\ IsBeginning(STDOUT) -> [ret |-> 1, table |-> table]
          [] OTHER -> IF found = {} \/ free = {} THEN Answer(FALSE, table)
                      ELSE [ret |-> first, table |-> [table EXCEPT ![first] = Types[d]]]

(* Only the check of the pointer; what vidmap maps is in Video.             *)
vidmap(table, ptr) == Answer(InProgram(ptr), table)

(* An unsigned comparison of the number less one: 0 wraps around.  Of the   *)
(* ten calls the last two refuse always, the others as above.               *)
system_call_table == <<"halt", "execute", "read", "write", "open", "close", "getargs",
                       "vidmap", "set_handler", "sigreturn">>
call_sys(table, num) ==
    Answer(/\ num - 1 \in 0 .. 9
           /\ system_call_table[num] \notin {"set_handler", "sigreturn"}, table)

-----------------------------------------------------------------------------
(* A call and its argument, and the results of a sequence of calls.         *)
Do(table, c) ==
    CASE c.call = "read" -> read(table, c.arg, <<0>>, 31)
      [] c.call = "write" -> write(table, c.arg, <<0>>, 31)
      [] c.call = "close" -> close(table, c.arg)
      [] c.call = "open" -> open(table, c.arg)
      [] c.call = "vidmap" -> vidmap(table, c.arg)
      [] c.call = "call_sys" -> call_sys(table, c.arg)

DoAll(table, calls) ==
    FoldLeft(LAMBDA acc, c : LET r == Do(acc.table, c)
                             IN  [rets |-> Append(acc.rets, r.ret), table |-> r.table],
             [rets |-> << >>, table |-> table], calls)

C(call, arg) == [call |-> call, arg |-> arg]
Each(call, from, to) == [i \in 1 .. to - from + 1 |-> C(call, from + i - 1)]

(* ece391syserr: each test is a sequence of calls that must all be refused, *)
(* but for err_open_lots, where one of seven opens must be.                 *)
BIG == 1073741823
HELLOO == <<104, 101, 108, 108, 111, 111>>
SHEL == <<115, 104, 101, 108>>
DOT == <<46>>

err_neg_fd == <<C("read", -BIG), C("write", -BIG), C("close", -BIG)>>
err_big_fd == <<C("read", BIG), C("write", BIG), C("close", BIG)>>
err_open_lots == [i \in 1 .. 7 |-> C("open", DOT)] \o Each("close", 2, 7)
err_open == <<C("open", HELLOO), C("open", SHEL), C("open", << >>)>>
err_unopened == Each("close", 0, 7) \o Each("read", 2, 7) \o Each("write", 2, 7)
err_vidmap == <<C("vidmap", 0), C("vidmap", FOUR_MB)>>
err_stdin_out == <<C("write", 0), C("read", 1)>>
err_syscall_num == <<C("call_sys", BIG), C("call_sys", -BIG), C("call_sys", 0)>>

tests == <<err_neg_fd, err_big_fd, err_open_lots, err_open, err_unopened, err_vidmap,
           err_stdin_out, err_syscall_num>>

(* The value a test returns: 0 for PASS, 2 for FAIL.                        *)
Verdict(t, rets) ==
    LET refused == {i \in 1 .. Len(rets) : rets[i] = -1}
        pass == IF t = 3 THEN Cardinality(refused \cap 1 .. 7) = 1
                         ELSE refused = 1 .. Len(rets)
    IN  IF pass THEN 0 ELSE 2

(* main: test 1 to 8, all of them for 0, none for anything else.            *)
RunTests(chosen) ==
    FoldLeft(LAMBDA acc, t : LET r == DoAll(acc.table, tests[t])
                             IN  [ret |-> acc.ret + Verdict(t, r.rets), table |-> r.table],
             [ret |-> 0, table |-> FreshTable], chosen)
syserr(select) ==
    CASE select = 0 -> RunTests(<<1, 2, 3, 4, 5, 6, 7, 8>>)
      [] select \in 1 .. 8 -> RunTests(<<select>>)
      [] OTHER -> RunTests(<< >>)
=============================================================================
