---------------------------- MODULE CommandLine ----------------------------
(***************************************************************************)
(* From the typed line to the program and its arguments: the shell          *)
(* (ece391shell.c), the parsing and the checks in execute and getargs       *)
(* (syscalls.c), and the search of the directory (file_system.c).           *)
(***************************************************************************)
EXTENDS Strings, FiniteSets

CONSTANTS
    NAME_LENGTH,  \* the code has 32
    BUF_LENGTH,   \* the code has 128
    Directory,    \* the names of the files, a sequence of sequences
    Headers       \* of each entry: "elf", "other", or "short" if its file has
                  \* fewer than the four bytes of the magic number

SP == 32
NL == 10
EXIT == <<101, 120, 105, 116>>
USER_PROG == 134217728
FOUR_MB == 4194304

LOCAL Least(a, b) == IF a < b THEN a ELSE b

(* A file_name has NAME_LENGTH bytes; a name of that length has no NUL, and *)
(* what follows is the file type.                                           *)
file_name(d) ==
    [i \in 0 .. NAME_LENGTH |-> IF i = NAME_LENGTH THEN 2
                                ELSE IF i < Len(Directory[d]) THEN Directory[d][i + 1]
                                ELSE NUL]

(* strncmp with strlen(filename), then with NAME_LENGTH.                    *)
Matches(d, filename) ==
    /\ strncmp(file_name(d), filename, strlen(filename)) = 0
    /\ strncmp(file_name(d), filename, NAME_LENGTH) = 0

find_dentry(filename) ==
    {d \in 1 .. Len(Directory) :
        Matches(d, filename) /\ \A e \in 1 .. d - 1 : ~Matches(e, filename)}

(* execute: the file name ends at a space, at the NUL or at NAME_LENGTH;    *)
(* what follows, without leading spaces, are the arguments.                 *)
NameEnd(command) ==
    CHOOSE i \in 0 .. NAME_LENGTH :
        /\ i = NAME_LENGTH \/ command[i] \in {NUL, SP}
        /\ \A j \in 0 .. i - 1 : command[j] \notin {NUL, SP}

RECURSIVE SkipSpaces(_, _)
SkipSpaces(command, i) == IF command[i] = SP THEN SkipSpaces(command, i + 1) ELSE i
SkipsOne(command, i) == IF command[i] = SP THEN i + 1 ELSE i
ArgsStart(command, i) == SkipSpaces(command, i)

Rest(command, i) == Text([k \in 0 .. Cardinality(DOMAIN command) - 1 - i |-> command[k + i]])

Parse(command) ==
    LET i == NameEnd(command)
        rest == Rest(command, ArgsStart(command, i))
    IN  [name |-> [k \in 1 .. i |-> command[k - 1]],
         args |-> SubSeq(rest, 1, Least(Len(rest), BUF_LENGTH - 1))]

(* ELF_buf is not initialised: where the file is short the check reads what *)
(* was on the stack, and stale says whether that is a magic number.         *)
HasMagic(d, stale) == Headers[d] = "elf" \/ (Headers[d] = "short" /\ stale)

(* The checks of execute up to the creation of the pcb; full is the limit   *)
(* on the number of processes.                                              *)
NotRun == [program |-> 0, args |-> << >>]
execute(command, full, stale) ==
    LET cmd == Parse(command)
        found == {d \in find_dentry(Array(cmd.name, NAME_LENGTH + 1)) : HasMagic(d, stale)}
    IN  IF full \/ found = {} THEN NotRun
        ELSE [program |-> CHOOSE d \in found : TRUE, args |-> cmd.args]

(* getargs into nbytes at buf.  Both comparisons with nbytes are unsigned:  *)
(* a negative one is as large as the address space, and strncpy, which      *)
(* writes every one of the nbytes, leaves the page of the program.          *)
InProgram(buf) == buf # 0 /\ buf >= USER_PROG /\ buf < USER_PROG + FOUR_MB
TooLong(n, nbytes) == nbytes >= 0 /\ n > nbytes

getargs(args, buf, nbytes) ==
    LET s == Array(args, BUF_LENGTH)
    IN  IF TooLong(strlen(s) + 1, nbytes) \/ s[0] = NUL \/ ~InProgram(buf)
          THEN [does |-> "refused", bytes |-> << >>]
        ELSE IF nbytes < 0 \/ nbytes > USER_PROG + FOUR_MB - buf
          THEN [does |-> "overrun", bytes |-> << >>]
        ELSE [does |-> "copy",
              bytes |-> [i \in 1 .. nbytes |->
                  strncpy([k \in 0 .. nbytes - 1 |-> NL], s, nbytes)[i - 1]]]

(* The shell: the newline at the end is removed; exit ends it, an empty     *)
(* line is ignored, anything else is executed.                              *)
Shell(line, full, stale) ==
    LET n == Len(line)
        typed == IF n > 0 /\ line[n] = NL THEN SubSeq(line, 1, n - 1) ELSE line
        buf == Array(typed, Len(typed) + NAME_LENGTH + 2)
        run == execute(buf, full, stale)
        Does(what, how) == [does |-> what, program |-> how.program, args |-> how.args]
    IN  IF ece391_strcmp(buf, Array(EXIT, 5)) = 0 THEN Does("exit", NotRun)
        ELSE IF buf[0] = NUL THEN Does("nothing", NotRun)
        ELSE IF run = NotRun THEN Does("no such command", run)
        ELSE Does("execute", run)
=============================================================================
