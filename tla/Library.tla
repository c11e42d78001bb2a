------------------------------ MODULE Library ------------------------------
(***************************************************************************)
(* The functions of Memory, Strings, Printf, CommandLine, Calls and Grep,   *)
(* called one after another: a step calls a function with some of the       *)
(* bounded inputs, the next one returns.  The invariants compare the result *)
(* of the call in progress with a definition of its own.                    *)
(***************************************************************************)
EXTENDS Memory, Grep, SequencesExt

CONSTANTS
    MEM,         \* size of the memory of the block operations
    BLOCK,       \* longest block
    Letters,     \* characters of strings, typed lines and files
    STR,         \* longest string
    Values,      \* values converted by itoa
    Words,       \* arguments of printf
    Pieces,      \* pieces a format is put together from
    LINE,        \* longest typed line
    FILE,        \* longest file searched
    Descriptors, \* descriptors tried
    FileNames    \* names opened

VARIABLE call   \* the call in progress: its function, its inputs and its result

NEWLINE == 10
SPACE == 32
PWIDTH == 3                                  \* hexadecimal digits of a word of printf
PVALUES == 0 .. (16 ^ PWIDTH) - 1
Said == <<104, 105>>                         \* the string every %s argument points to
DirNames == << <<97>>, <<97, 98>>, <<98>>, <<98, 98>> >>
DirHeaders == <<"elf", "elf", "other", "short">>
RootNames == << <<46>>, <<114, 116, 99>>, <<104, 101, 108, 108, 111>>,
                <<115, 104, 101, 108, 108>> >>
RootTypes == <<"dir", "rtc", "file", "file">>
RootHeaders == <<"short", "short", "elf", "elf">>

P == INSTANCE Printf WITH DIGITS <- PWIDTH, Pointee <- [w \in PVALUES |-> Array(Said, 3)]
L == INSTANCE CommandLine WITH NAME_LENGTH <- 2, BUF_LENGTH <- 3, Directory <- DirNames,
                               Headers <- DirHeaders
K == INSTANCE Calls WITH NAME_LENGTH <- 32, BUF_LENGTH <- 128, Directory <- RootNames,
                         Types <- RootTypes, Headers <- RootHeaders

Idle == [fn |-> "none"]
LibraryInit == call = Idle

Calling(fn, inputs, result) == call' = [fn |-> fn, in |-> inputs, out |-> result]

Return == call # Idle /\ call' = Idle

Texts(S, n) == UNION {[1 .. k -> S] : k \in 0 .. n}

-----------------------------------------------------------------------------
(* Block operations: every alignment, every distance and both directions.   *)
Memory0 == [a \in 0 .. MEM - 1 |-> a + 1]

Copy(fn, Op(_, _, _, _)) ==
    /\ call = Idle
    /\ \E dest, src \in 0 .. MEM - 1, n \in 0 .. BLOCK :
           /\ dest + n <= MEM /\ src + n <= MEM
           /\ Calling(fn, [dest |-> dest, src |-> src, n |-> n], Op(Memory0, dest, src, n))
CallMemcpy == Copy("memcpy", memcpy)
CallMemmove == Copy("memmove", memmove)

Set(fn, width, Op(_, _, _, _)) ==
    /\ call = Idle
    /\ \E s \in 0 .. MEM - 1, n \in 0 .. BLOCK, c \in {0, 77, 300} :
           /\ s + (width * n) <= MEM
           /\ Calling(fn, [s |-> s, c |-> c, n |-> n, width |-> width], Op(Memory0, s, c, n))
CallMemset == Set("memset", 1, memset)
CallMemsetWord == Set("memset_word", 2, memset_word)
CallMemsetDword == Set("memset_dword", 4, memset_dword)

(* The block operations of lib.c (memcpy moves the screens of change_shell, *)
(* the blocks of read_data, the line of terminal_read and the PCBs): the n  *)
(* bytes of the destination become the bytes the source had before the      *)
(* call, and no other byte changes, for every alignment the copy splits at. *)
(* memmove for any overlap; memcpy, which only copies upwards, where the    *)
(* destination is not inside the source.  The fills repeat the low byte,    *)
(* the low word or the whole of c.                                          *)
Copied(in, out) ==
    \A a \in DOMAIN out :
        out[a] = IF a \in in.dest .. in.dest + in.n - 1 THEN Memory0[in.src + a - in.dest]
                                                        ELSE Memory0[a]
Filled(in, out) ==
    \A a \in DOMAIN out :
        out[a] = IF a \in in.s .. in.s + (in.width * in.n) - 1
                   THEN (in.c \div (256 ^ ((a - in.s) % in.width))) % 256
                   ELSE Memory0[a]
MemoryRight ==
    /\ call.fn = "memmove" => Copied(call.in, call.out)
    /\ call.fn = "memcpy" =>
          \/ call.in.dest \in call.in.src + 1 .. call.in.src + call.in.n - 1
          \/ Copied(call.in, call.out)
    /\ call.fn \in {"memset", "memset_word", "memset_dword"} => Filled(call.in, call.out)

-----------------------------------------------------------------------------
(* Strings of lib.c and ece391support.c.                                    *)
Buffer0 == [i \in 0 .. STR + 2 |-> 7]   \* what the destination held

CallStrncmp ==
    /\ call = Idle
    /\ \E a, b \in Texts(Letters, STR), n \in 0 .. STR + 1 :
           LET s1 == Array(a, Len(a) + 1)
               s2 == Array(b, Len(b) + 1)
           IN  Calling("strncmp", [a |-> a, b |-> b, n |-> n],
                       <<strncmp(s1, s2, n), ece391_strncmp(s1, s2, n), ece391_strcmp(s1, s2)>>)
CallStrcpy ==
    /\ call = Idle
    /\ \E a \in Texts(Letters, STR) :
           Calling("strcpy", [a |-> a], strcpy(Buffer0, Array(a, Len(a) + 1)))
CallStrncpy ==
    /\ call = Idle
    /\ \E a \in Texts(Letters, STR), n \in 0 .. STR + 2 :
           Calling("strncpy", [a |-> a, n |-> n], strncpy(Buffer0, Array(a, Len(a) + 1), n))
CallItoa ==
    /\ call = Idle
    /\ \E v \in Values, radix \in {2, 10, 16} :
           Calling("itoa", [v |-> v, radix |-> radix],
                   <<Text(itoa(v, Array(<< >>, 16), radix)),
                     Text(ece391_itoa(v, Array(<< >>, 16), radix))>>)

(* The value of a text of digits, the texts that mean a value, and the      *)
(* first n characters of a text.                                            *)
ValueOf(text, radix) ==
    FoldFunction(LAMBDA x, y : x + y, 0,
                 [i \in DOMAIN text |-> (text[i] - Zero) * (radix ^ (Len(text) - i))])
NumeralOf(text, v, radix) ==
    /\ text # << >> /\ \A i \in DOMAIN text : text[i] - Zero \in 0 .. radix - 1
    /\ ValueOf(text, radix) = v
ShortNumeral(text, v, radix) == NumeralOf(text, v, radix) /\ (text[1] = Zero => Len(text) = 1)
Cut(text, n) == SubSeq(text, 1, IF n < Len(text) THEN n ELSE Len(text))

(* The string functions of lib.c and ece391support.c, on which the search   *)
(* of the directory, open, getargs and the shell depend: strncmp and its    *)
(* copy in the programs order two strings by their first n characters and   *)
(* never look past a NUL; strncpy writes n bytes and no more, which is what *)
(* getargs relies on, and leaves out the NUL when the string fills them;    *)
(* itoa writes the shortest text of digits that means the value.            *)
Sign(x) == IF x < 0 THEN -1 ELSE IF x > 0 THEN 1 ELSE 0
Order(a, b) == IF Before(a, b) THEN -1 ELSE IF a = b THEN 0 ELSE 1
StringsRight ==
    /\ call.fn = "strncmp" =>
          LET a == call.in.a
              b == call.in.b
              limited == Order(Cut(a, call.in.n), Cut(b, call.in.n))
          IN  /\ Sign(call.out[1]) = limited
              /\ Sign(call.out[2]) = limited
              /\ Sign(call.out[3]) = Order(a, b)
    /\ call.fn = "strcpy" =>
          call.out = [i \in DOMAIN Buffer0 |->
                         IF i <= Len(call.in.a) THEN Array(call.in.a, STR + 3)[i] ELSE Buffer0[i]]
    /\ call.fn = "strncpy" =>
          call.out = [i \in DOMAIN Buffer0 |->
                         IF i < call.in.n THEN Array(call.in.a, STR + 3)[i] ELSE Buffer0[i]]
    /\ call.fn = "itoa" =>
          \A k \in 1 .. 2 : ShortNumeral(call.out[k], call.in.v, call.in.radix)

-----------------------------------------------------------------------------
(* printf: a format of up to two pieces with an argument for each.          *)
CallPrintf ==
    /\ call = Idle
    /\ \E fmt \in Texts(Pieces, 2), args \in [1 .. 2 -> Words] :
           Calling("printf", [fmt |-> fmt, args |-> args],
                   P!printf(FlattenSeq(fmt), args))

(* printf writes the text of each piece of the format in turn: a literal    *)
(* as it is, %% as one sign, %u and %x the digits of the word, %d with the  *)
(* sign of the word as two's complement (the most negative one included),   *)
(* %#x with zeros in front up to the width of a word, %c one byte, %s the   *)
(* string; each conversion that shows something takes the next argument and *)
(* no other does.  The result is the length of the format.                  *)
IsConversion(p) == Head(p) = P!Codes.percent /\ P!TakesArgument(Last(p))
LOCAL TakenBefore(fmt, i) == Cardinality({j \in 1 .. i - 1 : IsConversion(fmt[j])})
Shows(text, p, arg) ==
    LET c == Last(p)
    IN  CASE Head(p) # P!Codes.percent -> text = p
          [] Head(p) = P!Codes.percent /\ ~IsConversion(p) ->
                text = IF c = P!Codes.percent THEN <<c>> ELSE << >>
          [] c = P!Codes.x /\ Len(p) = 2 /\ IsConversion(p) -> ShortNumeral(text, arg, 16)
          [] c = P!Codes.x /\ Len(p) > 2 /\ IsConversion(p) ->
                NumeralOf(text, arg, 16) /\ Len(text) = PWIDTH
          [] c = P!Codes.u /\ IsConversion(p) -> ShortNumeral(text, arg, 10)
          [] c = P!Codes.d /\ IsConversion(p) ->
                IF 2 * arg < 16 ^ PWIDTH THEN ShortNumeral(text, arg, 10)
                ELSE /\ text # << >> /\ text[1] = P!Codes.minus
                     /\ ShortNumeral(Tail(text), (16 ^ PWIDTH) - arg, 10)
          [] c = P!Codes.c /\ IsConversion(p) -> text = <<arg % 256>>
          [] c = P!Codes.s /\ IsConversion(p) -> text = Said
PrintfRight ==
    call.fn = "printf" =>
        LET fmt == call.in.fmt
            n == Len(fmt)
            Arg(i) == call.in.args[TakenBefore(fmt, i) + 1]
            out == call.out.out
        IN  /\ call.out.used = Cardinality({i \in 1 .. n : IsConversion(fmt[i])})
            /\ call.out.ret = Len(FlattenSeq(fmt))
            /\ CASE n = 0 -> out = << >>
                 [] n = 1 -> Shows(out, fmt[1], Arg(1))
                 [] n = 2 -> \E k \in 0 .. Len(out) :
                                /\ Shows(SubSeq(out, 1, k), fmt[1], Arg(1))
                                /\ Shows(SubSeq(out, k + 1, Len(out)), fmt[2], Arg(2))

-----------------------------------------------------------------------------
(* A typed line, with or without its newline, with and without a free slot  *)
(* and a magic number left on the stack; and getargs by the program.        *)
CallShell ==
    /\ call = Idle
    /\ \E typed \in Texts(Letters \cup {SPACE}, LINE), ending \in {<< >>, <<NEWLINE>>},
          full, stale \in BOOLEAN :
           Calling("shell", [typed |-> typed, full |-> full, stale |-> stale],
                   L!Shell(typed \o ending, full, stale))
CallGetargs ==
    /\ call = Idle
    /\ \E args \in Texts(Letters \cup {SPACE}, 2), n \in -1 .. 4,
          buf \in {0} \cup {L!USER_PROG + i : i \in {-1, 0, L!FOUR_MB - 3, L!FOUR_MB}} :
           Calling("getargs", [args |-> args, buf |-> buf, n |-> n], L!getargs(args, buf, n))

(* From the line typed at the prompt to what the program gets.  An empty    *)
(* line does nothing.  The program run is the one whose whole name is the   *)
(* first word (a beginning of a name is not enough), if its file starts     *)
(* with the magic number and a slot is free; a file too short for one, as   *)
(* those of "." and rtc, is run only where the stack still holds a magic    *)
(* number.  The arguments are the rest of the line without the spaces in    *)
(* front, cut to the room of the pcb.  getargs gives exactly them, with a   *)
(* NUL and within nbytes, or refuses when there are none, they do not fit   *)
(* or the buffer is not the program's; it writes outside the page only for  *)
(* a count that is negative or reaches out of it.  The first word must be   *)
(* no longer than a name can be.                                            *)
ArgumentsRight ==
    /\ call.fn = "shell" =>
        LET typed == call.in.typed
            word == CHOOSE k \in 0 .. Len(typed) :
                       /\ k = Len(typed) \/ typed[k + 1] = SPACE
                       /\ \A i \in 1 .. k : typed[i] # SPACE
            named == {d \in 1 .. Len(DirNames) : DirNames[d] = SubSeq(typed, 1, word)}
            after == {k \in word + 1 .. Len(typed) : typed[k] # SPACE}
            args == IF after = {} THEN << >> ELSE Cut(SubSeq(typed, Min(after), Len(typed)), 2)
            program == {d \in named : DirHeaders[d] = "elf"}
            short == {d \in named : DirHeaders[d] = "short"}
        IN  word <= 2 =>
              /\ (call.out.does = "nothing") <=> (typed = << >>)
              /\ ~call.in.full /\ program # {} => call.out.does = "execute"
              /\ call.out.does = "execute" =>
                    /\ ~call.in.full
                    /\ call.out.program \in program \/ (call.in.stale /\ call.out.program \in short)
                    /\ call.out.args = args
    /\ call.fn = "getargs" =>
        LET args == call.in.args
            n == call.in.n
            room == L!USER_PROG + L!FOUR_MB - call.in.buf
            does == call.out.does
        IN  /\ does = "refused" <=> \/ args = << >> \/ room \notin 1 .. L!FOUR_MB
                                    \/ n \in 0 .. Len(args)
            /\ does = "overrun" => n < 0 \/ n > room
            /\ does = "copy" => /\ n <= room
                                /\ call.out.bytes = [i \in 1 .. n |->
                                       IF i <= Len(args) THEN args[i] ELSE NUL]

-----------------------------------------------------------------------------
(* System calls on a table whose descriptors in use are any of 2 to 7.      *)
Tables == {[fd \in 0 .. 7 |-> IF fd \in used THEN kind ELSE K!FreshTable[fd]] :
              used \in SUBSET (2 .. 7), kind \in {"rtc", "dir", "file"}}

CallClose ==
    /\ call = Idle
    /\ \E table \in Tables, fd \in Descriptors :
           Calling("close", [table |-> table, arg |-> fd], K!close(table, fd))
Transfer(fn, Op(_, _, _, _)) ==
    /\ call = Idle
    /\ \E table \in Tables, fd \in Descriptors, buf \in {K!NULL, <<256>>, <<1024>>}, n \in {-1, 4, 31} :
           Calling(fn, [table |-> table, arg |-> fd, buf |-> buf, n |-> n], Op(table, fd, buf, n))
CallRead == Transfer("read", K!read)
CallWrite == Transfer("write", K!write)
CallOpen ==
    /\ call = Idle
    /\ \E table \in Tables, name \in FileNames :
           Calling("open", [table |-> table, arg |-> name], K!Do(table, K!C("open", name)))
CallOther ==
    /\ call = Idle
    /\ \E c \in {"vidmap", "call_sys"}, x \in Descriptors \cup {9, 10, 11, K!FOUR_MB}
                                             \cup {K!USER_PROG + i : i \in {-1, 0, K!FOUR_MB - 1, K!FOUR_MB}} :
           Calling(c, [table |-> K!FreshTable, arg |-> x], K!Do(K!FreshTable, K!C(c, x)))
CallSyserr ==
    /\ call = Idle
    /\ \E select \in 0 .. 9 : Calling("syserr", [select |-> select], K!syserr(select))

(* What the system calls promise to ece391syserr and to every program: each *)
(* of its tests passes on a new process and leaves the table as it was, and *)
(* for any table a read or write is refused exactly when the descriptor is  *)
(* out of range, not open or of a kind that does not have the call, when    *)
(* the terminal gets no buffer or a negative count, or the RTC anything but *)
(* four bytes with one of its rates; open takes the lowest free descriptor  *)
(* for a file of exactly that name and changes no other, but gives stdin or *)
(* stdout for every beginning of those names; close frees that one only;    *)
(* vidmap wants a pointer into the program.  Of the numbers only 1 to 8 are *)
(* calls that do something.                                                 *)
CallsRefused ==
    LET t == call.in.table
        x == call.in.arg
        refused == call.out.ret = -1
        unchanged == call.out.table = t
        usable == call.in.n >= 0 /\ call.in.buf # K!NULL
    IN  /\ call.fn = "syserr" => call.out = [ret |-> 0, table |-> K!FreshTable]
        /\ call.fn = "read" =>
              /\ ~refused <=> (x = 0 /\ usable) \/ (x \in 2 .. 7 /\ t[x] # "free")
              /\ unchanged
        /\ call.fn = "write" =>
              /\ ~refused <=> \/ x = 1 /\ usable
                              \/ x \in 2 .. 7 /\ t[x] = "rtc" /\ usable
                                   /\ call.in.n = 4 /\ call.in.buf = <<1024>>
              /\ unchanged
        /\ call.fn = "close" =>
              IF x \in 2 .. 7 /\ t[x] # "free"
                THEN ~refused /\ call.out.table = [t EXCEPT ![x] = "free"]
                ELSE refused /\ unchanged
        /\ call.fn = "open" =>
              LET free == {fd \in 2 .. 7 : t[fd] = "free"}
                  entry == {d \in 1 .. Len(RootNames) : RootNames[d] = x}
              IN  IF x # << >> /\ (IsPrefix(x, K!STDIN) \/ IsPrefix(x, K!STDOUT))
                    THEN call.out.ret = (IF IsPrefix(x, K!STDIN) THEN 0 ELSE 1) /\ unchanged
                  ELSE IF entry = {} \/ free = {} THEN refused /\ unchanged
                  ELSE /\ call.out.ret = Min(free)
                       /\ \E d \in entry :
                             call.out.table = [t EXCEPT ![Min(free)] = RootTypes[d]]
        /\ call.fn = "vidmap" => (refused <=> x - K!USER_PROG \notin 0 .. K!FOUR_MB - 1)
        /\ call.fn = "call_sys" => (refused <=> x \notin 1 .. 8)

-----------------------------------------------------------------------------
(* The search of a text file; data starts with anything.                    *)
CallGrep ==
    /\ call = Idle
    /\ \E file \in Texts(Letters \cup {NEWLINE}, FILE), before, byte \in {NUL, 97, NEWLINE} :
           LET data == [i \in 0 .. BUFSIZE |-> IF i = BUFSIZE THEN byte ELSE before]
           IN  \E s \in { <<97>>, <<97, 98>> } :
                  Calling("grep", [file |-> file, s |-> s, byte |-> byte],
                          do_one_file(Array(s, Len(s) + 1), file, data))

(* ece391grep shows each line of a file that contains the text searched,    *)
(* once, whole and in the order of the file, wherever the reads of BUFSIZE  *)
(* bytes cut the lines and whether or not the last one ends in a newline.   *)
(* It holds for lines of at most BUFSIZE bytes, and when the byte after the *)
(* buffer, which the search reads before it wrote it, is not a newline.     *)
FileLines(file) ==
    LET ends == {i \in 1 .. Len(file) : file[i] = NEWLINE} \cup {Len(file) + 1}
        LineAt(e) == SubSeq(file, Max({0} \cup {i \in ends : i < e}) + 1, e - 1)
    IN  [k \in 1 .. Cardinality(ends) |->
            LineAt(CHOOSE e \in ends : Cardinality({i \in ends : i < e}) = k - 1)]
HasText(line, s) == \E i \in 0 .. Len(line) - Len(s) : SubSeq(line, i + 1, i + Len(s)) = s
GrepRight ==
    call.fn = "grep" =>
        LET lines == FileLines(call.in.file)
        IN  (\A k \in DOMAIN lines : Len(lines[k]) <= BUFSIZE) /\ call.in.byte # NEWLINE
              => call.out = SelectSeq(lines, LAMBDA line : HasText(line, call.in.s))

-----------------------------------------------------------------------------
LibraryNext ==
    \/ Return
    \/ CallMemcpy \/ CallMemmove
    \/ CallMemset \/ CallMemsetWord \/ CallMemsetDword
    \/ CallStrncmp \/ CallStrcpy \/ CallStrncpy \/ CallItoa
    \/ CallPrintf \/ CallShell \/ CallGetargs
    \/ CallClose \/ CallRead \/ CallWrite \/ CallOpen \/ CallOther \/ CallSyserr
    \/ CallGrep

LibrarySpec == LibraryInit /\ [][LibraryNext]_call
=============================================================================
