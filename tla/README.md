# A TLA+ model of the ECE 391 operating system

The repository is a small teaching kernel for one x86 processor
(`src/student-distrib`): three text terminals, one shell on each, up to six
processes, a round robin over the terminals driven by the PIT, a keyboard line
discipline, a virtualised real-time clock, video memory shared by remapping,
and a read-only file system. This directory models the parts of it in which
several activities meet and the algorithms it is built from, checks them with TLC
and proves the safety of the core with TLAPS.

## 1. Inventory

| component | state | operations | modelled in |
|---|---|---|---|
| processes (`syscalls.c`, `idt_init.c`, `linkage.S`) | `process_num`, `process_array`, PCBs, kernel stacks, `tss.esp0`, page of the program | `launch`, `execute`, `halt`, exception, entry/exit of a system call | `Process` |
| scheduler (`pit.c`) | `cur_sched_term`, `prev_sched_term`, `sched_arr` | `pit_init`, `pit_interrupt_handler`, `switch_process` | `Process` (contexts), `Video` (pages), `Terminal` and `Rtc` (turns) |
| keyboard and line discipline (`kb.c`) | `kb_buf`, `buf_index`, `line_buffer_flag`, modifier flags, `cur_terminal` | the interrupt handler's branches, `terminal_read`, `terminal_open` | `Terminal` |
| real-time clock (`rtc.c`) | `frequencies`, `count`, `interrupt_flags` | interrupt handler, `rtc_open`, `rtc_write`, `rtc_read` | `Rtc` |
| video pages (`lib.c`, `paging.c`, `pit.c`, `kb.c`, `vidmap`) | physical page, three buffers, two remapped pages, `print_terminal`, `vid_map`, `vidmem` | `terminal_write`, key echo, `change_shell`, `vidmap`, `switch_process` | `Video`, abstractly `Screens` |
| screen text and cursor (`lib.c`, `kb.c`) | page, `x`, `y` of each terminal, the hardware cursor | `putc`, `new_line`, `scroll_up`, `back_space`, `clear`, `reset_screen`, `move_cursor` | `Console` |
| file system and descriptors (`file_system.c`, `syscalls.c`) | image (constant), `fdt` of a PCB | `read_data`, `file_read`, `dir_read`, `open`, `read`, `write`, `close` | `Files` |
| command line and arguments (`ece391shell.c`, `syscalls.c`) | `args` of a PCB | parsing in the shell and in `execute`, `read_dentry_by_name`, `getargs` | `CommandLine` |
| refusals of the system calls (`syscalls.c`, `linkage.S`, `ece391syserr.c`) | `fdt` | the checks of every call | `Calls` |
| interrupt controller, gates, boot order (`i8259.c`, `idt_init.c`, `boot.S`, `kernel.c`) | masks, requests, IF, the handlers on each stack | `i8259_init`, `enable_irq`, `disable_irq`, `send_eoi`, delivery, the handlers' protocol | `Interrupts` |
| paging (`paging.c`) | page directory, two page tables, what the processor caches of them | `init_paging`, `set_page_dir_entry`, the remapping functions, flushing | `Paging` (translation), `Video` (contents) |
| library (`lib.c`, `ece391support.c`) | none | `memcpy`, `memmove`, `memset*`, `strncmp`, `strcpy`, `strncpy`, `itoa`, `printf` ... | `Memory`, `Strings`, `Printf` |
| user programs | | `shell`, `syserr`, `grep` | `CommandLine`, `Calls`, `Grep`; the others not |
| bits of descriptors and port registers, tests | | | not modelled |

How they interact. There is one processor. Hardware interrupts (PIT, keyboard,
RTC) run with IF = 0 from entry to `iret`. A system call executes `sti` at its
entry, so everything in it that is not between `cli` and `sti` can be interrupted
after every instruction: by the keyboard and the RTC, which return, and by the
PIT, after which *another terminal* runs, possibly in the middle of a system call
of its own. The shared state is global variables indexed by one of two
different terminals: `cur_sched_term`, who runs, and `cur_terminal`, who is
displayed. Most of what is hard here is one of

* a tick in the middle of `halt` or before `cli` in `execute`;
* a variable of the displayed terminal used where the running one is meant, and
  the reverse, with Alt+Fn in between;
* state borrowed by an interrupt handler and given back;
* a flag set by an interrupt handler and awaited in a loop;
* a mask set by the handler of one terminal and cleared by that of another.

What makes each component correct: the count and the slots agree, each slot
has one owner and each halt returns to the execute that waits for it; a read
gets one line typed on its own terminal and the buffer is not overrun; an RTC
read waits for at most one period and for no old interrupt; output appears on the
screen of the terminal that made it; the line being typed is on the screen before the
cursor and Backspace stays inside it; handlers nest nowhere but in the first start of a
terminal, leave no line masked and run only when boot has set up what they use; a program reaches its own memory and the
screen, whatever translations the processor has cached; a command line runs the
program of exactly that name with exactly its arguments; the library functions
compute what their comments say. `PROJECT.json` lists the hazards line by
line with the properties that address them.

## 2. Modules

| module | contents |
|---|---|
| `Process` | the process and scheduling model and its properties |
| `Families` | abstract specification of the processes: one family of waiting programs per terminal |
| `ProcessInv` | the inductive invariants `IndInv` and `UserInv` and the refinement mapping to `Families` (no TLAPS constructs, so that TLC evaluates them) |
| `ProcessProofs` | the proofs, that of the refinement included |
| `Terminal`, `TerminalProofs` | keyboard input, its invariant and proofs |
| `Rtc`, `RtcProofs` | the real-time clock, its invariant and proofs |
| `Files`, `FilesProofs` | descriptors and the file system, their invariant and proofs |
| `Screens` | abstract specification of the display: one picture per terminal |
| `Video`, `VideoProofs` | the video pages, their invariant and the refinement of `Screens` |
| `Interrupts`, `InterruptsProofs` | boot, the two controllers and the protocol of the handlers, their invariant and proofs |
| `Console`, `ConsoleProofs` | the text of the terminals and the cursor, their invariant and proofs |
| `Paging`, `PagingProofs` | the page tables, what the processor makes of them, their invariant and proofs |
| `Memory`, `Strings`, `Printf` | `lib.c` and its copy in the programs, as functions |
| `CommandLine`, `Calls`, `Grep` | shell, parsing, `getargs`; refusals and `ece391syserr`; `ece391grep` |
| `Library` | calls the functions of these six modules on bounded inputs |
| `MCProcess`, `MCTerminal`, `MCRtc`, `MCFiles`, `MCVideo`, `MCInterrupts`, `MCConsole`, `MCLibrary` | what TLC is run on; `MCLibrary` puts `Library` and `Paging` side by side |

Definitions keep the names of the source. Where a definition exists in two forms
next to each other (`LimitOffByOne` before `LimitReached`), the first is the
faulty variant with which `PROJECT.json` shows that a property notices the fault.

### Process

`pc[t]` says where the thread of terminal `t` is: in user mode, in a system call, at
a statement of `execute` (`zero`, `body`) or `halt` (`h_load` ... `h_ret`), or before
its first start (`new`). A process owns the 8 KB kernel stack and the PCB at its low
end, so stack pointers are modelled by the pid of the stack: `tss_esp0`, `ks[t]`
(stack of the kernel context of `t`), `parent_ebp`. `frame[p]` is what stack `p`
holds: nothing, the live context of a terminal, or the frame of an execute that
waits for a child. A resume or a return that does not find the frame it needs sets
`wild`; the model stops there, because what the machine does next is undefined.

Steps: every interrupt handler is one step (IF = 0). Each statement of `halt` is
a step, and `process_num--` two, a load and a store, as an unoptimised build (the
Makefile's) compiles it. `execute` is the limit check, the test for zero, and one step
from `cli` to the jump to `context_switch`. The exception handler executes `cli`
first and is one step. Abstractions:

* `parent_esp` is a function of `parent_pid`; the `esp` and `ebp` that `halt` writes
  to `sched_arr` are overwritten by the tick that reads them.
* The first start of a terminal (`switch_process` jumping to `context_switch`) is
  part of the tick. That its last instructions run with interrupts on, on the stack of the
  terminal before, is the subject of `Interrupts` (`start`).
* A system call other than `execute` and `halt` is one state, `sys`, which may last for
  ever: `terminal_read` waits for Enter.
* The root shells do not fault (`Exception` has that guard): the handler would return
  through a `parent_ebp` that `launch` never wrote.
* `launch` succeeds: the shell is in the image. The failure of the second
  `read_data` in `execute` is unreachable, the first read of the same inode having
  succeeded.

The windows `dec`, `early`, `freed`, `tss` and `limit` name the stretches of code
that a tick should not split. `hits[w]` counts the ticks that fell into one, bounded
by `MaxHits` for TLC. The properties say which promise depends on which window:
`CountExact`, `ControlKept` and `OneChainPerTerminal` hold as long as no tick has
fallen into `dec` or `freed`; `SlotAvailable` needs also `early` and `limit`; `UserContext`
needs `tss` only. So the properties are exact about what the
missing `cli` in `halt` and `execute` costs, and everything else, ticks at any other
place included, is checked without restriction. A run shows that the restriction
is necessary: without it the code loses control (section 4).

`Families` says what all this is for: a slot belongs to a terminal or is free, a terminal
runs one process, a process waits for at most one child; `Execute` takes a free slot and
lets the caller wait, `End` frees it and lets the one that waits go on. The mapping
(`Owners`, `Leaves`, `Awaited`) counts a slot as taken until its `halt` has returned,
although `process_array` says otherwise from line 63 on, and reads who waits for whom from
the frames on the stacks. `ImplementsFamilies` asks of every step that it is one of these
two or leaves the families alone, as long as no tick has fallen into `dec` or `freed`.

### Terminal

One action per branch of `recent_release_exec` and `after_release_exec`, one step
each. `buf[t]` is `kb_buf[0 .. buf_index-1]`. `terminal_read` has three points:
`user` (not in a read), `wait` (the loop, IF = 1) and `copy` (the loop has ended, `cli`
not yet executed); the tick and the keyboard can intervene at each. `held` is the set
of modifier keys that are physically down. `race[t]` is a history of what disturbed
the input of `t`: `ahead`, an Enter while no read waits; `foreign`, the buffer was
served to or emptied by a thread of another terminal; `erased`, a Backspace after
Enter. It is cleared when a read of `t` takes its own buffer. A store past the end of
`kb_buf` overwrites `line_buffer_flag`; the model stops there (`Overflow`).
`terminal_open` evaluates `cur_terminal` and stores in one step. `Ctrl+L` repaints and
changes no state of this module; `terminal_close` is never reached because `close`
refuses descriptors 0 and 1. kb.c's global `flags` is harmless: `cli_and_save` stores
it after `cli`.

### Rtc

`waited` and `since` are histories: chip interrupts since the read started and since
the last simulated interrupt. Before the first `rtc_open` the divisor 0 acts as 1.
`rtc_write` accepts what is in `Freqs` (the code's list lacks 256). The rate belongs to the
terminal, so a child leaves its rate to the program that waits for it.

### Files

One process. Its table is private and the image constant, so neither ticks nor
other processes matter, and the model is sequential; what it is about is the
arithmetic of `read_data` and sequences of calls. A byte is named by its data block
and offset, so that `Content`, the reference, is independent of the loop. `rd` is the
state of the loop, one step per block; all its arithmetic is modulo `WORD`. A page
fault on the program's buffer is `halt` in the middle of a read. A read that runs past the
blocks of its inode is `astray`: only a negative count does that (`LoopInFile`), since
`read` hands the count to `read_data` as it is and `offset + length` then wraps. `got` and
`listed` are histories of what a descriptor has delivered since its open.

### Video and Screens

A page shows its last output, `[by, mark]`. `table1` is where the kernel's page
`video_mem` points, `table2` the page of `vidmap`. `vidmem[t]` has one entry per process
of the chain of `t`. `vidmap` is one step: its last statement overrides what a tick
in between had mapped. `settled` is TRUE when neither `vidmap` nor Alt+Fn happened since
the last tick. `AnySlice` chooses whether programs draw at any time or only in
settled slices in which `sched_arr[].vid_map` is set; with FALSE the pages implement
`Screens`, with TRUE they do not. The refinement mapping is `Picture`: physical
memory for the displayed terminal, the buffer for the others.

### Interrupts

`todo` is what boot still has to do, one step per call of `boot.S` and `entry`. `imr`,
`irr` and `isr` are the registers of both controllers as sets of lines; a line of the
slave reaches the processor through `CASCADE`, and `Rank` is the priority that results.
`stack[t]` holds the handlers active on the kernel stack of `t`, each at a point of the
protocol: entry, work, `enable_irq`, `iret`. The PIT handler masks line 0, acknowledges
it and then leaves its stack: the handler of the terminal that is resumed goes on and
unmasks the line; a terminal that is started for the first time unmasks it in
`switch_process`. `Cli` and `Sti` are the sections of system calls with interrupts off.
`unread` is register C of the RTC, without whose read the chip asks no more; before boot
has told the RTC to interrupt it is quiet. Lines without a gate (3 and 12 in the run)
may ask too; they stay masked. Spurious requests (line 7 without a request) are not
modelled: line 7 stays masked.

A first start has two ends. `StartTerminal` goes up to the `popf` of `context_switch`: line
0 is unmasked and interrupts are on, but the processor is still on the stack of the
terminal before, inside that one's PIT handler (`start` is `running`; `OnStack` says which
frames lie on which stack). `EnterProgram` is the `iret` into the new terminal. In between a
key or the RTC nests in the unfinished PIT handler and returns. A tick there saves a
context of the new terminal that lies on the stack of the other one (`SwitchAstray`); the
model ends with it, since what the two then do to each other's frames is arbitrary.

### Console

`screen[t]` is text, `x` and `y` of a terminal. That pages are kept apart is what `Video`
shows; here each terminal has its own. `cursor` has the two registers of the display and
the index that selects one. Boot has printed, so at the start the cursor is anywhere, and
only the displayed page has been cleared: the pages of the other terminals hold what was in
memory (`Leftovers`). `entry` calls `reset_screen` after `sti`, so its two stores, the two
loads for `move_cursor` and the writes of the registers are steps (`boot`, `args`) between
which a key may come; everywhere else `move_cursor` runs with interrupts off and is part of
an action. The index and the byte of the high register are one step, because a handler
in between leaves the index where it was.

`PressChar`, `PressEnter`, `PressBackspace` are the branches of the keyboard handler with
their echo, `Ctrl+L` clears and then prints the buffer again character by character
(`repaint`; the handler is not interrupted, the steps make each character a state). Programs
write and read as in `Terminal`, and draw through the page of `vidmap` (`Draw`), which is
that of their terminal or the displayed one (`vidmap_other_screen` in section 4).

`odd[t]` is a history of what spoils the page or the line of `t`: `early`, `reset_screen`
of boot moved a cursor that a key had moved; `dirty`, a program drew on the page or nobody
cleared it since boot; `mixed`, a program's output in the middle of a typed line; `joined`, a
Backspace that joined two lines. The last two end with the line, the first two (`Lasting`)
only with Ctrl+L. `raced` is TRUE when a key moved the cursor while boot was inside
`move_cursor`, until the cursor moves again. The model stops when the cursor is off the
page or the buffer overrun.

### Paging

Addresses are page numbers. `mem.pages` is the directory and the two tables, `mem.old` the
versions of them since `cr3` was last loaded; the processor may use any version of an entry
of either level, so that `Translations` gives a set of pages, and the property asks that
every one of them is right. Handlers with IF = 0 (`tick`, `key`, `Exception`, and `execute` from
`cli` on) are one step; `halt` and `vidmap` write an entry and load `cr3` with interrupts on, so
they are steps of their own (three after the change of `sched_arr`, two after the marks), and a tick,
a key and everything another terminal then does may come in between. The thread of `t` goes on
when the scheduler is back at `t`. Two things are left to `Process`: what a tick between the
earlier statements of `halt` does, and the reuse of the slot of a process that is still in
`halt` (`halt_returns` in section 4), which `execute` does not do here. The page of `vidmap`
stays present for programs that never asked for it; the property says that it leads to
nothing but the screen and its buffers.

### Library and its modules

These are sequential functions, so each is an operator, recursive where the code loops,
with characters as their codes, and arrays as functions from offsets, so that what lies
behind a string matters. `Library` is their driver: a step calls one with some
of the bounded inputs, the invariants compare the result with a definition of another
form (a set comprehension instead of a loop, the value of a numeral instead of its
digits, the lines of a file instead of its chunks). `Grep` has the buffer of the program
with the byte behind it that nothing initialises; the run tries several values of it.

In `CommandLine` the checks of `execute` are those of the code: a free slot, a file of that
name, the magic number. `Headers` says of each file whether it has one or is too short to;
for a short one the outcome depends on what was on the stack (`stale`, section 4). `getargs`
is refused, copies, or runs over the page of the program. `Calls` has the checks of the
devices too: terminals want a buffer and a count that is not negative, the RTC four bytes
with one of its rates; the numbers 9 and 10 are always refused.

## 3. Runs

| run | bounds | shows |
|---|---|---|
| `process_safety` | 2 terminals, 4 slots, one tick per window kind | the five safety properties, that `IndInv` is an invariant, the refinement of `Families`, and `EveryTerminalRuns` under `FairSpec` |
| `terminal_lines` | 2 terminals, buffer of 2, one letter, Enter, Backspace, Alt, Fn | lines, buffer bound, and `ReadReturns` under `FairSpec` |
| `terminal_modifiers` | 2 terminals, all modifiers, Fn | `SwitchNeedsAlt`, `ShiftStuckOnlyBySwitch` |
| `rtc` | 2 terminals, chip rate 8, frequencies 2, 4, 8 | the waiting time, and `ReadReturns` under `FairSpec` |
| `files` | 2 descriptors, blocks of 2 bytes, words of 16 values, files of 5 and 2 bytes, counts 0 to 5, -2, -1 | `FileInOrder`, `LoopInFile`, `ZeroIsEnd`, `ListedInOrder`, `ReadEnds` |
| `video` | 3 terminals, one mark, chains of 2 | `PrintTarget`, refinement of `Screens` |
| `interrupts` | 3 terminals, lines 0, 1, 2, 3, 8, 12, any masks and requests at the start | `OneHandler`, `LinesRestored`, `HandlersReady`, and `DevicesServed` under `FairSpec` |
| `console` | 2 terminals, 2 rows of 3 columns, buffer of 3, one key typed on terminal 0, one character of programs, one cell drawn, one page with something left in that cell, the cursor at any of 6 places at the start, registers of 3 values | `OnPage`, `TypedShown`, `BlankAfterCursor`, `CursorShown` |
| `library` | memory of 16 bytes, blocks up to 10, strings up to 3, formats of 2 pieces, typed lines up to 6, files with, without and too short for a magic number, negative counts, buffers in and outside the program, files up to 8 bytes with `BUFSIZE` 4; for `Paging` 2 terminals, 4 slots, the pages at and around every boundary of the two levels | one invariant for each group of functions, and `AddressesRight` |
| `halt_returns`, `read_other_terminal`, `vidmap_other_screen` | as above | counterexamples, section 4 |

Bounds. Two terminals suffice for every race here, since each is between a thread and
one other terminal; four slots allow chains of three, a full table and the reuse of
slots. `process_safety` has also been run with 3 terminals and 5 slots (6.3 million
states, no error). A buffer of two characters has a place before the last and the last
one, the two that `print_scancode` distinguishes. Chip rate 8 gives divisors 4, 2 and 1, so
that a count can be beyond a new divisor. The files of `files` end inside and at the end
of a block, the larger one has a block in the middle, and two descriptors fill the table. In `video` the third terminal is there so
that the one displayed, the one running and the one switched to can all be different. In
`interrupts` three terminals have first starts and resumes in both orders, and every line
may ask inside a first start. A screen of 2 by 3 with a buffer of 3 wraps, scrolls, and has lines that reach back over a row;
`ConsoleAssumption` keeps the relation between buffer and screen of the code (128 characters
fit in the 24 rows above the last). Registers of 3 values make a position of 6 cells need both
bytes. In `console` the user types on one terminal and switches to the other, whose
programs print and draw; the proofs have no such bounds. A block of 10 bytes at any of four alignments has each
head, double words and each tail of the copies. A file of 8 bytes takes `ece391grep` with a
buffer of 4 through three reads, with lines across both cuts. The functions
keep no state and do not see the page tables, so `library` calls them only in the initial state
of `Paging`. There two terminals and four slots allow a chain of three on one terminal and a `halt` on
both; `Paging` has also been run by itself with 3 terminals and 4 slots (90 400 states, no error).

`TypeOK` of `Process` is checked in its run as part of `IndInv`; those of the other modules document the
state and are proved as part of their invariants.

Deadlock is not checked in the runs of `Process` and `Terminal`: their models stop when
control is lost or the buffer overrun; so does `Console`. `Interrupts` stutters (`Halt`) where the
machine halts and after a tick in a first start. Deadlock is checked for `Rtc`, `Files`,
`Video`, `Interrupts`, `Paging` and `Library`.

Fairness. The PIT and the RTC keep interrupting (weakly fair; strongly in `Process`,
because there the bound `MaxHits` disables `Tick` inside windows, which the hardware
does not). A thread that gets slice after slice advances: a slice of 10 ms is
thousands of instructions, so the code's steps are strongly fair, except that nothing makes a
system call other than `execute` and `halt` return. `EveryTerminalRuns` therefore counts a
terminal as running when it has the processor in user mode or in such a call. In `Files`
weak fairness is enough, since only the process itself disables its steps. In `Interrupts` boot, the handlers and the end of
every section with interrupts off are weakly fair, and the processor takes a request that
reaches it again and again (strong fairness of `Deliver`); that lower priorities get their
turn is a premise of `DevicesServed`, not an assumption. Nothing is assumed of
the user, of when programs make system calls, or of faults.

## 4. Where the code departs from its comments

* **`halt_returns`**. `syscalls.c:38` "Returns to parent execute". `halt` frees its slot
  (line 63) and goes on running on the stack of that slot. A tick before the return
  lets another terminal's `execute` take the slot, write its PCB there and run its
  child on the same stack.
* **`read_other_terminal`**. `kb.c:199` "the number of bytes desired or the number of bytes
  typed". `terminal_read` waits on `cur_sched_term` and copies from `cur_terminal`.
* **`vidmap_other_screen`**. `pit.c:83` "set user video mem to map to scheduled process' video
  buffer". Between `vidmap` or Alt+Fn and the terminal's next tick the page still is
  physical memory; after a child's `halt` it may be another terminal's.

The runs above show these three. Met while modelling, and stated by the models as a
restriction of a property or a guard:

* The limit check of `execute` precedes `cli`, and `halt` lowers the count before it frees
  the slot, so that a tick in between lets two programs take the last place
  (`SlotAvailable` excludes the windows `early` and `limit`).
* The newline is exempt from the check for a full `kb_buf`: a full line that was ended
  before its read gets a second newline, past the end (`Overflow` in `Terminal`).
* A key between `sti` and `reset_screen` in `entry` leaves a character in the buffer and the
  cursor at the origin; a Backspace then moves the cursor off the page (`early`). A key inside
  the `move_cursor` of that call leaves the display's cursor elsewhere until it moves again (`raced`).
* The first start of a terminal turns interrupts on before it leaves the stack of the terminal
  before (`pit.c:114`, `linkage.S:21`): handlers nest there, and a tick would save a context that is
  then overwritten (`OneHandler`, `SwitchAstray`).
* The buffer pages of the terminals that are not displayed are never cleared before their
  shells print (`dirty`).
* `open` takes every non-empty beginning of `stdin` and `stdout` for the whole name; `CallsRefused`
  says so.
* `execute` checks the magic number in a buffer it has not initialised (`syscalls.c:279`). For `.` and
  `rtc`, whose inode has size 0 in the image, it is the stack that decides (`stale`).
* `getargs` compares lengths as unsigned numbers, so that a negative count passes and `strncpy`
  writes beyond the program (`overrun`).
* `memset_word` and `memset_dword` say "number of bytes to set" of their `n` (`lib.c:469`,
  `lib.c:489`); it counts words and double words, as the line `Function:` of the same comments and the
  code have it. `MemoryRight` states the latter.
* The list of `rtc_write` lacks 256.
* `execute` splits a first word longer than a file name into a name and arguments.
* `printf` with a `%` at the end of the format reads past it; the formats of `Library` have none.
* `memmove` leaves the direction flag set after a downward copy. Nothing in the kernel calls it.
* `ece391grep` looks at the byte behind its buffer before it wrote it, and takes a line longer than
  `BUFSIZE` for several.

## 5. Proofs

All for every number of terminals, slots and ticks, every buffer size, every set of
keys, every rate of the clock, every block and word size, every well-formed image, every
size of the screen. The assumptions are the `ASSUME`s of the modules, which TLC evaluates in
every run:

* `ShellAssumption`, `ProgsAssumption`, `HitsAssumption`: at least one terminal, a slot for
  each root shell;
* `TerminalAssumption`, `KeysAssumption`, `VideoAssumption`: non-empty buffer, keys that differ
  from the special ones, marks that differ from the blank page;
* `RtcAssumption`: the frequencies are between 2 and the rate of the chip;
* `FilesAssumption`, `ImageAssumption`: the directory is shorter than a word can count,
  every inode has the blocks its size needs, and these lie in the signed range (what the
  image builder writes);
* `InterruptsAssumption`: the lines the code serves exist;
* `ConsoleAssumption`: a full `kb_buf` fits on the page above the last row (128 against
  24 * 80 in the code);
* `PagingAssumption`: the video page and the buffers of the terminals are entries of the first
  table, and there is a slot for each root shell.

Each component has the same shape: an invariant that is inductive, one lemma per action
that preserves it, and the properties as consequences. Where a property alone is not
inductive, this is what has to be added:

**Process.** `Typing` needs a little more than `TypeOK`: `sched_pid` gets a value from
`parent_pid`, which is 0 in a root shell's PCB, so one has to know that every process that
can ever be halted has a parent, and that its parent has one (`HasParent`, `TypeInv`). The
other properties follow from `IndInv`. They are not inductive themselves: that a
halt returns to the right frame depends on where *every* terminal keeps its context,
because a tick or an execute elsewhere could write to the same stack. `IndInv`
therefore says, as long as no tick has hit `dec` or `freed`: the slots in use are chains,
stated link by link (`LeafOK`, `WaitingOK`, `ChildOK`, `EndOK`), from a root shell to the process
its terminal runs; each terminal's context is on the stack of that process (`ContextOK`);
the TSS agrees with the scheduler (`CpuOK`); only the running terminal can be inside a
window (`WindowsOK`); and the count is exact (`CountOK`). Two processes of different
terminals then have different stacks, because `Owner` is a function. `LimitOK` adds what
the limit check guarantees; a free slot follows from the count by cardinality.

`UserContextKept` holds also after ticks in `dec` and `freed`, where the chains may be broken,
so it cannot use `IndInv`. A halt whose slot was given away reads the PCB of somebody else and
maps the wrong page; but the same reuse has removed the frame it wants to return to, so it
loses control instead of reaching user mode. `UserInv` says so: at the end of a halt the
page and the parent are right, or no execute answers (`Answers`).

`ProcessImplementsFamilies` uses `IndInv` for the step simulation: three lemmas say what a
change of frames, slots and ends does to the mapped state (`FamilySame`, `FamilyExecute`,
`FamilyEnd`), and every action is an instance of one of them. `UndisturbedFamilies` restates it
as `Spec /\ []Undisturbed => F!Spec`.

**Terminal.** `TerminalInv`: the line of a terminal whose input is undisturbed is open (no
newline, room for one) while Enter is awaited, closed (newline at the end only) from
Enter until the copy, and empty between two reads; `AltNotStuck`: Alt is down whenever
the displayed terminal's flag says so. `ReadsOneLine`, `LineStaysReady`, `BufferStaysBounded`,
`DisplayChangesWithAlt` follow; `ShiftSticksOnlyBySwitch` is an action property, shown by one
case per branch of the keyboard handler.

**Rtc.** `RtcInv`: a read has waited for at most what `count` counts, and from the first
interrupt on the count is below the divisor (`WaitInv`); since the last simulated interrupt
the count is the number of chip interrupts (`RateInv`). `WaitBounded` alone is not inductive,
because `count` may be left over from a larger divisor when the read begins.

**Files.** `FilesInv`: the loop of `read_data` has copied exactly the bytes from `file_position`
to `cur`, `block` is the block of `cur`, and a loop that has gone astray has its end behind it
(`LoopInv`); each descriptor has delivered the bytes up to its position (`FileInv`, `DirInv`).
`NextBlockBegins` and `DivModUnique` are the arithmetic of the block boundary; it is proved, not
evaluated, so it holds for blocks of 4096 bytes and words of 2^32. `LoopApproachesEnd` gives the
variant behind `ReadEnds`: with a count that is not negative every step of the loop brings
`cur` nearer to `end`, and not past it.

**Interrupts.** `InterruptsInv` gives for each stage of boot the lines already unmasked
(`Booting`) and, once interrupts are on, ties masks, service and IF to the point the
handler has reached (`CurrentOK`). The handler that masks line 0 is left on the stack of another
terminal, so the invariant has to say of *every* stack that was left that it is inside the
PIT handler, about to unmask (`ParkedOK`). A terminal in its first start has nothing of its own on
a stack and the one before it is parked, so a handler that comes then is the second frame on that
stack and there is no third: it runs with interrupts off. `HandlersNestOnlyInStart`,
`LinesAlwaysRestored` and `HandlersAlwaysReady` follow.

**Console.** `ConsoleInv` says of each terminal, as far as its history `odd` allows: the cursor is
inside the page, everything from it on is blank, at least as many cells lie before it as the
buffer has characters to take back, and the characters of the buffer stand in these cells
(`Good`); while Ctrl+L prints, this holds for the part printed so far (`Printed`). `Display` follows
the steps of boot: which of `args` and of the two registers are already those of the displayed
terminal (`Homed`), unless a key has moved the cursor in between. Two facts carry it: a line that fits above the last row is not
scrolled off while it is typed, and moving by one cell is the same in rows and
columns as in `At` (`PutFacts`, `BackFacts`).

**Video.** `VideoInv`: the kernel's page and `print_terminal` belong to the running terminal,
and in a settled slice so does the page of `vidmap`. `VideoImplementsScreens` shows that
every step is an output to the picture of one terminal, a change of the displayed terminal
or a stutter; it assumes `AnySlice = FALSE`.

**Paging.** That the tables are right when a page is used depends on three things no single
step shows, and `PagingInv` is their conjunction. `ChainsInv`: there is a function `own` from
processes to terminals such that every process in use that is not a root shell has a parent with
the same owner, each terminal runs a process of its own, and the process a `halt` is ending
belongs to the terminal whose `halt` it is; so two terminals never show the same process.
`TablesInv`: every version of the tables, current or cached, has a closed form: the boot
directory with the frame of one process of the running terminal, the boot table with the
video page at one frame, a second table with no entry or one that leads to the screen or
a buffer. `CacheOK`: versions other than the current one exist only between a write and the
load of `cr3` of the same `halt` or `vidmap` (a tick or a key in between removes them), and
the program page is right again from that write on, ticks included. Without the last part
the property is not inductive: a `halt` that was interrupted after its write relies on the tick that
comes back to it having mapped the parent, because the step that wrote the entry will not
be repeated. `AddressesAlwaysRight` follows by one lemma per region of the address space and from
the arithmetic of `\div` and `%` on page numbers; `ProgramsIsolated` adds that the frames do not
overlap.

Only model-checked:

* the liveness properties `EveryTerminalRuns`, `ReadReturns`, `ReadEnds`, `DevicesServed`: the
  prover does not reason about fairness and ENABLED;
* the properties of `Library`: its functions are recursive operators, and what a recursion
  computes for every input needs induction over data, which is out of the prover's reach.

## 6. Not modelled

Not modelled:

* the bits of descriptors and table entries (`x86_desc.h`, `x86_desc.S`): constants of the
  architecture; that the entries lead where they should is `Paging`'s subject;
* the registers behind the ports of PIT and RTC: single stores without a protocol;
* spurious interrupts;
* the user programs `cat`, `ls`, `hello`, `counter`, `pingpong`, `testprint`, `sigtest`, `fish`:
  sequences of system calls without state of their own, so they are the environment; the
  emulation of the kernel under Linux (`ece391emulate.c`);
* signals: the two calls return -1;
* `tests.c` and the tests' launcher.

The first start of a terminal is one step in `Process`; `Interrupts` has it as two, but not what
follows a tick between them.
