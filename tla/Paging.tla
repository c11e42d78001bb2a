------------------------------- MODULE Paging -------------------------------
(***************************************************************************)
(* The page directory and the two page tables (paging.c), what boot, launch *)
(* and the handlers put into them, and what the processor makes of them.    *)
(* Addresses are in pages of 4 KB.  The processor may have cached any       *)
(* version of an entry since cr3 was last loaded: old keeps them.           *)
(*                                                                          *)
(* The interrupt handlers, execute from cli on and the exception handler    *)
(* have IF = 0 and are one step each.  halt and vidmap run with IF = 1: a   *)
(* tick or a key may come between their writes and their load of cr3, so    *)
(* each of these is a step of its own.                                      *)
(*                                                                          *)
(* What a tick between the earlier statements of halt does to the kernel    *)
(* stacks is the subject of Process: here halt is on the stack of the       *)
(* process the scheduler names, and execute does not take the slot of a     *)
(* process that is still in halt (run halt_returns of Process).             *)
(***************************************************************************)
EXTENDS Integers

CONSTANTS
    SHELL_NUM,   \* terminals, each with a root shell; the code has 3
    MAX_PROGS,   \* process slots; the code has 6
    Pages        \* virtual pages whose translation is asked for

VIDEO == 184             \* VIDEO_MEM_ADDR
KERNEL == 1024           \* KERNEL_ADDR
USER_VIDEO == 17664      \* USER_VIDEO_MEM
PROGRAM == 32768         \* USER_PROG
LARGE == 1024            \* pages of a 4 MB page, and entries of a table
video_buffer(t) == VIDEO + 1 + t         \* FIRST_SHELL, SECOND_SHELL, THIRD_SHELL
Frame(p) == (2 * LARGE) + ((p - 1) * LARGE)   \* EIGHT_MB + (p - 1)*FOUR_MB

(* The buffers are pages of the first table.                                *)
ASSUME PagingAssumption ==
    /\ SHELL_NUM \in 1 .. LARGE - VIDEO - 1
    /\ MAX_PROGS \in Nat /\ MAX_PROGS >= SHELL_NUM
    /\ Pages \subseteq Nat

Terms == 0 .. SHELL_NUM - 1
Pids == 1 .. MAX_PROGS

VARIABLES
    mem,             \* the tables, and the versions of them since cr3 was loaded
    cur_terminal,    \* the displayed terminal
    cur_sched_term,  \* the terminal that has the processor
    process_array,   \* slot of each pid: 1 in use, -1 free
    sched_pid,       \* sched_arr[t].process_num
    vid_map,         \* sched_arr[t].vid_map
    parent_pid,      \* of each PCB
    vidmem,          \* of each PCB
    pc,              \* what the thread of each terminal does next
    cur_pcb          \* process that a halt of the terminal ends, 0 outside halt

procs == <<process_array, sched_pid, parent_pid>>
video == <<vid_map, vidmem>>
thread == <<pc, cur_pcb>>
vars == <<mem, cur_terminal, cur_sched_term, procs, video, thread>>

HaltPc == {"h_page", "h_vid", "h_flush"}
VidmapPc == {"v_table", "v_flush"}

TypeOK ==
    /\ cur_terminal \in Terms /\ cur_sched_term \in Terms
    /\ process_array \in [Pids -> {-1, 1}]
    /\ sched_pid \in [Terms -> Pids]
    /\ vid_map \in [Terms -> BOOLEAN]
    /\ parent_pid \in [Pids -> Pids \cup {0}]
    /\ vidmem \in [Pids -> BOOLEAN]
    /\ pc \in [Terms -> {"user"} \cup HaltPc \cup VidmapPc]
    /\ cur_pcb \in [Terms -> Pids \cup {0}]

-----------------------------------------------------------------------------
(* An entry has the mode it asks for: any, or only the kernel's.            *)
Modes == {"user", "kernel"}
Table(name, mode) == [kind |-> name, mode |-> mode, frame |-> 0]
Large(frame, mode) == [kind |-> "large", mode |-> mode, frame |-> frame]
Small(frame, mode) == [kind |-> "page", mode |-> mode, frame |-> frame]

(* Only the entries that are present; every other one is RW_NOT_PRESENT.    *)
init_page_directory ==
    [d \in {0, KERNEL \div LARGE, USER_VIDEO \div LARGE} |->
        CASE d = 0 -> Table("first", "kernel")
          [] d = KERNEL \div LARGE -> Large(KERNEL, "kernel")
          [] OTHER -> Table("second", "user")]
init_page_table == [i \in VIDEO .. VIDEO + SHELL_NUM |-> Small(i, "kernel")]
NoEntries == [i \in {} |-> Small(0, "kernel")]

Enter(table, i, entry) == [j \in DOMAIN table \cup {i} |-> IF j = i THEN entry ELSE table[j]]

Write(m, directory, first, second) ==
    [pages |-> [directory |-> directory, first |-> first, second |-> second],
     old |-> m.old \cup {m.pages}]
set_page_dir_entry(m, virtual, physical) ==
    Write(m, Enter(m.pages.directory, virtual \div LARGE, Large(physical, "user")),
          m.pages.first, m.pages.second)
set_page_table1_entry(m, virtual, physical) ==
    Write(m, m.pages.directory,
          Enter(m.pages.first, virtual % LARGE, Small(physical, "user")), m.pages.second)
set_page_table2_entry(m, virtual, physical) ==
    Write(m, m.pages.directory, m.pages.first,
          Enter(m.pages.second, virtual % LARGE, Small(physical, "user")))

(* movl cr3, movl cr3: the cached entries are gone.                         *)
Flush(m) == [pages |-> m.pages, old |-> {}]

(* What the processor does with a virtual page: both levels must allow the  *)
(* mode, and an entry of each may be any version of it.                     *)
FAULT == -1
Versions(m) == {m.pages} \cup m.old
Allows(entry, mode) == mode = "kernel" \/ entry.mode = "user"
Walk(directory, first, second, v, mode) ==
    LET d == v \div LARGE
        i == v % LARGE
    IN  IF d \notin DOMAIN directory THEN FAULT
        ELSE LET e == directory[d]
                 table == IF e.kind = "first" THEN first ELSE second
             IN  CASE ~Allows(e, mode) -> FAULT
                   [] Allows(e, mode) /\ e.kind = "large" -> e.frame + i
                   [] OTHER -> IF i \in DOMAIN table /\ Allows(table[i], mode)
                                 THEN table[i].frame ELSE FAULT
Translations(v, mode) ==
    {Walk(x.directory, y.first, y.second, v, mode) : x, y \in Versions(mem)}

-----------------------------------------------------------------------------
MapProgram(m, p) == set_page_dir_entry(m, PROGRAM, Frame(p))

(* init_paging and enable_paging, then launch: the shells are copied from   *)
(* the last to the first, each through the page of a program and with a     *)
(* load of cr3, so that the entry of the first one is left.                 *)
Boot ==
    Flush(MapProgram([pages |-> [directory |-> init_page_directory, first |-> init_page_table,
                                 second |-> NoEntries],
                      old |-> {}], 1))

Init ==
    /\ mem = Boot
    /\ cur_terminal = 0 /\ cur_sched_term = 0
    /\ process_array = [p \in Pids |-> IF p <= SHELL_NUM THEN 1 ELSE -1]
    /\ sched_pid = [t \in Terms |-> t + 1]
    /\ vid_map = [t \in Terms |-> FALSE]
    /\ parent_pid = [p \in Pids |-> 0]
    /\ vidmem = [p \in Pids |-> FALSE]
    /\ pc = [t \in Terms |-> "user"]
    /\ cur_pcb = [t \in Terms |-> 0]

(* The page on which terminal t is seen while d is displayed.               *)
Screen(t, d) == IF t = d THEN VIDEO ELSE video_buffer(t)

(* switch_process.                                                          *)
tick ==
    LET t == (cur_sched_term + 1) % SHELL_NUM
        page == Screen(t, cur_terminal)
        program == MapProgram(mem, sched_pid[t])
        drawn == IF vid_map[t] THEN set_page_table2_entry(program, USER_VIDEO, page) ELSE program
    IN  /\ cur_sched_term' = t
        /\ mem' = Flush(set_page_table1_entry(drawn, VIDEO, page))
        /\ UNCHANGED <<cur_terminal, procs, video, thread>>

(* keyboard_interrupt_handler: a key, which may be Alt+Fn to terminal n.    *)
key(n) ==
    LET t == cur_sched_term
        shown == Flush(set_page_table1_entry(mem, VIDEO, VIDEO))
    IN  /\ cur_terminal' = n
        /\ mem' = IF t = n THEN shown
                   ELSE Flush(set_page_table1_entry(shown, VIDEO, video_buffer(t)))
        /\ UNCHANGED <<cur_sched_term, procs, video, thread>>

At(t, label) == cur_sched_term = t /\ pc[t] = label
Goto(t, label) == pc' = [pc EXCEPT ![t] = label]

(* execute, from cli on: the child gets the first free slot.                *)
FreeSlot(p) == process_array[p] = -1 /\ \A q \in 1 .. p - 1 : process_array[q] # -1
InHalt(p) == \E u \in Terms : cur_pcb[u] = p

execute(t, p) ==
    /\ At(t, "user")
    /\ FreeSlot(p) /\ ~InHalt(p)
    /\ process_array' = [process_array EXCEPT ![p] = 1]
    /\ mem' = Flush(MapProgram(mem, p))
    /\ parent_pid' = [parent_pid EXCEPT ![p] = sched_pid[t]]
    /\ vidmem' = [vidmem EXCEPT ![p] = FALSE]
    /\ sched_pid' = [sched_pid EXCEPT ![t] = p]
    /\ UNCHANGED <<cur_terminal, cur_sched_term, vid_map, thread>>

(* The part that halt and the exception handler share: the slot is free and *)
(* the terminal runs the parent.  A root shell changes nothing in halt and  *)
(* does not fault.                                                          *)
Leave(t) ==
    LET p == sched_pid[t]
    IN  /\ At(t, "user")
        /\ p > SHELL_NUM
        /\ process_array' = [process_array EXCEPT ![p] = -1]
        /\ sched_pid' = [sched_pid EXCEPT ![t] = parent_pid[p]]
        /\ UNCHANGED <<cur_terminal, cur_sched_term, parent_pid, vidmem>>
VidMapAfter(t, p) == [vid_map EXCEPT ![t] = @ /\ ~vidmem[p]]

Exception(t) ==
    LET p == sched_pid[t]
    IN  /\ Leave(t)
        /\ mem' = Flush(MapProgram(mem, parent_pid[p]))
        /\ vid_map' = VidMapAfter(t, p)
        /\ UNCHANGED thread

HaltSched(t) ==
    /\ Leave(t)
    /\ cur_pcb' = [cur_pcb EXCEPT ![t] = sched_pid[t]]
    /\ Goto(t, "h_page")
    /\ UNCHANGED <<mem, vid_map>>
HaltPage(t) ==
    /\ At(t, "h_page")
    /\ mem' = MapProgram(mem, parent_pid[cur_pcb[t]])
    /\ Goto(t, "h_vid")
    /\ UNCHANGED <<cur_terminal, cur_sched_term, procs, video, cur_pcb>>
HaltVid(t) ==
    /\ At(t, "h_vid")
    /\ vid_map' = VidMapAfter(t, cur_pcb[t])
    /\ Goto(t, "h_flush")
    /\ UNCHANGED <<mem, cur_terminal, cur_sched_term, procs, vidmem, cur_pcb>>
HaltFlush(t) ==
    /\ At(t, "h_flush")
    /\ mem' = Flush(mem)
    /\ cur_pcb' = [cur_pcb EXCEPT ![t] = 0]
    /\ Goto(t, "user")
    /\ UNCHANGED <<cur_terminal, cur_sched_term, procs, video>>

VidmapMark(t) ==
    /\ At(t, "user")
    /\ vidmem' = [vidmem EXCEPT ![sched_pid[t]] = TRUE]
    /\ vid_map' = [vid_map EXCEPT ![t] = TRUE]
    /\ Goto(t, "v_table")
    /\ UNCHANGED <<mem, cur_terminal, cur_sched_term, procs, cur_pcb>>
VidmapTable(t) ==
    /\ At(t, "v_table")
    /\ mem' = set_page_table2_entry(mem, USER_VIDEO, VIDEO)
    /\ Goto(t, "v_flush")
    /\ UNCHANGED <<cur_terminal, cur_sched_term, procs, video, cur_pcb>>
VidmapNotFlushed(t) ==
    /\ At(t, "v_flush")
    /\ Goto(t, "user")
    /\ UNCHANGED <<mem, cur_terminal, cur_sched_term, procs, video, cur_pcb>>
VidmapFlush(t) ==
    /\ At(t, "v_flush")
    /\ mem' = Flush(mem)
    /\ Goto(t, "user")
    /\ UNCHANGED <<cur_terminal, cur_sched_term, procs, video, cur_pcb>>

Next ==
    \/ tick
    \/ \E n \in Terms : key(n)
    \/ \E t \in Terms : \E p \in Pids : execute(t, p)
    \/ \E t \in Terms :
          \/ Exception(t)
          \/ HaltSched(t) \/ HaltPage(t) \/ HaltVid(t) \/ HaltFlush(t)
          \/ VidmapMark(t) \/ VidmapTable(t) \/ VidmapFlush(t)

Spec == Init /\ [][Next]_vars

-----------------------------------------------------------------------------
(***************************************************************************)
(* Properties.                                                             *)
(***************************************************************************)
ProgramPages == PROGRAM .. PROGRAM + LARGE - 1
KernelPages == KERNEL .. KERNEL + LARGE - 1
Buffers == VIDEO + 1 .. VIDEO + SHELL_NUM

(* The processes whose memory the program page may show to terminal t: the  *)
(* one it runs; during halt also the one that ends.                         *)
Shown(t) == {sched_pid[t]} \cup ({cur_pcb[t]} \ {0})

(* Where virtual page v may lead the running terminal.                      *)
Reaches(v, mode) ==
    LET t == cur_sched_term
    IN  CASE v \in ProgramPages -> {Frame(p) + (v - PROGRAM) : p \in Shown(t)}
          [] v = USER_VIDEO ->
               Buffers \cup {VIDEO}
                  \cup (IF vid_map[t] /\ pc[t] \notin VidmapPc THEN {} ELSE {FAULT})
          [] mode = "kernel" /\ v = VIDEO -> {Screen(t, cur_terminal)}
          [] mode = "kernel" /\ v \in KernelPages \cup Buffers -> {v}
          [] OTHER -> {FAULT}

(* What the two levels of tables give, whichever versions of the entries    *)
(* the processor has cached and wherever a tick or a key interrupted halt   *)
(* or vidmap: a program reaches its own four megabytes and the page of      *)
(* vidmap, which never leads anywhere but to the screen or one of its       *)
(* buffers and is there for every program that has called vidmap, and       *)
(* nothing else (the kernel's video page, whose entry becomes a user entry, *)
(* included); the kernel finds itself, the buffers and, at the video page,  *)
(* the screen or the buffer of the terminal that runs.  Every path that     *)
(* changes an entry must load cr3 before the page is used.  No two          *)
(* terminals are shown the memory of the same process.                      *)
AddressesRight ==
    /\ \A v \in Pages, mode \in Modes : Translations(v, mode) \subseteq Reaches(v, mode)
    /\ \A t, u \in Terms : t # u => Shown(t) \cap Shown(u) = {}
=============================================================================
