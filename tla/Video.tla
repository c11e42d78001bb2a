------------------------------- MODULE Video -------------------------------
(***************************************************************************)
(* Video memory shared by the terminals.  There is one physical text page; *)
(* the output of the terminals that are not displayed goes to a buffer page*)
(* each.  The kernel writes through one virtual page, video_mem, and a     *)
(* program that called vidmap through another; switch_process (pit.c), the *)
(* keyboard handler (kb.c) and vidmap (syscalls.c) remap them, and         *)
(* change_shell (lib.c) moves the contents.                                *)
(*                                                                         *)
(* A page is abstracted to the last output it shows.  terminal_write is    *)
(* between cli and sti and the handlers have IF = 0: a step each.  vidmap  *)
(* is one step: a tick between its statements is undone by the last one.   *)
(***************************************************************************)
EXTENDS Integers, Sequences

CONSTANTS
    SHELL_NUM,   \* terminals; the code has 3
    Marks,       \* what an output may leave on a page
    MaxDepth,    \* bound: processes in the chain of a terminal
    AnySlice     \* whether programs draw through the page of vidmap in every
                 \* slice, or only in the settled ones

ASSUME VideoAssumption ==
    /\ SHELL_NUM \in Nat \ {0}
    /\ MaxDepth \in Nat \ {0}
    /\ AnySlice \in BOOLEAN
    /\ "blank" \notin Marks

Terms == 0 .. SHELL_NUM - 1

VARIABLES
    cur_terminal,    \* the displayed terminal
    cur_sched_term,  \* the terminal that has the processor
    print_terminal,  \* the terminal whose cursor putc uses
    phys,            \* content of physical video memory
    vid_mem,         \* content of the buffer page of each terminal
    table1,          \* where the kernel's video page points: PHYS or a terminal
    table2,          \* where the programs' video page points
    vid_map,         \* sched_arr[t].vid_map
    vidmem,          \* pcb.vidmem of every process of the chain of t
    settled          \* history: neither vidmap nor a change of the displayed
                     \* terminal since the last tick

PHYS == -1   \* physical video memory as a target of a page
NONE == -2   \* not present
Pages == Terms \cup {PHYS}

display == <<cur_terminal, phys, vid_mem>>
procs == <<vid_map, vidmem, settled>>
vars == <<display, cur_sched_term, print_terminal, table1, table2, procs>>

Blank(t) == [by |-> t, mark |-> "blank"]
Drawn(t, m) == [by |-> t, mark |-> m]
Content == [by : Terms, mark : Marks \cup {"blank"}]

TypeOK ==
    /\ cur_terminal \in Terms
    /\ cur_sched_term \in Terms
    /\ print_terminal \in Terms
    /\ phys \in Content
    /\ vid_mem \in [Terms -> Content]
    /\ table1 \in Pages
    /\ table2 \in Pages \cup {NONE}
    /\ vid_map \in [Terms -> BOOLEAN]
    /\ vidmem \in [Terms -> Seq(BOOLEAN)]
    /\ settled \in BOOLEAN

(* init_page_table, init_shell, pit_init, launch: the root shells run.      *)
Init ==
    /\ cur_terminal = 0 /\ cur_sched_term = 0 /\ print_terminal = 0
    /\ phys = Blank(0)
    /\ vid_mem = [t \in Terms |-> Blank(t)]
    /\ table1 = PHYS
    /\ table2 = NONE
    /\ vid_map = [t \in Terms |-> FALSE]
    /\ vidmem = [t \in Terms |-> <<FALSE>>]
    /\ settled = TRUE

-----------------------------------------------------------------------------
(* A store of content c through a page that points to target.               *)
Store(target, c) ==
    /\ phys' = IF target = PHYS THEN c ELSE phys
    /\ vid_mem' = IF target \in Terms THEN [vid_mem EXCEPT ![target] = c] ELSE vid_mem

(* putc in a system call of the terminal that runs, and in the message of   *)
(* an exception.                                                            *)
terminal_write(m) ==
    /\ Store(table1, Drawn(cur_sched_term, m))
    /\ UNCHANGED <<cur_terminal, cur_sched_term, print_terminal, table1, table2, procs>>

(* vidmap maps physical video memory whatever terminal is displayed.        *)
vidmap ==
    LET t == cur_sched_term
        n == Len(vidmem[t])
    IN  /\ vidmem' = [vidmem EXCEPT ![t][n] = TRUE]
        /\ vid_map' = [vid_map EXCEPT ![t] = TRUE]
        /\ table2' = PHYS
        /\ settled' = FALSE
        /\ UNCHANGED <<display, cur_sched_term, print_terminal, table1>>

(* A program that called vidmap draws on its page.  Its slice is settled if *)
(* switch_process mapped the page at its start and nothing changed since.   *)
UserWrite(m) ==
    LET t == cur_sched_term
    IN  /\ vidmem[t][Len(vidmem[t])]
        /\ AnySlice \/ (settled /\ vid_map[t])
        /\ Store(table2, Drawn(t, m))
        /\ UNCHANGED <<cur_terminal, cur_sched_term, print_terminal, table1, table2, procs>>

(* execute gives the child a PCB with vidmem = 0.                           *)
execute ==
    LET t == cur_sched_term
    IN  /\ Len(vidmem[t]) < MaxDepth
        /\ vidmem' = [vidmem EXCEPT ![t] = Append(@, FALSE)]
        /\ UNCHANGED <<display, cur_sched_term, print_terminal, table1, table2, vid_map, settled>>

(* halt, or an exception: vid_map goes with the process that set it.        *)
halt ==
    LET t == cur_sched_term
        n == Len(vidmem[t])
    IN  /\ n > 1
        /\ vid_map' = IF vidmem[t][n] THEN [vid_map EXCEPT ![t] = FALSE] ELSE vid_map
        /\ vidmem' = [vidmem EXCEPT ![t] = SubSeq(@, 1, n - 1)]
        /\ UNCHANGED <<display, cur_sched_term, print_terminal, table1, table2, settled>>

-----------------------------------------------------------------------------
(* The page that holds the output of terminal t while d is displayed.       *)
Page(t, d) == IF t = d THEN PHYS ELSE t

(* The keyboard handler maps video_mem to physical memory for the echo and  *)
(* afterwards to the page of the terminal that runs.                        *)
NoRemap(d) == PHYS
AfterKey(d) == Page(cur_sched_term, d)

KeyEcho(m) ==
    /\ phys' = Drawn(cur_terminal, m)
    /\ table1' = AfterKey(cur_terminal)
    /\ print_terminal' = cur_sched_term
    /\ UNCHANGED <<cur_terminal, vid_mem, cur_sched_term, table2, procs>>

(* change_shell, called by the handler: the displayed page is saved and     *)
(* that of the next terminal is shown.                                      *)
SaveNothing(next) == vid_mem
SavePicture(next) == [vid_mem EXCEPT ![cur_terminal] = phys]

change_shell(next) ==
    /\ vid_mem' = SavePicture(next)
    /\ phys' = SavePicture(next)[next]
    /\ cur_terminal' = next
    /\ table1' = AfterKey(next)
    /\ print_terminal' = cur_sched_term
    /\ settled' = FALSE
    /\ UNCHANGED <<cur_sched_term, table2, vid_map, vidmem>>

(* switch_process.                                                          *)
PrintOn(n) == n
VidmapPage(n) == IF vid_map[n] THEN Page(n, cur_terminal) ELSE table2

NextTerm(t) == (t + 1) % SHELL_NUM

Tick ==
    LET n == NextTerm(cur_sched_term)
    IN  /\ cur_sched_term' = n
        /\ table1' = Page(n, cur_terminal)
        /\ table2' = VidmapPage(n)
        /\ print_terminal' = PrintOn(n)
        /\ settled' = TRUE
        /\ UNCHANGED <<display, vid_map, vidmem>>

Next ==
    \/ Tick
    \/ \E m \in Marks : terminal_write(m) \/ KeyEcho(m) \/ UserWrite(m)
    \/ \E n \in Terms : change_shell(n)
    \/ vidmap \/ execute \/ halt

Spec == Init /\ [][Next]_vars

-----------------------------------------------------------------------------
(***************************************************************************)
(* Properties.                                                             *)
(***************************************************************************)

(* The picture of a terminal: physical memory if it is displayed, else its  *)
(* buffer.                                                                  *)
Picture == [t \in Terms |-> IF t = cur_terminal THEN phys ELSE vid_mem[t]]

S == INSTANCE Screens WITH pic <- Picture, shown <- cur_terminal

(* The pages, mappings and copies implement independent screens: output     *)
(* through write, the echo of keys, and what programs draw through vidmap   *)
(* in settled slices reach the picture of their own terminal and no other,  *)
(* and Alt+Fn changes no picture.                                           *)
ImplementsScreens == S!Spec

(* putc moves the cursor of the terminal on whose page it writes: every     *)
(* handler that borrows print_terminal or video_mem gives both back.        *)
PrintTarget ==
    /\ print_terminal = cur_sched_term
    /\ table1 = Page(print_terminal, cur_terminal)

(* pit.c:83 "set user video mem to map to scheduled process' video buffer": *)
(* no screen shows the drawing of a program of another terminal.            *)
OwnPictures == \A t \in Terms : Picture[t].by = t
=============================================================================
