---------------------------- MODULE VideoProofs ----------------------------
(***************************************************************************)
(* Video implements Screens for every number of terminals: the invariant   *)
(* that ties the two video pages to the terminal that runs, and the step   *)
(* simulation.                                                             *)
(***************************************************************************)
EXTENDS Video, TLAPS

(* Every chain has its root shell.                                          *)
ChainOK == \A t \in Terms : Len(vidmem[t]) \in Nat \ {0}

(* In a settled slice the page of vidmap is the page of the terminal that   *)
(* runs, if sched_arr says that its program uses it.                        *)
VidmapOK ==
    settled /\ vid_map[cur_sched_term] => table2 = Page(cur_sched_term, cur_terminal)

VideoInv == TypeOK /\ ChainOK /\ PrintTarget /\ VidmapOK

(* There is a terminal 0, the successor of a terminal is one, and no        *)
(* terminal is confused with physical memory.                               *)
LEMMA TermFacts ==
    /\ 0 \in Terms
    /\ \A t \in Terms : (t + 1) % SHELL_NUM \in Terms
    /\ PHYS \notin Terms /\ NONE \notin Terms /\ PHYS # NONE
BY VideoAssumption DEF Terms, PHYS, NONE

(* The page of a terminal is physical memory or its own buffer.             *)
LEMMA PageType == \A t \in Terms, d \in Terms : Page(t, d) \in Pages
BY DEF Page, Pages

(* What a page shows after an output is a content.                          *)
LEMMA ContentType ==
    \A t \in Terms : Blank(t) \in Content /\ \A m \in Marks : Drawn(t, m) \in Content
BY DEF Blank, Drawn, Content

(* A store through any page keeps the types of the pages.                   *)
LEMMA StoreType ==
    ASSUME TypeOK, NEW target, NEW c \in Content, Store(target, c)
    PROVE  phys' \in Content /\ vid_mem' \in [Terms -> Content]
BY DEF TypeOK, Store

(* The state after boot: the first shell runs on the displayed terminal.    *)
LEMMA InvInit == Init => VideoInv
<1> SUFFICES ASSUME Init PROVE VideoInv
  OBVIOUS
<1>1. TypeOK
  <2>1. <<FALSE>> \in Seq(BOOLEAN)
    OBVIOUS
  <2> QED
    BY <2>1, TermFacts, ContentType DEF Init, TypeOK, Pages
<1>2. ChainOK
  BY DEF Init, ChainOK
<1>3. PrintTarget
  BY TermFacts DEF Init, PrintTarget, Page
<1>4. VidmapOK
  BY TermFacts DEF Init, VidmapOK
<1> QED
  BY <1>1, <1>2, <1>3, <1>4 DEF VideoInv

(* Every handler and system call that remaps a page or switches a terminal  *)
(* keeps the invariant.                                                     *)
LEMMA InvStep == VideoInv /\ [Next]_vars => VideoInv'
<1> SUFFICES ASSUME VideoInv, [Next]_vars PROVE VideoInv'
  OBVIOUS
<1> USE DEF VideoInv
<1>a. cur_sched_term \in Terms /\ cur_terminal \in Terms
  BY DEF TypeOK
<1>1. ASSUME NEW m \in Marks, terminal_write(m) PROVE VideoInv'
  <2>1. TypeOK'
    <3>1. Drawn(cur_sched_term, m) \in Content
      BY <1>a, ContentType
    <3>2. phys' \in Content /\ vid_mem' \in [Terms -> Content]
      BY <1>1, <3>1, StoreType DEF terminal_write
    <3> QED
      BY <1>1, <3>2 DEF terminal_write, TypeOK, procs
  <2> QED
    BY <1>1, <2>1 DEF terminal_write, procs, ChainOK, PrintTarget, VidmapOK, Page
<1>2. ASSUME NEW m \in Marks, UserWrite(m) PROVE VideoInv'
  <2>1. TypeOK'
    <3>1. Drawn(cur_sched_term, m) \in Content
      BY <1>a, ContentType
    <3>2. phys' \in Content /\ vid_mem' \in [Terms -> Content]
      BY <1>2, <3>1, StoreType DEF UserWrite
    <3> QED
      BY <1>2, <3>2 DEF UserWrite, TypeOK, procs
  <2> QED
    BY <1>2, <2>1 DEF UserWrite, procs, ChainOK, PrintTarget, VidmapOK, Page
<1>3. ASSUME NEW m \in Marks, KeyEcho(m) PROVE VideoInv'
  <2>1. TypeOK'
    BY <1>3, <1>a, ContentType, PageType DEF KeyEcho, AfterKey, TypeOK, procs
  <2> QED
    BY <1>3, <2>1 DEF KeyEcho, AfterKey, procs, ChainOK, PrintTarget, VidmapOK, Page
<1>4. ASSUME NEW n \in Terms, change_shell(n) PROVE VideoInv'
  <2>1. TypeOK'
    BY <1>4, <1>a, PageType DEF change_shell, SavePicture, AfterKey, TypeOK
  <2> QED
    BY <1>4, <2>1 DEF change_shell, AfterKey, ChainOK, PrintTarget, VidmapOK, Page
<1>5. CASE vidmap
  <2> DEFINE t == cur_sched_term
             n == Len(vidmem[t])
  <2>1. /\ vidmem[t] \in Seq(BOOLEAN)
        /\ n \in 1 .. Len(vidmem[t])
    BY <1>a DEF TypeOK, ChainOK
  <2>2. [vidmem[t] EXCEPT ![n] = TRUE] \in Seq(BOOLEAN)
        /\ Len([vidmem[t] EXCEPT ![n] = TRUE]) = n
    BY <2>1
  <2>3. vidmem' = [vidmem EXCEPT ![t] = [vidmem[t] EXCEPT ![n] = TRUE]]
    BY <1>5 DEF vidmap
  <2>4. TypeOK'
    BY <1>5, <1>a, <2>2, <2>3 DEF vidmap, display, TypeOK, Pages
  <2>5. ChainOK'
    BY <1>a, <2>1, <2>2, <2>3 DEF ChainOK, TypeOK
  <2> QED
    BY <1>5, <2>4, <2>5 DEF vidmap, display, PrintTarget, VidmapOK, Page
<1>6. CASE execute
  <2> DEFINE t == cur_sched_term
  <2>1. vidmem[t] \in Seq(BOOLEAN)
    BY <1>a DEF TypeOK
  <2>2. Append(vidmem[t], FALSE) \in Seq(BOOLEAN)
        /\ Len(Append(vidmem[t], FALSE)) = Len(vidmem[t]) + 1
    BY <2>1
  <2>3. vidmem' = [vidmem EXCEPT ![t] = Append(vidmem[t], FALSE)]
    BY <1>6 DEF execute
  <2>4. TypeOK'
    BY <1>6, <1>a, <2>2, <2>3 DEF execute, display, TypeOK
  <2>5. ChainOK'
    BY <1>a, <2>1, <2>2, <2>3 DEF ChainOK, TypeOK
  <2> QED
    BY <1>6, <2>4, <2>5 DEF execute, display, PrintTarget, VidmapOK, Page
<1>7. CASE halt
  <2> DEFINE t == cur_sched_term
             n == Len(vidmem[t])
  <2>1. vidmem[t] \in Seq(BOOLEAN) /\ n \in Nat /\ n > 1
    BY <1>a, <1>7 DEF TypeOK, ChainOK, halt
  <2>2. SubSeq(vidmem[t], 1, n - 1) \in Seq(BOOLEAN)
        /\ Len(SubSeq(vidmem[t], 1, n - 1)) = n - 1
    BY <2>1
  <2>3. vidmem' = [vidmem EXCEPT ![t] = SubSeq(vidmem[t], 1, n - 1)]
    BY <1>7 DEF halt
  <2>4. TypeOK'
    BY <1>7, <1>a, <2>2, <2>3 DEF halt, display, TypeOK
  <2>5. ChainOK'
    BY <1>a, <2>1, <2>2, <2>3 DEF ChainOK, TypeOK
  <2>6. VidmapOK'
    BY <1>7, <1>a DEF halt, display, VidmapOK, Page, TypeOK
  <2> QED
    BY <1>7, <2>4, <2>5, <2>6 DEF halt, display, PrintTarget, Page
<1>8. CASE Tick
  <2>1. NextTerm(cur_sched_term) \in Terms
    BY <1>a, TermFacts DEF NextTerm
  <2>2. TypeOK'
    BY <1>8, <1>a, <2>1, PageType DEF Tick, VidmapPage, PrintOn, display, TypeOK
  <2> QED
    BY <1>8, <2>2 DEF Tick, VidmapPage, PrintOn, display, ChainOK, PrintTarget,
                      VidmapOK, Page
<1>9. CASE UNCHANGED vars
  BY <1>9 DEF vars, display, procs, TypeOK, ChainOK, PrintTarget, VidmapOK, Page
<1> QED
  BY <1>1, <1>2, <1>3, <1>4, <1>5, <1>6, <1>7, <1>8, <1>9 DEF Next

(* The mappings always lead back to the terminal that runs.                 *)
THEOREM VideoSafe == Spec => []VideoInv
BY InvInit, InvStep, PTL DEF Spec

(* putc writes the page, and moves the cursor, of the terminal that runs    *)
(* (print_terminal and video_mem in kb.c and pit.c).                        *)
THEOREM PrintsOnOwnPage == Spec => []PrintTarget
<1>1. VideoInv => PrintTarget
  BY DEF VideoInv
<1> QED
  BY <1>1, VideoSafe, PTL

-----------------------------------------------------------------------------
(* A store to the page of terminal t changes the picture of t only.         *)
LEMMA StoreOwnPage ==
    ASSUME VideoInv, NEW t \in Terms, NEW c,
           Store(Page(t, cur_terminal), c), UNCHANGED cur_terminal
    PROVE  Picture' = [Picture EXCEPT ![t] = c]
<1>1. cur_terminal \in Terms /\ vid_mem \in [Terms -> Content]
  BY DEF VideoInv, TypeOK
<1>2. CASE t = cur_terminal
  <2>1. phys' = c /\ vid_mem' = vid_mem
    BY <1>2, TermFacts DEF Store, Page
  <2> QED
    BY <1>1, <1>2, <2>1 DEF Picture
<1>3. CASE t # cur_terminal
  <2>1. phys' = phys /\ vid_mem' = [vid_mem EXCEPT ![t] = c]
    BY <1>3, TermFacts DEF Store, Page
  <2> QED
    BY <1>1, <1>3, <2>1 DEF Picture
<1> QED
  BY <1>2, <1>3

(* Every step of Video is a step of Screens or leaves the pictures alone,   *)
(* if programs draw through vidmap in settled slices only.                  *)
LEMMA ScreensStep ==
    ASSUME AnySlice = FALSE, VideoInv, [Next]_vars
    PROVE  [S!Next]_<<Picture, cur_terminal>>
<1>a. cur_sched_term \in Terms /\ cur_terminal \in Terms
  BY DEF VideoInv, TypeOK
<1>1. ASSUME NEW m \in Marks, terminal_write(m) PROVE S!Next
  <2>1. table1 = Page(cur_sched_term, cur_terminal)
    BY DEF VideoInv, PrintTarget
  <2>2. Picture' = [Picture EXCEPT ![cur_sched_term] = Drawn(cur_sched_term, m)]
    BY <1>1, <1>a, <2>1, StoreOwnPage DEF terminal_write
  <2>3. S!Output(cur_sched_term, m)
    BY <1>1, <2>2 DEF S!Output, S!Drawn, Drawn, terminal_write
  <2> QED
    BY <1>a, <2>3 DEF S!Next
<1>2. ASSUME NEW m \in Marks, UserWrite(m) PROVE S!Next
  <2>1. table2 = Page(cur_sched_term, cur_terminal)
    BY <1>2 DEF VideoInv, VidmapOK, UserWrite
  <2>2. Picture' = [Picture EXCEPT ![cur_sched_term] = Drawn(cur_sched_term, m)]
    BY <1>2, <1>a, <2>1, StoreOwnPage DEF UserWrite
  <2>3. S!Output(cur_sched_term, m)
    BY <1>2, <2>2 DEF S!Output, S!Drawn, Drawn, UserWrite
  <2> QED
    BY <1>a, <2>3 DEF S!Next
<1>3. ASSUME NEW m \in Marks, KeyEcho(m) PROVE S!Next
  <2>1. Store(Page(cur_terminal, cur_terminal), Drawn(cur_terminal, m))
    BY <1>3, TermFacts DEF KeyEcho, Store, Page
  <2>2. Picture' = [Picture EXCEPT ![cur_terminal] = Drawn(cur_terminal, m)]
    BY <1>3, <1>a, <2>1, StoreOwnPage DEF KeyEcho
  <2>3. S!Output(cur_terminal, m)
    BY <1>3, <2>2 DEF S!Output, S!Drawn, Drawn, KeyEcho
  <2> QED
    BY <1>a, <2>3 DEF S!Next
<1>4. ASSUME NEW n \in Terms, change_shell(n) PROVE S!Next
  <2>1. Picture' = Picture
    <3>1. vid_mem \in [Terms -> Content]
      BY DEF VideoInv, TypeOK
    <3> QED
      BY <1>4, <1>a, <3>1 DEF change_shell, SavePicture, Picture
  <2>2. S!Show(n)
    BY <1>4, <2>1 DEF S!Show, change_shell
  <2> QED
    BY <2>2 DEF S!Next
<1>5. CASE vidmap \/ execute \/ halt \/ Tick \/ UNCHANGED vars
  <2>1. UNCHANGED display
    BY <1>5 DEF vidmap, execute, halt, Tick, vars
  <2> QED
    BY <2>1 DEF display, Picture
<1> QED
  BY <1>1, <1>2, <1>3, <1>4, <1>5 DEF Next

(* The video pages, their mappings and the copies of change_shell implement *)
(* independent screens for every number of terminals (pit.c switch_process, *)
(* kb.c keyboard_interrupt_handler, lib.c change_shell and putc, syscalls.c *)
(* vidmap), in the slices where the page of vidmap is mapped.               *)
THEOREM VideoImplementsScreens ==
    ASSUME AnySlice = FALSE
    PROVE  Spec => ImplementsScreens
<1>1. Init => S!Init
  <2> SUFFICES ASSUME Init PROVE S!Init
    OBVIOUS
  <2>1. Picture = [t \in Terms |-> Blank(t)]
    BY DEF Init, Picture
  <2>2. cur_terminal \in Terms
    BY TermFacts DEF Init
  <2> QED
    BY <2>1, <2>2 DEF S!Init, S!Blank, Blank
<1>2. VideoInv /\ [Next]_vars => [S!Next]_<<Picture, cur_terminal>>
  BY ScreensStep
<1> QED
  BY <1>1, <1>2, VideoSafe, PTL DEF Spec, S!Spec, ImplementsScreens
=============================================================================
