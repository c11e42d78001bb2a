---------------------------- MODULE PagingProofs ----------------------------
(***************************************************************************)
(* Proofs about Paging, for every number of terminals whose buffers fit in *)
(* the first table, every number of process slots and every set of pages.  *)
(***************************************************************************)
EXTENDS Paging, TLAPS

USE PagingAssumption

(***************************************************************************)
(* The tables in closed form: the directory while process p is mapped, the *)
(* first table with the video page at f, the second one with the page of   *)
(* vidmap at f.                                                            *)
(***************************************************************************)
Directory(p) == Enter(init_page_directory, PROGRAM \div LARGE, Large(Frame(p), "user"))
First(f, mode) == Enter(init_page_table, VIDEO % LARGE, Small(f, mode))
Second(f) == Enter(NoEntries, USER_VIDEO % LARGE, Small(f, "user"))
Screens == Buffers \cup {VIDEO}
Seconds == {NoEntries} \cup {Second(f) : f \in Screens}

(***************************************************************************)
(* The inductive invariant.  own gives the terminal of each process.       *)
(***************************************************************************)
Used(p) == process_array[p] = 1

(* The processes in use form one chain per terminal; a process in halt is   *)
(* free already, belongs to its terminal still, and names the parent.       *)
Chains(own) ==
    /\ \A p \in Pids : p <= SHELL_NUM => Used(p)
    /\ \A p \in Pids : Used(p) /\ p > SHELL_NUM =>
          /\ parent_pid[p] \in Pids
          /\ Used(parent_pid[p])
          /\ own[parent_pid[p]] = own[p]
    /\ \A p, q \in Pids :
          Used(p) /\ p > SHELL_NUM /\ Used(q) /\ q > SHELL_NUM
              => (parent_pid[p] = parent_pid[q] => p = q)
    /\ \A t \in Terms :
          /\ Used(sched_pid[t])
          /\ own[sched_pid[t]] = t
          /\ \A p \in Pids : Used(p) /\ p > SHELL_NUM => parent_pid[p] # sched_pid[t]
          /\ pc[t] \in HaltPc <=> cur_pcb[t] # 0
          /\ cur_pcb[t] # 0 => /\ own[cur_pcb[t]] = t
                               /\ ~Used(cur_pcb[t])
                               /\ parent_pid[cur_pcb[t]] = sched_pid[t]

(* Every version of the tables the processor may use.                       *)
VersionOK(x) ==
    /\ \E p \in Shown(cur_sched_term) : x.directory = Directory(p)
    /\ \E mode \in Modes : x.first = First(Screen(cur_sched_term, cur_terminal), mode)
    /\ x.second \in Seconds

(* What is cached, by the write that has not been followed by a load of     *)
(* cr3.                                                                     *)
Mapped == \E u \in Terms : vid_map[u] /\ pc[u] # "v_table"
CacheOK ==
    LET t == cur_sched_term
    IN  /\ pc[t] \notin {"h_vid", "h_flush", "v_flush"} => mem.old = {}
        /\ pc[t] \in {"h_vid", "h_flush"} =>
              /\ mem.pages.directory = Directory(sched_pid[t])
              /\ \A x \in mem.old : x.second = mem.pages.second
        /\ Mapped => mem.pages.second # NoEntries

TablesInv == (\A x \in Versions(mem) : VersionOK(x)) /\ CacheOK
ChainsInv == \E own \in [Pids -> Terms] : Chains(own)
PagingInv == TypeOK /\ ChainsInv /\ TablesInv

-----------------------------------------------------------------------------
(* The last write of an entry counts.                                       *)
LEMMA EnterTwice ==
    ASSUME NEW table, NEW i, NEW a, NEW b
    PROVE  Enter(Enter(table, i, a), i, b) = Enter(table, i, b)
BY DEF Enter

(* Remapping an entry that is already in the closed form.                   *)
LEMMA Remap ==
    /\ \A p, q : Enter(Directory(p), PROGRAM \div LARGE, Large(Frame(q), "user")) = Directory(q)
    /\ \A f, g, b : Enter(First(f, b), VIDEO % LARGE, Small(g, "user")) = First(g, "user")
    /\ \A x \in Seconds : \A g : Enter(x, USER_VIDEO % LARGE, Small(g, "user")) = Second(g)
<1>1. ASSUME NEW p, NEW q
      PROVE  Enter(Directory(p), PROGRAM \div LARGE, Large(Frame(q), "user")) = Directory(q)
  BY EnterTwice DEF Directory
<1>2. ASSUME NEW f, NEW g, NEW b
      PROVE  Enter(First(f, b), VIDEO % LARGE, Small(g, "user")) = First(g, "user")
  BY EnterTwice DEF First
<1>3. ASSUME NEW x \in Seconds, NEW g
      PROVE  Enter(x, USER_VIDEO % LARGE, Small(g, "user")) = Second(g)
  <2>1. CASE x = NoEntries
    BY <2>1 DEF Second
  <2>2. ASSUME NEW f, x = Second(f) PROVE Enter(x, USER_VIDEO % LARGE, Small(g, "user")) = Second(g)
    BY <2>2, EnterTwice DEF Second
  <2> QED
    BY <2>1, <2>2 DEF Seconds
<1> QED
  BY <1>1, <1>2, <1>3

(* A present second table stays present.                                    *)
LEMMA SecondPresent == \A f : Second(f) # NoEntries
<1>1. DOMAIN NoEntries = {}
  BY DEF NoEntries
<1>2. \A f : USER_VIDEO % LARGE \in DOMAIN Second(f)
  BY DEF Second, Enter
<1> QED
  BY <1>1, <1>2

(* The buffers and the screen are pages of the first table.                 *)
LEMMA ScreenFacts ==
    /\ \A t, d \in Terms : Screen(t, d) \in Screens
    /\ VIDEO \in Screens
    /\ Screens \subseteq Nat
BY DEF Screen, Screens, Buffers, Terms, video_buffer, VIDEO, LARGE

-----------------------------------------------------------------------------
(* The entries of the directory.                                            *)
LEMMA DirectoryFacts ==
    ASSUME NEW p
    PROVE  /\ DOMAIN Directory(p) = {0, 1, 17, 32}
           /\ Directory(p)[0] = Table("first", "kernel")
           /\ Directory(p)[1] = Large(KERNEL, "kernel")
           /\ Directory(p)[17] = Table("second", "user")
           /\ Directory(p)[32] = Large(Frame(p), "user")
<1>1. KERNEL \div LARGE = 1 /\ USER_VIDEO \div LARGE = 17 /\ PROGRAM \div LARGE = 32
  BY DEF KERNEL, LARGE, USER_VIDEO, PROGRAM
<1>2. /\ DOMAIN init_page_directory = {0, 1, 17}
      /\ init_page_directory[0] = Table("first", "kernel")
      /\ init_page_directory[1] = Large(KERNEL, "kernel")
      /\ init_page_directory[17] = Table("second", "user")
  BY <1>1 DEF init_page_directory
<1>3. PICK e : e = Large(Frame(p), "user")
  OBVIOUS
<1>4. Directory(p) = Enter(init_page_directory, 32, e)
  BY <1>1, <1>3 DEF Directory
<1>5. /\ DOMAIN Directory(p) = DOMAIN init_page_directory \cup {32}
      /\ Directory(p)[32] = e
      /\ \A j \in DOMAIN init_page_directory : j # 32 => Directory(p)[j] = init_page_directory[j]
  BY <1>4 DEF Enter
<1> QED
  BY <1>2, <1>3, <1>5

(* The entries of the first table.                                          *)
LEMMA FirstFacts ==
    ASSUME NEW f, NEW b
    PROVE  /\ DOMAIN First(f, b) = Screens
           /\ First(f, b)[VIDEO] = Small(f, b)
           /\ \A i \in Buffers : First(f, b)[i] = Small(i, "kernel")
<1>1. VIDEO % LARGE = VIDEO
  BY DEF VIDEO, LARGE
<1>2. DOMAIN init_page_table = Screens /\ VIDEO \in Screens
  BY DEF init_page_table, Screens, Buffers, VIDEO, LARGE
<1>3. \A i \in Buffers : i \in Screens /\ i # VIDEO
  BY DEF Screens, Buffers, VIDEO
<1>4. \A i \in Buffers : init_page_table[i] = Small(i, "kernel")
  BY DEF init_page_table, Buffers, VIDEO, LARGE
<1>5. First(f, b) = Enter(init_page_table, VIDEO, Small(f, b))
  BY <1>1 DEF First
<1>6. /\ DOMAIN First(f, b) = DOMAIN init_page_table \cup {VIDEO}
      /\ First(f, b)[VIDEO] = Small(f, b)
      /\ \A j \in DOMAIN init_page_table : j # VIDEO => First(f, b)[j] = init_page_table[j]
  BY <1>5 DEF Enter
<1> QED
  BY <1>2, <1>3, <1>4, <1>6

(* The entries of the second table: at most the page of vidmap.             *)
LEMMA SecondFacts ==
    ASSUME NEW x \in Seconds
    PROVE  /\ x # NoEntries => 256 \in DOMAIN x
           /\ DOMAIN x \subseteq {256}
           /\ 256 \in DOMAIN x => \E f \in Screens : x[256] = Small(f, "user")
<1>1. USER_VIDEO % LARGE = 256
  BY DEF USER_VIDEO, LARGE
<1>2. DOMAIN NoEntries = {}
  BY DEF NoEntries
<1>3. ASSUME NEW f \in Screens
      PROVE  DOMAIN Second(f) = {256} /\ Second(f)[256] = Small(f, "user")
  <2>1. Second(f) = Enter(NoEntries, 256, Small(f, "user"))
    BY <1>1 DEF Second
  <2>2. DOMAIN Second(f) = DOMAIN NoEntries \cup {256} /\ Second(f)[256] = Small(f, "user")
    BY <2>1 DEF Enter
  <2> QED
    BY <2>2, <1>2
<1> QED
  BY <1>2, <1>3 DEF Seconds

(* What the processor makes of tables in the closed form, for any page.     *)
LEMMA WalkFacts ==
    ASSUME NEW p \in Pids, NEW f \in Screens, NEW b \in Modes, NEW s \in Seconds,
           NEW v \in Nat, NEW mode \in Modes
    PROVE  LET w == Walk(Directory(p), First(f, b), s, v, mode)
           IN  /\ v \in ProgramPages => w = Frame(p) + (v - PROGRAM)
               /\ v = USER_VIDEO => /\ w \in Screens \cup {FAULT}
                                    /\ s # NoEntries => w \in Screens
               /\ v = VIDEO /\ mode = "kernel" => w = f
               /\ v \in KernelPages \cup Buffers /\ mode = "kernel" => w = v
               /\ \/ v \in ProgramPages \/ v = USER_VIDEO
                  \/ mode = "kernel" /\ v \in KernelPages \cup Screens
                  \/ w = FAULT
<1> DEFINE d == v \div LARGE
           i == v % LARGE
           w == Walk(Directory(p), First(f, b), s, v, mode)
<1>1. d \in Nat /\ i \in 0 .. 1023 /\ v = (1024 * d) + i
  BY DEF LARGE
<1>2. /\ v \in ProgramPages <=> d = 32
      /\ v \in ProgramPages => i = v - PROGRAM
      /\ v \in KernelPages <=> d = 1
      /\ v \in KernelPages => i = v - KERNEL
      /\ v \in Screens <=> d = 0 /\ i \in Screens
      /\ v \in Buffers <=> d = 0 /\ i \in Buffers
      /\ d = 0 => i = v
      /\ v = USER_VIDEO <=> d = 17 /\ i = 256
      /\ v = VIDEO <=> d = 0 /\ i = VIDEO
  BY <1>1 DEF ProgramPages, KernelPages, Screens, Buffers, PROGRAM, KERNEL, USER_VIDEO, VIDEO, LARGE
<1>3. mode = "user" \/ mode = "kernel"
  BY DEF Modes
<1>4. CASE d \notin {0, 1, 17, 32}
  <2>1. w = FAULT
    BY <1>4, DirectoryFacts DEF Walk
  <2> QED
    BY <1>2, <1>4, <2>1
<1>5. CASE d = 0
  <2>1. ~Allows(Table("first", "kernel"), "user") /\ Allows(Table("first", "kernel"), "kernel")
    BY DEF Allows, Table
  <2>2. /\ mode = "user" => w = FAULT
        /\ mode = "kernel" => w = IF i \in Screens THEN First(f, b)[i].frame ELSE FAULT
    BY <1>5, <2>1, DirectoryFacts, FirstFacts DEF Walk, Table, Allows
  <2>3. First(f, b)[VIDEO].frame = f /\ \A j \in Buffers : First(f, b)[j].frame = j
    <3>1. \A g, c : Small(g, c).frame = g
      BY DEF Small
    <3> QED
      BY <3>1, FirstFacts
  <2>4. Screens = Buffers \cup {VIDEO}
    BY DEF Screens
  <2> QED
    BY <1>2, <1>3, <1>5, <2>2, <2>3, <2>4
<1>6. CASE d = 1
  <2>1. PICK e : /\ e = Directory(p)[1]
                 /\ e.kind = "large" /\ e.frame = KERNEL /\ e.mode = "kernel"
    <3>1. LET e == Large(KERNEL, "kernel")
          IN  e.kind = "large" /\ e.frame = KERNEL /\ e.mode = "kernel"
      BY DEF Large
    <3>2. Directory(p)[1] = Large(KERNEL, "kernel")
      BY DirectoryFacts
    <3> QED
      BY <3>1, <3>2
  <2>2. /\ mode = "user" => w = FAULT
        /\ mode = "kernel" => w = KERNEL + i
    BY <1>6, <2>1, DirectoryFacts DEF Walk, Allows
  <2> QED
    BY <1>1, <1>2, <1>3, <1>6, <2>2 DEF KERNEL
<1>7. CASE d = 17
  <2>1. Allows(Table("second", "user"), mode)
    BY DEF Allows, Table
  <2>2. w = IF i \in DOMAIN s /\ Allows(s[i], mode) THEN s[i].frame ELSE FAULT
    BY <1>7, <2>1, DirectoryFacts DEF Walk, Table
  <2>3. ASSUME 256 \in DOMAIN s
        PROVE  Allows(s[256], mode) /\ s[256].frame \in Screens
    <3>1. PICK g \in Screens : s[256] = Small(g, "user")
      BY <2>3, SecondFacts
    <3> QED
      BY <3>1 DEF Allows, Small
  <2>4. DOMAIN s \subseteq {256} /\ (s # NoEntries => 256 \in DOMAIN s)
    BY SecondFacts
  <2> QED
    BY <1>2, <1>7, <2>2, <2>3, <2>4
<1>8. CASE d = 32
  <2>1. Allows(Large(Frame(p), "user"), mode)
    BY DEF Allows, Large
  <2>2. w = Frame(p) + i
    BY <1>8, <2>1, DirectoryFacts DEF Walk, Large
  <2> QED
    BY <1>2, <1>8, <2>2
<1> QED
  BY <1>4, <1>5, <1>6, <1>7, <1>8

(* The memory a terminal is shown is that of processes, and no process      *)
(* belongs to two terminals.                                                *)
LEMMA ShownFacts ==
    ASSUME TypeOK, ChainsInv
    PROVE  /\ \A t \in Terms : Shown(t) \subseteq Pids
           /\ \A t, u \in Terms : t # u => Shown(t) \cap Shown(u) = {}
<1>1. PICK own \in [Pids -> Terms] : Chains(own)
  BY DEF ChainsInv
<1>2. ASSUME NEW t \in Terms, NEW p \in Shown(t) PROVE p \in Pids /\ own[p] = t
  <2>1. sched_pid[t] \in Pids /\ cur_pcb[t] \in Pids \cup {0}
    BY DEF TypeOK
  <2> QED
    BY <1>1, <1>2, <2>1 DEF Shown, Chains
<1> QED
  BY <1>2

(* The inductive invariant gives the property: the walk of any mixture of   *)
(* versions ends where Reaches says.                                        *)
LEMMA InvAddresses == PagingInv => AddressesRight
<1> SUFFICES ASSUME PagingInv PROVE AddressesRight
  OBVIOUS
<1> DEFINE t == cur_sched_term
<1>1. TypeOK /\ ChainsInv /\ TablesInv /\ t \in Terms /\ cur_terminal \in Terms
  BY DEF PagingInv, TypeOK
<1>2. ASSUME NEW v \in Pages, NEW mode \in Modes, NEW w \in Translations(v, mode)
      PROVE  w \in Reaches(v, mode)
  <2>1. PICK x \in Versions(mem), y \in Versions(mem) :
              w = Walk(x.directory, y.first, y.second, v, mode)
    BY <1>2 DEF Translations
  <2>2. PICK p \in Shown(t) : x.directory = Directory(p)
    BY <1>1 DEF TablesInv, VersionOK
  <2>3. PICK f : f = Screen(t, cur_terminal)
    OBVIOUS
  <2>4. PICK b \in Modes : y.first = First(f, b)
    BY <1>1, <2>3 DEF TablesInv, VersionOK
  <2>5. PICK s \in Seconds : y.second = s
    BY <1>1 DEF TablesInv, VersionOK
  <2>6. p \in Pids /\ f \in Screens /\ v \in Nat
    BY <1>1, <2>3, ShownFacts, ScreenFacts
  <2>7. w = Walk(Directory(p), First(f, b), s, v, mode)
    BY <2>1, <2>2, <2>4, <2>5
  <2>8. /\ v \in ProgramPages => w = Frame(p) + (v - PROGRAM)
        /\ v = USER_VIDEO => /\ w \in Screens \cup {FAULT}
                             /\ s # NoEntries => w \in Screens
        /\ v = VIDEO /\ mode = "kernel" => w = f
        /\ v \in KernelPages \cup Buffers /\ mode = "kernel" => w = v
        /\ \/ v \in ProgramPages \/ v = USER_VIDEO
           \/ mode = "kernel" /\ v \in KernelPages \cup Screens
           \/ w = FAULT
    BY <2>6, <2>7, WalkFacts
  <2>9. ASSUME vid_map[t], pc[t] \notin VidmapPc PROVE s # NoEntries
    <3>1. Mapped /\ pc[t] # "v_flush"
      BY <1>1, <2>9 DEF Mapped, VidmapPc
    <3>2. mem.pages.second # NoEntries
      BY <1>1, <3>1 DEF TablesInv, CacheOK
    <3>3. y = mem.pages \/ y \in mem.old
      BY DEF Versions
    <3>4. ASSUME y \in mem.old PROVE y.second = mem.pages.second
      BY <1>1, <3>1, <3>4 DEF TablesInv, CacheOK
    <3> QED
      BY <2>5, <3>2, <3>3, <3>4
  <2>10. Screens = Buffers \cup {VIDEO}
    BY DEF Screens
  <2>11. CASE v \in ProgramPages
    <3>1. Reaches(v, mode) = {Frame(q) + (v - PROGRAM) : q \in Shown(t)}
      <4>1. v # USER_VIDEO /\ v # VIDEO /\ v \notin KernelPages \cup Buffers
        BY <2>11 DEF ProgramPages, PROGRAM, LARGE, USER_VIDEO, VIDEO, KernelPages, KERNEL, Buffers
      <4> QED
        BY <2>11, <4>1, Zenon DEF Reaches
    <3> QED
      BY <2>2, <2>8, <2>11, <3>1
  <2>12. CASE v = USER_VIDEO
    <3>1. Reaches(v, mode) = Buffers \cup {VIDEO}
                  \cup (IF vid_map[t] /\ pc[t] \notin VidmapPc THEN {} ELSE {FAULT})
      BY <2>12 DEF Reaches, ProgramPages, PROGRAM, LARGE, USER_VIDEO, VIDEO, KernelPages, KERNEL, Buffers
    <3> QED
      BY <2>8, <2>9, <2>10, <2>12, <3>1
  <2>13. CASE mode = "kernel" /\ v = VIDEO
    <3>1. Reaches(v, mode) = {f}
      BY <2>3, <2>13 DEF Reaches, ProgramPages, PROGRAM, LARGE, USER_VIDEO, VIDEO, KernelPages, KERNEL, Buffers
    <3> QED
      BY <2>8, <2>13, <3>1
  <2>14. CASE mode = "kernel" /\ v \in KernelPages \cup Buffers
    <3>1. Reaches(v, mode) = {v}
      BY <2>14 DEF Reaches, ProgramPages, PROGRAM, LARGE, USER_VIDEO, VIDEO, KernelPages, KERNEL, Buffers
    <3> QED
      BY <2>8, <2>14, <3>1
  <2>15. CASE /\ v \notin ProgramPages /\ v # USER_VIDEO
              /\ ~(mode = "kernel" /\ v = VIDEO)
              /\ ~(mode = "kernel" /\ v \in KernelPages \cup Buffers)
    <3>1. Reaches(v, mode) = {FAULT}
      BY <2>15 DEF Reaches
    <3> QED
      BY <2>8, <2>10, <2>15, <3>1
  <2> QED
    BY <2>11, <2>12, <2>13, <2>14, <2>15
<1>3. \A u1, u2 \in Terms : u1 # u2 => Shown(u1) \cap Shown(u2) = {}
  BY <1>1, ShownFacts
<1> QED
  BY <1>2, <1>3 DEF AddressesRight

-----------------------------------------------------------------------------
(* The state after boot satisfies the invariant.                            *)
LEMMA InvInit == Init => PagingInv
<1> SUFFICES ASSUME Init PROVE PagingInv
  OBVIOUS
<1>1. SHELL_NUM \in Nat \ {0} /\ MAX_PROGS \in Nat /\ MAX_PROGS >= SHELL_NUM
  BY DEF LARGE, VIDEO
<1>2. 0 \in Terms /\ 1 \in Pids /\ \A t \in Terms : t + 1 \in Pids /\ t + 1 <= SHELL_NUM
  BY <1>1 DEF Terms, Pids
<1>3. TypeOK
  BY <1>1, <1>2 DEF Init, TypeOK
<1>4. ChainsInv
  <2> DEFINE own == [p \in Pids |-> IF p <= SHELL_NUM THEN p - 1 ELSE 0]
  <2>1. own \in [Pids -> Terms]
    BY <1>1 DEF Pids, Terms
  <2>2. \A p \in Pids : Used(p) <=> p <= SHELL_NUM
    BY DEF Init, Used
  <2>3. \A p \in Pids : ~(p <= SHELL_NUM /\ p > SHELL_NUM)
    BY <1>1 DEF Pids
  <2>4. ASSUME NEW t \in Terms
        PROVE  /\ Used(sched_pid[t]) /\ own[sched_pid[t]] = t
               /\ pc[t] = "user" /\ cur_pcb[t] = 0
    <3>1. t + 1 \in Pids /\ t + 1 <= SHELL_NUM /\ (t + 1) - 1 = t
      BY <1>1, <1>2 DEF Terms
    <3>2. sched_pid[t] = t + 1 /\ pc[t] = "user" /\ cur_pcb[t] = 0
      BY DEF Init
    <3> QED
      BY <2>2, <3>1, <3>2
  <2>5. Chains(own)
    BY <2>2, <2>3, <2>4 DEF Chains, HaltPc
  <2> QED
    BY <2>1, <2>5 DEF ChainsInv
<1>5. TablesInv
  <2>1. /\ mem.pages.directory = Directory(1)
        /\ mem.pages.first = init_page_table
        /\ mem.pages.second = NoEntries
        /\ mem.old = {}
    BY DEF Init, Boot, Flush, MapProgram, set_page_dir_entry, Write, Directory
  <2>2. init_page_table = First(VIDEO, "kernel")
    <3>1. VIDEO % LARGE = VIDEO /\ VIDEO \in VIDEO .. VIDEO + SHELL_NUM
      BY <1>1 DEF VIDEO, LARGE
    <3> QED
      BY <3>1 DEF First, Enter, init_page_table
  <2>3. Screen(cur_sched_term, cur_terminal) = VIDEO
    BY DEF Init, Screen
  <2>4. 1 \in Shown(cur_sched_term)
    BY <1>2 DEF Init, Shown
  <2>5. VersionOK(mem.pages)
    BY <2>1, <2>2, <2>3, <2>4 DEF VersionOK, Modes, Seconds
  <2>6. CacheOK
    BY <1>2, <2>1 DEF Init, CacheOK, Mapped
  <2> QED
    BY <2>1, <2>5, <2>6 DEF TablesInv, Versions
<1> QED
  BY <1>3, <1>4, <1>5 DEF PagingInv

(* Every step keeps the types: a terminal gets the parent of a process in   *)
(* use, which is a process.                                                 *)
LEMMA TypeStep == TypeOK /\ ChainsInv /\ [Next]_vars => TypeOK'
<1> SUFFICES ASSUME TypeOK, ChainsInv, [Next]_vars PROVE TypeOK'
  OBVIOUS
<1> USE DEF TypeOK
<1>1. SHELL_NUM \in Nat \ {0}
  BY DEF LARGE, VIDEO
<1>2. ASSUME NEW t \in Terms, sched_pid[t] > SHELL_NUM PROVE parent_pid[sched_pid[t]] \in Pids
  BY <1>2 DEF ChainsInv, Chains
<1>3. CASE UNCHANGED vars
  BY <1>3 DEF vars, procs, video, thread
<1>4. CASE tick
  <2>1. (cur_sched_term + 1) % SHELL_NUM \in Terms
    BY <1>1 DEF Terms
  <2> QED
    BY <1>4, <2>1 DEF tick, procs, video, thread
<1>5. ASSUME NEW n \in Terms, key(n) PROVE TypeOK'
  BY <1>5 DEF key, procs, video, thread
<1>6. ASSUME NEW t \in Terms, NEW p \in Pids, execute(t, p) PROVE TypeOK'
  BY <1>6 DEF execute, thread
<1>7. ASSUME NEW t \in Terms, Exception(t) PROVE TypeOK'
  BY <1>2, <1>7 DEF Exception, Leave, VidMapAfter, thread
<1>8. ASSUME NEW t \in Terms, HaltSched(t) PROVE TypeOK'
  BY <1>2, <1>8 DEF HaltSched, Leave, Goto, HaltPc
<1>9. ASSUME NEW t \in Terms, HaltPage(t) PROVE TypeOK'
  BY <1>9 DEF HaltPage, Goto, HaltPc, procs, video
<1>10. ASSUME NEW t \in Terms, HaltVid(t) PROVE TypeOK'
  BY <1>10 DEF HaltVid, VidMapAfter, Goto, HaltPc, procs
<1>11. ASSUME NEW t \in Terms, HaltFlush(t) PROVE TypeOK'
  BY <1>11 DEF HaltFlush, Goto, procs, video
<1>12. ASSUME NEW t \in Terms, VidmapMark(t) PROVE TypeOK'
  BY <1>12 DEF VidmapMark, Goto, VidmapPc, procs
<1>13. ASSUME NEW t \in Terms, VidmapTable(t) PROVE TypeOK'
  BY <1>13 DEF VidmapTable, Goto, VidmapPc, procs, video
<1>14. ASSUME NEW t \in Terms, VidmapFlush(t) PROVE TypeOK'
  BY <1>14 DEF VidmapFlush, Goto, procs, video
<1> QED
  BY <1>3, <1>4, <1>5, <1>6, <1>7, <1>8, <1>9, <1>10, <1>11, <1>12, <1>13, <1>14 DEF Next

-----------------------------------------------------------------------------
(* A step that leaves the processes alone leaves the chains alone.          *)
LEMMA ChainsSame ==
    ASSUME NEW own \in [Pids -> Terms], Chains(own), UNCHANGED <<procs, cur_pcb>>,
           \A t \in Terms : pc'[t] \in HaltPc <=> pc[t] \in HaltPc
    PROVE  Chains(own)'
BY DEF Chains, procs, Used

(* execute: the child is a new end of the chain of its terminal.            *)
LEMMA ChainsExecute ==
    ASSUME TypeOK, ChainsInv, NEW t \in Terms, NEW p \in Pids, execute(t, p)
    PROVE  ChainsInv'
<1>1. PICK own \in [Pids -> Terms] : Chains(own)
  BY DEF ChainsInv
<1> DEFINE new == [own EXCEPT ![p] = t]
           q == sched_pid[t]
<1>2. new \in [Pids -> Terms] /\ new[p] = t /\ \A r \in Pids : r # p => new[r] = own[r]
  OBVIOUS
<1>3. /\ q \in Pids /\ Used(q) /\ own[q] = t
      /\ ~Used(p) /\ p > SHELL_NUM
      /\ \A u \in Terms : cur_pcb[u] # p
  <2>1. /\ process_array[p] = -1 /\ \A u \in Terms : cur_pcb[u] # p
    BY DEF execute, FreeSlot, InHalt
  <2>2. ~Used(p)
    BY <2>1 DEF Used
  <2>3. p > SHELL_NUM
    BY <1>1, <2>2 DEF Chains, Pids, LARGE, VIDEO
  <2> QED
    BY <1>1, <2>1, <2>2, <2>3 DEF Chains, TypeOK
<1>4. /\ \A r \in Pids : Used(r)' <=> Used(r) \/ r = p
      /\ \A r \in Pids : parent_pid'[r] = IF r = p THEN q ELSE parent_pid[r]
      /\ \A u \in Terms : sched_pid'[u] = IF u = t THEN p ELSE sched_pid[u]
      /\ pc' = pc /\ cur_pcb' = cur_pcb
  BY DEF execute, TypeOK, Used, thread
<1>5. \A r \in Pids : r <= SHELL_NUM => Used(r)'
  BY <1>1, <1>4 DEF Chains
<1>6. \A r \in Pids : Used(r)' /\ r > SHELL_NUM =>
          /\ parent_pid'[r] \in Pids
          /\ Used(parent_pid[r])'
          /\ new[parent_pid'[r]] = new[r]
  <2> SUFFICES ASSUME NEW r \in Pids, Used(r)', r > SHELL_NUM
               PROVE  /\ parent_pid'[r] \in Pids
                      /\ Used(parent_pid[r])'
                      /\ new[parent_pid'[r]] = new[r]
    OBVIOUS
  <2>1. CASE r = p
    <3>1. parent_pid'[r] = q /\ q # p
      BY <1>3, <1>4, <2>1
    <3>2. process_array'[q] = 1
      BY <1>3, <1>4 DEF Used
    <3> QED
      BY <1>2, <1>3, <2>1, <3>1, <3>2 DEF Used
  <2>2. CASE r # p
    <3>1. parent_pid'[r] = parent_pid[r] /\ Used(r)
      BY <1>4, <2>2
    <3>2. parent_pid[r] \in Pids /\ Used(parent_pid[r]) /\ own[parent_pid[r]] = own[r]
      BY <1>1, <3>1 DEF Chains
    <3>3. parent_pid[r] # p /\ process_array'[parent_pid[r]] = 1
      BY <1>3, <1>4, <3>2 DEF Used
    <3> QED
      BY <1>2, <2>2, <3>1, <3>2, <3>3 DEF Used
  <2> QED
    BY <2>1, <2>2
<1>7. \A r, s \in Pids :
          Used(r)' /\ r > SHELL_NUM /\ Used(s)' /\ s > SHELL_NUM
              => (parent_pid'[r] = parent_pid'[s] => r = s)
  BY <1>1, <1>4 DEF Chains
<1>8. ASSUME NEW u \in Terms
      PROVE  /\ Used(sched_pid[u])'
             /\ new[sched_pid'[u]] = u
             /\ \A r \in Pids : Used(r)' /\ r > SHELL_NUM => parent_pid'[r] # sched_pid'[u]
             /\ pc'[u] \in HaltPc <=> cur_pcb'[u] # 0
             /\ cur_pcb'[u] # 0 => /\ new[cur_pcb'[u]] = u
                                   /\ ~Used(cur_pcb[u])'
                                   /\ parent_pid'[cur_pcb'[u]] = sched_pid'[u]
  <2>1. sched_pid[u] \in Pids /\ cur_pcb[u] \in Pids \cup {0}
    BY DEF TypeOK
  <2>2. CASE u = t
    <3>1. pc[t] \notin HaltPc
      BY DEF execute, At, HaltPc
    <3>2. sched_pid'[u] = p /\ process_array'[p] = 1
      BY <1>4, <2>2 DEF Used
    <3>3. \A r \in Pids : Used(r)' /\ r > SHELL_NUM => parent_pid'[r] # p
      <4>1. \A r \in Pids : Used(r) /\ r > SHELL_NUM => parent_pid[r] # p
        BY <1>1, <1>3 DEF Chains
      <4> QED
        BY <4>1, <1>3, <1>4
    <3> QED
      BY <1>1, <1>2, <1>4, <2>2, <3>1, <3>2, <3>3 DEF Chains, Used
  <2>3. CASE u # t
    <3>1. /\ sched_pid'[u] = sched_pid[u] /\ Used(sched_pid[u]) /\ own[sched_pid[u]] = u
          /\ \A r \in Pids : Used(r) /\ r > SHELL_NUM => parent_pid[r] # sched_pid[u]
          /\ pc[u] \in HaltPc <=> cur_pcb[u] # 0
          /\ cur_pcb[u] # 0 => /\ own[cur_pcb[u]] = u
                               /\ ~Used(cur_pcb[u])
                               /\ parent_pid[cur_pcb[u]] = sched_pid[u]
      BY <1>1, <1>4, <2>3 DEF Chains
    <3>2. sched_pid[u] # p /\ sched_pid[u] # q /\ process_array'[sched_pid[u]] = 1
      BY <1>3, <1>4, <2>1, <2>3, <3>1 DEF Used
    <3>3. cur_pcb[u] # 0 => cur_pcb[u] # p /\ process_array'[cur_pcb[u]] # 1
      BY <1>3, <1>4, <2>1, <3>1 DEF Used
    <3>4. \A r \in Pids : Used(r)' /\ r > SHELL_NUM => parent_pid'[r] # sched_pid'[u]
      BY <1>4, <3>1, <3>2
    <3>5. Used(sched_pid[u])' /\ new[sched_pid'[u]] = u
      BY <1>2, <2>1, <3>1, <3>2 DEF Used
    <3>6. cur_pcb'[u] # 0 => /\ new[cur_pcb'[u]] = u
                            /\ ~Used(cur_pcb[u])'
                            /\ parent_pid'[cur_pcb'[u]] = sched_pid'[u]
      BY <1>2, <1>4, <2>1, <3>1, <3>3 DEF Used
    <3> QED
      BY <1>4, <3>1, <3>4, <3>5, <3>6
  <2> QED
    BY <2>2, <2>3
<1>9. Chains(new)'
  BY <1>5, <1>6, <1>7, <1>8 DEF Chains
<1> QED
  BY <1>2, <1>9 DEF ChainsInv

(* halt and the exception handler: the end of the chain is free and its     *)
(* parent is the end.                                                       *)
LEMMA ChainsLeave ==
    ASSUME TypeOK, ChainsInv, NEW t \in Terms, Leave(t),
           NEW c \in {0, sched_pid[t]},
           \A u \in Terms : cur_pcb'[u] = IF u = t THEN c ELSE cur_pcb[u],
           \A u \in Terms : pc'[u] \in HaltPc <=> IF u = t THEN c # 0 ELSE pc[u] \in HaltPc
    PROVE  ChainsInv'
<1>1. PICK own \in [Pids -> Terms] : Chains(own)
  BY DEF ChainsInv
<1> DEFINE p == sched_pid[t]
           q == parent_pid[p]
<1>2. /\ p \in Pids /\ Used(p) /\ p > SHELL_NUM /\ own[p] = t
      /\ q \in Pids /\ Used(q) /\ own[q] = t /\ q # p
      /\ \A r \in Pids : Used(r) /\ r > SHELL_NUM => parent_pid[r] # p
  BY <1>1 DEF Leave, Chains, TypeOK
<1>3. /\ \A r \in Pids : Used(r)' <=> Used(r) /\ r # p
      /\ parent_pid' = parent_pid
      /\ \A u \in Terms : sched_pid'[u] = IF u = t THEN q ELSE sched_pid[u]
  BY <1>2 DEF Leave, TypeOK, Used
<1>4. \A r \in Pids : ~(r <= SHELL_NUM /\ r > SHELL_NUM)
  BY DEF Pids, LARGE, VIDEO
<1>5. \A r \in Pids : r <= SHELL_NUM => Used(r)'
  BY <1>1, <1>2, <1>3, <1>4 DEF Chains
<1>6. \A r \in Pids : Used(r)' /\ r > SHELL_NUM =>
          /\ parent_pid'[r] \in Pids
          /\ Used(parent_pid[r])'
          /\ own[parent_pid'[r]] = own[r]
  <2> SUFFICES ASSUME NEW r \in Pids, Used(r)', r > SHELL_NUM
               PROVE  /\ parent_pid'[r] \in Pids
                      /\ Used(parent_pid[r])'
                      /\ own[parent_pid'[r]] = own[r]
    OBVIOUS
  <2>1. Used(r) /\ parent_pid'[r] = parent_pid[r]
    BY <1>3
  <2>2. /\ parent_pid[r] \in Pids /\ Used(parent_pid[r]) /\ own[parent_pid[r]] = own[r]
        /\ parent_pid[r] # p
    BY <1>1, <1>2, <2>1 DEF Chains
  <2>3. process_array'[parent_pid[r]] = 1
    BY <1>3, <2>2 DEF Used
  <2> QED
    BY <2>1, <2>2, <2>3 DEF Used
<1>7. \A r, s \in Pids :
          Used(r)' /\ r > SHELL_NUM /\ Used(s)' /\ s > SHELL_NUM
              => (parent_pid'[r] = parent_pid'[s] => r = s)
  BY <1>1, <1>3 DEF Chains
<1>8. ASSUME NEW u \in Terms
      PROVE  /\ Used(sched_pid[u])'
             /\ own[sched_pid'[u]] = u
             /\ \A r \in Pids : Used(r)' /\ r > SHELL_NUM => parent_pid'[r] # sched_pid'[u]
             /\ pc'[u] \in HaltPc <=> cur_pcb'[u] # 0
             /\ cur_pcb'[u] # 0 => /\ own[cur_pcb'[u]] = u
                                   /\ ~Used(cur_pcb[u])'
                                   /\ parent_pid'[cur_pcb'[u]] = sched_pid'[u]
  <2>1. sched_pid[u] \in Pids /\ cur_pcb[u] \in Pids \cup {0}
    BY DEF TypeOK
  <2>2. CASE u = t
    <3>1. sched_pid'[u] = q /\ process_array'[q] = 1 /\ process_array'[p] # 1
      BY <1>2, <1>3, <2>2 DEF Used
    <3>2. \A r \in Pids : Used(r)' /\ r > SHELL_NUM => parent_pid'[r] # q
      BY <1>1, <1>2, <1>3 DEF Chains
    <3>3. cur_pcb'[u] = c /\ (pc'[u] \in HaltPc <=> c # 0)
      BY <2>2
    <3>4. c # 0 => c = p
      OBVIOUS
    <3> QED
      BY <1>2, <1>3, <2>2, <3>1, <3>2, <3>3, <3>4 DEF Used
  <2>3. CASE u # t
    <3>1. /\ sched_pid'[u] = sched_pid[u] /\ Used(sched_pid[u]) /\ own[sched_pid[u]] = u
          /\ \A r \in Pids : Used(r) /\ r > SHELL_NUM => parent_pid[r] # sched_pid[u]
          /\ pc[u] \in HaltPc <=> cur_pcb[u] # 0
          /\ cur_pcb[u] # 0 => /\ own[cur_pcb[u]] = u
                               /\ ~Used(cur_pcb[u])
                               /\ parent_pid[cur_pcb[u]] = sched_pid[u]
      BY <1>1, <1>3, <2>3 DEF Chains
    <3>2. sched_pid[u] # p /\ process_array'[sched_pid[u]] = 1
      BY <1>2, <1>3, <2>1, <2>3, <3>1 DEF Used
    <3>3. cur_pcb'[u] = cur_pcb[u] /\ (cur_pcb[u] # 0 => process_array'[cur_pcb[u]] # 1)
      BY <1>3, <2>1, <2>3, <3>1 DEF Used
    <3>4. \A r \in Pids : Used(r)' /\ r > SHELL_NUM => parent_pid'[r] # sched_pid'[u]
      BY <1>3, <3>1
    <3>5. pc'[u] \in HaltPc <=> pc[u] \in HaltPc
      BY <2>3
    <3> QED
      BY <1>3, <3>1, <3>2, <3>3, <3>4, <3>5 DEF Used
  <2> QED
    BY <2>2, <2>3
<1>9. Chains(own)'
  BY <1>5, <1>6, <1>7, <1>8 DEF Chains
<1> QED
  BY <1>9 DEF ChainsInv

(* Every step keeps the chains.                                             *)
LEMMA ChainsStep == TypeOK /\ ChainsInv /\ [Next]_vars => ChainsInv'
<1> SUFFICES ASSUME TypeOK, ChainsInv, [Next]_vars PROVE ChainsInv'
  OBVIOUS
<1>1. ASSUME UNCHANGED <<procs, cur_pcb>>,
             \A t \in Terms : pc'[t] \in HaltPc <=> pc[t] \in HaltPc
      PROVE  ChainsInv'
  <2>1. PICK own \in [Pids -> Terms] : Chains(own)
    BY DEF ChainsInv
  <2>2. Chains(own)'
    BY <1>1, <2>1, ChainsSame
  <2> QED
    BY <2>2 DEF ChainsInv
<1>2. CASE UNCHANGED vars \/ tick \/ \E n \in Terms : key(n)
  <2>1. UNCHANGED <<procs, thread>>
    BY <1>2 DEF tick, key, vars
  <2> QED
    BY <1>1, <2>1 DEF thread
<1>3. ASSUME NEW t \in Terms, NEW p \in Pids, execute(t, p) PROVE ChainsInv'
  BY <1>3, ChainsExecute
<1>4. ASSUME NEW t \in Terms, At(t, "user") PROVE pc[t] \notin HaltPc /\ cur_pcb[t] = 0
  BY <1>4 DEF At, HaltPc, ChainsInv, Chains
<1>5. ASSUME NEW t \in Terms, Exception(t) PROVE ChainsInv'
  <2>1. Leave(t) /\ At(t, "user") /\ UNCHANGED <<pc, cur_pcb>>
    BY <1>5 DEF Exception, Leave, thread
  <2> QED
    BY <1>4, <2>1, ChainsLeave
<1>6. ASSUME NEW t \in Terms, HaltSched(t) PROVE ChainsInv'
  <2>1. /\ Leave(t) /\ sched_pid[t] # 0
        /\ \A u \in Terms : cur_pcb'[u] = IF u = t THEN sched_pid[t] ELSE cur_pcb[u]
        /\ \A u \in Terms : pc'[u] = IF u = t THEN "h_page" ELSE pc[u]
    BY <1>6 DEF HaltSched, Goto, TypeOK, Pids
  <2>2. \A u \in Terms : pc'[u] \in HaltPc <=> IF u = t THEN sched_pid[t] # 0 ELSE pc[u] \in HaltPc
    BY <2>1 DEF HaltPc
  <2> QED
    BY <2>1, <2>2, ChainsLeave
<1>7. ASSUME NEW t \in Terms, HaltFlush(t) PROVE ChainsInv'
  <2>1. PICK own \in [Pids -> Terms] : Chains(own)
    BY DEF ChainsInv
  <2>2. /\ UNCHANGED procs
        /\ \A u \in Terms : cur_pcb'[u] = IF u = t THEN 0 ELSE cur_pcb[u]
        /\ \A u \in Terms : pc'[u] = IF u = t THEN "user" ELSE pc[u]
    BY <1>7 DEF HaltFlush, Goto, TypeOK
  <2>3. Chains(own)'
    BY <2>1, <2>2 DEF Chains, procs, Used, HaltPc
  <2> QED
    BY <2>3 DEF ChainsInv
<1>8. ASSUME NEW t \in Terms,
             \/ HaltPage(t) \/ HaltVid(t)
             \/ VidmapMark(t) \/ VidmapTable(t) \/ VidmapFlush(t)
      PROVE  ChainsInv'
  <2>1. UNCHANGED <<procs, cur_pcb>> /\ \A u \in Terms : pc'[u] \in HaltPc <=> pc[u] \in HaltPc
    BY <1>8 DEF HaltPage, HaltVid, VidmapMark, VidmapTable, VidmapFlush, At, Goto, HaltPc, TypeOK
  <2> QED
    BY <1>1, <2>1
<1> QED
  BY <1>2, <1>3, <1>5, <1>6, <1>7, <1>8 DEF Next

-----------------------------------------------------------------------------
(* Tables in the closed form, whatever they map.                            *)
Closed(m) ==
    /\ \E p : m.pages.directory = Directory(p)
    /\ \E f, b : m.pages.first = First(f, b)
    /\ m.pages.second \in Seconds

(* What the three writes do to tables in the closed form.                   *)
LEMMA MapFacts ==
    ASSUME NEW m, Closed(m), NEW p
    PROVE  /\ Closed(MapProgram(m, p))
           /\ MapProgram(m, p).pages.directory = Directory(p)
           /\ MapProgram(m, p).pages.first = m.pages.first
           /\ MapProgram(m, p).pages.second = m.pages.second
           /\ MapProgram(m, p).old = m.old \cup {m.pages}
<1>1. PICK q : m.pages.directory = Directory(q)
  BY DEF Closed
<1>2. Enter(m.pages.directory, PROGRAM \div LARGE, Large(Frame(p), "user")) = Directory(p)
  BY <1>1, Remap
<1>3. /\ MapProgram(m, p).pages.directory = Directory(p)
      /\ MapProgram(m, p).pages.first = m.pages.first
      /\ MapProgram(m, p).pages.second = m.pages.second
      /\ MapProgram(m, p).old = m.old \cup {m.pages}
  BY <1>2 DEF MapProgram, set_page_dir_entry, Write
<1> QED
  BY <1>3 DEF Closed

(* See MapFacts.                                                            *)
LEMMA Table1Facts ==
    ASSUME NEW m, Closed(m), NEW f
    PROVE  /\ Closed(set_page_table1_entry(m, VIDEO, f))
           /\ set_page_table1_entry(m, VIDEO, f).pages.directory = m.pages.directory
           /\ set_page_table1_entry(m, VIDEO, f).pages.first = First(f, "user")
           /\ set_page_table1_entry(m, VIDEO, f).pages.second = m.pages.second
<1>1. PICK g, b : m.pages.first = First(g, b)
  BY DEF Closed
<1>2. Enter(m.pages.first, VIDEO % LARGE, Small(f, "user")) = First(f, "user")
  BY <1>1, Remap
<1>3. /\ set_page_table1_entry(m, VIDEO, f).pages.directory = m.pages.directory
      /\ set_page_table1_entry(m, VIDEO, f).pages.first = First(f, "user")
      /\ set_page_table1_entry(m, VIDEO, f).pages.second = m.pages.second
  BY <1>2 DEF set_page_table1_entry, Write
<1> QED
  BY <1>3 DEF Closed

(* See MapFacts.                                                            *)
LEMMA Table2Facts ==
    ASSUME NEW m, Closed(m), NEW f \in Screens
    PROVE  /\ Closed(set_page_table2_entry(m, USER_VIDEO, f))
           /\ set_page_table2_entry(m, USER_VIDEO, f).pages.directory = m.pages.directory
           /\ set_page_table2_entry(m, USER_VIDEO, f).pages.first = m.pages.first
           /\ set_page_table2_entry(m, USER_VIDEO, f).pages.second = Second(f)
           /\ set_page_table2_entry(m, USER_VIDEO, f).old = m.old \cup {m.pages}
<1>1. m.pages.second \in Seconds /\ Second(f) \in Seconds
  BY DEF Closed, Seconds
<1>2. Enter(m.pages.second, USER_VIDEO % LARGE, Small(f, "user")) = Second(f)
  BY <1>1, Remap
<1>3. /\ set_page_table2_entry(m, USER_VIDEO, f).pages.directory = m.pages.directory
      /\ set_page_table2_entry(m, USER_VIDEO, f).pages.first = m.pages.first
      /\ set_page_table2_entry(m, USER_VIDEO, f).pages.second = Second(f)
      /\ set_page_table2_entry(m, USER_VIDEO, f).old = m.old \cup {m.pages}
  BY <1>2 DEF set_page_table2_entry, Write
<1> QED
  BY <1>1, <1>3 DEF Closed

(* A load of cr3 leaves the tables, and nothing cached.                     *)
LEMMA FlushFacts ==
    ASSUME NEW m
    PROVE  /\ Flush(m).pages = m.pages
           /\ Flush(m).old = {}
           /\ Closed(m) => Closed(Flush(m))
BY DEF Flush, Closed

(* The tables in use are in the closed form.                                *)
LEMMA TablesClosed == TablesInv => Closed(mem)
<1>1. TablesInv => VersionOK(mem.pages)
  BY DEF TablesInv, Versions
<1> QED
  BY <1>1 DEF VersionOK, Closed

(* A step that ends with a load of cr3 has only the tables to get right.    *)
LEMMA FlushedStep ==
    ASSUME mem'.old = {}, VersionOK(mem.pages)',
           pc'[cur_sched_term'] \in {"h_vid", "h_flush"} =>
               mem'.pages.directory = Directory(sched_pid'[cur_sched_term']),
           Mapped' => mem'.pages.second # NoEntries
    PROVE  TablesInv'
BY DEF TablesInv, Versions, CacheOK

(* switch_process maps everything the next terminal needs.                  *)
LEMMA TickTables == PagingInv /\ tick => TablesInv'
<1> SUFFICES ASSUME PagingInv, tick PROVE TablesInv'
  OBVIOUS
<1>1. TypeOK /\ TablesInv
  BY DEF PagingInv
<1>n. PICK n \in Terms : n = (cur_sched_term + 1) % SHELL_NUM
  <2>1. SHELL_NUM \in Nat \ {0}
    BY DEF LARGE, VIDEO
  <2>2. (cur_sched_term + 1) % SHELL_NUM \in Terms
    BY <1>1, <2>1 DEF TypeOK, Terms
  <2> QED
    BY <2>2
<1>2. PICK page \in Screens : page = Screen(n, cur_terminal)
  BY <1>1, ScreenFacts DEF TypeOK
<1>3. PICK program : program = MapProgram(mem, sched_pid[n])
  OBVIOUS
<1>4. PICK drawn : drawn = IF vid_map[n] THEN set_page_table2_entry(program, USER_VIDEO, page)
                                        ELSE program
  OBVIOUS
<1>5. PICK m : m = set_page_table1_entry(drawn, VIDEO, page)
  OBVIOUS
<1>6. /\ cur_sched_term' = n /\ mem' = Flush(m)
      /\ UNCHANGED <<cur_terminal, sched_pid, vid_map, pc, cur_pcb>>
  BY <1>n, <1>2, <1>3, <1>4, <1>5 DEF tick, procs, video, thread
<1>7. /\ Closed(program) /\ program.pages.directory = Directory(sched_pid[n])
      /\ program.pages.second = mem.pages.second
  BY <1>1, <1>3, TablesClosed, MapFacts
<1>8. /\ Closed(drawn) /\ drawn.pages.directory = Directory(sched_pid[n])
      /\ drawn.pages.second = mem.pages.second \/ drawn.pages.second = Second(page)
      /\ drawn.pages.second \in Seconds
  BY <1>4, <1>7, Table2Facts DEF Closed
<1>9. vid_map[n] => drawn.pages.second = Second(page)
  BY <1>4, <1>7, Table2Facts
<1>10. /\ m.pages.directory = Directory(sched_pid[n])
       /\ m.pages.first = First(page, "user")
       /\ m.pages.second = drawn.pages.second
  BY <1>5, <1>8, Table1Facts
<1>11. mem'.pages = m.pages /\ mem'.old = {}
  BY <1>6, FlushFacts
<1>12. sched_pid[n] \in Shown(cur_sched_term)' /\ Screen(cur_sched_term, cur_terminal)' = page
  BY <1>2, <1>6 DEF Shown, Screen
<1>13. VersionOK(mem.pages)'
  <2>1. /\ mem'.pages.directory = Directory(sched_pid[n])
        /\ mem'.pages.first = First(Screen(cur_sched_term, cur_terminal)', "user")
        /\ mem'.pages.second \in Seconds
    BY <1>8, <1>10, <1>11, <1>12
  <2> QED
    BY <1>12, <2>1 DEF VersionOK, Modes
<1>14. Mapped' => mem'.pages.second # NoEntries
  <2>1. Mapped' = Mapped
    BY <1>6 DEF Mapped
  <2>2. Mapped => mem.pages.second # NoEntries
    BY <1>1 DEF TablesInv, CacheOK
  <2> QED
    BY <1>8, <1>10, <1>11, <2>1, <2>2, SecondPresent
<1> QED
  BY <1>6, <1>10, <1>11, <1>13, <1>14, FlushedStep

(* The keyboard handler borrows the video page and gives it back.           *)
LEMMA KeyTables == ASSUME PagingInv, NEW n \in Terms, key(n) PROVE TablesInv'
<1> DEFINE t == cur_sched_term
<1>1. TypeOK /\ TablesInv /\ t \in Terms
  BY DEF PagingInv, TypeOK
<1>2. PICK page \in Screens : page = video_buffer(t)
  BY <1>1 DEF Screens, Buffers, video_buffer, Terms, VIDEO, LARGE
<1>3. PICK shown : shown = Flush(set_page_table1_entry(mem, VIDEO, VIDEO))
  OBVIOUS
<1>4. PICK back : back = Flush(set_page_table1_entry(shown, VIDEO, page))
  OBVIOUS
<1>5. /\ cur_terminal' = n /\ mem' = IF t = n THEN shown ELSE back
      /\ UNCHANGED <<cur_sched_term, sched_pid, vid_map, pc, cur_pcb>>
  BY <1>2, <1>3, <1>4 DEF key, procs, video, thread
<1>6. /\ Closed(shown) /\ shown.old = {}
      /\ shown.pages.directory = mem.pages.directory
      /\ shown.pages.first = First(VIDEO, "user")
      /\ shown.pages.second = mem.pages.second
  <2>1. Closed(mem) /\ VIDEO \in Screens
    BY <1>1, TablesClosed, ScreenFacts
  <2>2. PICK m : m = set_page_table1_entry(mem, VIDEO, VIDEO)
    OBVIOUS
  <2>3. /\ Closed(m)
        /\ m.pages.directory = mem.pages.directory
        /\ m.pages.first = First(VIDEO, "user")
        /\ m.pages.second = mem.pages.second
    BY <2>1, <2>2, Table1Facts
  <2> QED
    BY <1>3, <2>2, <2>3, FlushFacts
<1>7. /\ back.old = {}
      /\ back.pages.directory = mem.pages.directory
      /\ back.pages.first = First(page, "user")
      /\ back.pages.second = mem.pages.second
  BY <1>4, <1>6, Table1Facts, FlushFacts
<1>8. /\ mem'.old = {}
      /\ mem'.pages.directory = mem.pages.directory
      /\ mem'.pages.first = First(Screen(t, n), "user")
      /\ mem'.pages.second = mem.pages.second
  BY <1>2, <1>5, <1>6, <1>7 DEF Screen
<1>9. /\ Shown(cur_sched_term)' = Shown(cur_sched_term)
      /\ Screen(cur_sched_term, cur_terminal)' = Screen(t, n)
      /\ Mapped' <=> Mapped
  BY <1>5 DEF Shown, Screen, Mapped
<1>10. VersionOK(mem.pages) /\ CacheOK
  BY <1>1 DEF TablesInv, Versions
<1>11. VersionOK(mem.pages)'
  <2>1. PICK p \in Shown(cur_sched_term) : mem.pages.directory = Directory(p)
    BY <1>10 DEF VersionOK
  <2>2. p \in Shown(cur_sched_term)' /\ mem'.pages.directory = Directory(p)
    BY <1>8, <1>9, <2>1
  <2>3. mem'.pages.first = First(Screen(cur_sched_term, cur_terminal)', "user")
    BY <1>8, <1>9
  <2>4. mem'.pages.second \in Seconds
    BY <1>8, <1>10 DEF VersionOK
  <2> QED
    BY <2>2, <2>3, <2>4 DEF VersionOK, Modes
<1>12. /\ pc'[cur_sched_term'] \in {"h_vid", "h_flush"} =>
             mem'.pages.directory = Directory(sched_pid'[cur_sched_term'])
       /\ Mapped' => mem'.pages.second # NoEntries
  BY <1>5, <1>8, <1>9, <1>10 DEF CacheOK
<1> QED
  BY <1>8, <1>11, <1>12, FlushedStep

(* execute maps the child, the exception handler the parent: p, the process *)
(* the terminal runs from now on.                                           *)
LEMMA MapTables ==
    ASSUME PagingInv, NEW p \in Pids, mem' = Flush(MapProgram(mem, p)),
           UNCHANGED <<cur_terminal, cur_sched_term, pc, cur_pcb>>,
           sched_pid'[cur_sched_term] = p,
           \A u \in Terms : vid_map'[u] => vid_map[u]
    PROVE  TablesInv'
<1>1. TablesInv /\ VersionOK(mem.pages) /\ CacheOK /\ Closed(mem)
  BY TablesClosed DEF PagingInv, TablesInv, Versions
<1>2. /\ mem'.old = {} /\ mem'.pages.directory = Directory(p)
      /\ mem'.pages.first = mem.pages.first /\ mem'.pages.second = mem.pages.second
  BY <1>1, MapFacts, FlushFacts
<1>3. /\ p \in Shown(cur_sched_term)'
      /\ Screen(cur_sched_term, cur_terminal)' = Screen(cur_sched_term, cur_terminal)
  BY DEF Shown, Screen
<1>4. PICK b \in Modes : mem.pages.first = First(Screen(cur_sched_term, cur_terminal), b)
  BY <1>1 DEF VersionOK
<1>5. mem.pages.second \in Seconds
  BY <1>1 DEF VersionOK
<1>6. mem'.pages.first = First(Screen(cur_sched_term, cur_terminal)', b)
  BY <1>2, <1>3, <1>4
<1>7. VersionOK(mem.pages)'
  BY <1>2, <1>3, <1>5, <1>6 DEF VersionOK
<1>8. Mapped' => mem'.pages.second # NoEntries
  BY <1>1, <1>2 DEF Mapped, CacheOK
<1> QED
  BY <1>2, <1>7, <1>8, FlushedStep

(* The steps that leave the tables: the versions stay right if what may be  *)
(* shown only grows.                                                        *)
LEMMA SameTables ==
    ASSUME PagingInv, UNCHANGED <<mem, cur_terminal, cur_sched_term>>,
           Shown(cur_sched_term) \subseteq Shown(cur_sched_term)', CacheOK'
    PROVE  TablesInv'
<1>1. TablesInv
  BY DEF PagingInv
<1>2. Screen(cur_sched_term, cur_terminal)' = Screen(cur_sched_term, cur_terminal)
  BY DEF Screen
<1>3. ASSUME NEW x \in Versions(mem) PROVE VersionOK(x)'
  <2>1. VersionOK(x)
    BY <1>1 DEF TablesInv
  <2>2. PICK p \in Shown(cur_sched_term) : x.directory = Directory(p)
    BY <2>1 DEF VersionOK
  <2>3. PICK b \in Modes : x.first = First(Screen(cur_sched_term, cur_terminal), b)
    BY <2>1 DEF VersionOK
  <2>4. p \in Shown(cur_sched_term)' /\ x.first = First(Screen(cur_sched_term, cur_terminal)', b)
    BY <1>2, <2>2, <2>3
  <2>5. x.second \in Seconds
    BY <2>1 DEF VersionOK
  <2> QED
    BY <2>2, <2>4, <2>5 DEF VersionOK
<1>4. Versions(mem)' = Versions(mem)
  BY DEF Versions
<1> QED
  BY <1>3, <1>4 DEF TablesInv

(* The loads of cr3 at the end of halt and vidmap.                          *)
LEMMA CleanTables ==
    ASSUME PagingInv, mem' = Flush(mem), UNCHANGED <<cur_terminal, cur_sched_term, sched_pid, vid_map>>,
           NEW t \in Terms, t = cur_sched_term,
           \A u \in Terms : pc'[u] = IF u = t THEN "user" ELSE pc[u],
           \/ pc[t] = "v_flush" /\ UNCHANGED cur_pcb
           \/ pc[t] = "h_flush" /\ cur_pcb' = [cur_pcb EXCEPT ![t] = 0]
    PROVE  TablesInv'
<1>1. TypeOK /\ TablesInv /\ VersionOK(mem.pages) /\ CacheOK
  BY DEF PagingInv, TablesInv, Versions
<1>2. mem'.old = {} /\ mem'.pages = mem.pages
  BY FlushFacts
<1>3. PICK p \in Shown(t)' : mem.pages.directory = Directory(p)
  <2>1. CASE pc[t] = "v_flush" /\ UNCHANGED cur_pcb
    <3>1. Shown(t)' = Shown(t)
      BY <2>1 DEF Shown
    <3> QED
      BY <1>1, <3>1 DEF VersionOK
  <2>2. CASE pc[t] = "h_flush"
    <3>1. mem.pages.directory = Directory(sched_pid[t])
      BY <1>1, <2>2 DEF CacheOK
    <3>2. sched_pid[t] \in Shown(t)'
      BY DEF Shown
    <3> QED
      BY <3>1, <3>2
  <2> QED
    BY <2>1, <2>2
<1>4. PICK b \in Modes : mem.pages.first = First(Screen(cur_sched_term, cur_terminal), b)
  BY <1>1 DEF VersionOK
<1>5. mem.pages.second \in Seconds
  BY <1>1 DEF VersionOK
<1>6. mem'.pages.first = First(Screen(cur_sched_term, cur_terminal)', b)
  BY <1>2, <1>4 DEF Screen
<1>7. p \in Shown(cur_sched_term)'
  BY <1>3
<1>8. VersionOK(mem.pages)'
  BY <1>2, <1>3, <1>5, <1>6, <1>7 DEF VersionOK
<1>9. Mapped' => Mapped
  BY DEF Mapped
<1>10. Mapped' => mem'.pages.second # NoEntries
  BY <1>1, <1>2, <1>9 DEF CacheOK
<1> QED
  BY <1>2, <1>8, <1>10, FlushedStep

(* A write that no load of cr3 has followed yet: the version before it may  *)
(* still be used.                                                           *)
LEMMA WrittenTables ==
    ASSUME PagingInv, mem.old = {}, mem'.old = {mem.pages}, VersionOK(mem.pages)',
           UNCHANGED <<cur_terminal, cur_sched_term, sched_pid, cur_pcb>>, CacheOK'
    PROVE  TablesInv'
<1>1. VersionOK(mem.pages) /\ Shown(cur_sched_term)' = Shown(cur_sched_term)
  BY DEF PagingInv, TablesInv, Versions, Shown
<1>2. PICK x : x = mem.pages
  OBVIOUS
<1>3. VersionOK(x) /\ Screen(cur_sched_term, cur_terminal)' = Screen(cur_sched_term, cur_terminal)
  BY <1>1, <1>2 DEF Screen
<1>4. VersionOK(x)'
  BY <1>1, <1>3 DEF VersionOK
<1>5. \A y \in Versions(mem)' : y = mem'.pages \/ y = x
  BY <1>2 DEF Versions
<1>6. \A y \in Versions(mem)' : VersionOK(y)'
  BY <1>4, <1>5
<1> QED
  BY <1>6 DEF TablesInv

(* The write of the directory entry in halt.                                *)
LEMMA HaltPageTables == ASSUME PagingInv, NEW t \in Terms, HaltPage(t) PROVE TablesInv'
<1>1. TypeOK /\ ChainsInv /\ TablesInv /\ VersionOK(mem.pages) /\ CacheOK /\ Closed(mem)
  BY TablesClosed DEF PagingInv, TablesInv, Versions
<1>2. /\ t = cur_sched_term /\ pc[t] = "h_page"
      /\ mem' = MapProgram(mem, parent_pid[cur_pcb[t]])
      /\ \A u \in Terms : pc'[u] = IF u = t THEN "h_vid" ELSE pc[u]
      /\ UNCHANGED <<cur_terminal, cur_sched_term, sched_pid, vid_map, cur_pcb>>
  BY <1>1 DEF HaltPage, At, Goto, procs, video, TypeOK
<1>3. parent_pid[cur_pcb[t]] = sched_pid[t]
  BY <1>1, <1>2 DEF ChainsInv, Chains, HaltPc
<1>4. mem.old = {}
  BY <1>1, <1>2 DEF CacheOK
<1>5. /\ mem'.pages.directory = Directory(sched_pid[t]) /\ mem'.pages.first = mem.pages.first
      /\ mem'.pages.second = mem.pages.second /\ mem'.old = mem.old \cup {mem.pages}
  BY <1>1, <1>2, <1>3, MapFacts
<1>6. sched_pid[t] \in Shown(cur_sched_term)'
  BY <1>2 DEF Shown
<1>7. PICK b \in Modes : mem.pages.first = First(Screen(cur_sched_term, cur_terminal), b)
  BY <1>1 DEF VersionOK
<1>8. mem'.pages.first = First(Screen(cur_sched_term, cur_terminal)', b) /\ mem.pages.second \in Seconds
  BY <1>1, <1>2, <1>5, <1>7 DEF VersionOK, Screen
<1>9. VersionOK(mem.pages)'
  BY <1>5, <1>6, <1>8 DEF VersionOK
<1>10. Mapped' => Mapped
  BY <1>2 DEF Mapped
<1>11. CacheOK'
  <2>1. pc'[cur_sched_term'] = "h_vid" /\ mem'.pages.directory = Directory(sched_pid'[cur_sched_term'])
    BY <1>2, <1>5
  <2>2. \A x \in mem'.old : x.second = mem'.pages.second
    BY <1>4, <1>5
  <2>3. Mapped' => mem'.pages.second # NoEntries
    BY <1>1, <1>5, <1>10 DEF CacheOK
  <2> QED
    BY <2>1, <2>2, <2>3 DEF CacheOK
<1>12. mem'.old = {mem.pages}
  BY <1>4, <1>5
<1> QED
  BY <1>2, <1>4, <1>9, <1>11, <1>12, WrittenTables

(* The write of the entry of the second table in vidmap.                    *)
LEMMA VidmapTableTables == ASSUME PagingInv, NEW t \in Terms, VidmapTable(t) PROVE TablesInv'
<1>1. TypeOK /\ TablesInv /\ VersionOK(mem.pages) /\ CacheOK /\ Closed(mem)
  BY TablesClosed DEF PagingInv, TablesInv, Versions
<1>2. /\ t = cur_sched_term /\ pc[t] = "v_table"
      /\ mem' = set_page_table2_entry(mem, USER_VIDEO, VIDEO)
      /\ \A u \in Terms : pc'[u] = IF u = t THEN "v_flush" ELSE pc[u]
      /\ UNCHANGED <<cur_terminal, cur_sched_term, sched_pid, cur_pcb>>
  BY <1>1 DEF VidmapTable, At, Goto, procs, TypeOK
<1>3. mem.old = {}
  BY <1>1, <1>2 DEF CacheOK
<1>4. VIDEO \in Screens
  BY ScreenFacts
<1>5. /\ mem'.pages.directory = mem.pages.directory /\ mem'.pages.first = mem.pages.first
      /\ mem'.pages.second = Second(VIDEO) /\ mem'.old = mem.old \cup {mem.pages}
  BY <1>1, <1>2, <1>4, Table2Facts
<1>6. PICK p \in Shown(cur_sched_term) : mem.pages.directory = Directory(p)
  BY <1>1 DEF VersionOK
<1>7. p \in Shown(cur_sched_term)'
  BY <1>2, <1>6 DEF Shown
<1>8. PICK b \in Modes : mem.pages.first = First(Screen(cur_sched_term, cur_terminal), b)
  BY <1>1 DEF VersionOK
<1>9. mem'.pages.first = First(Screen(cur_sched_term, cur_terminal)', b) /\ mem'.pages.second \in Seconds
  BY <1>2, <1>4, <1>5, <1>8 DEF Seconds, Screen
<1>10. VersionOK(mem.pages)'
  BY <1>5, <1>6, <1>7, <1>9 DEF VersionOK
<1>11. pc'[cur_sched_term'] = "v_flush" /\ mem'.pages.second # NoEntries
  BY <1>2, <1>5, SecondPresent
<1>12. CacheOK'
  BY <1>11 DEF CacheOK
<1>13. mem'.old = {mem.pages}
  BY <1>3, <1>5
<1> QED
  BY <1>2, <1>3, <1>10, <1>12, <1>13, WrittenTables

(* Every step keeps the tables right.                                       *)
LEMMA TablesStep == PagingInv /\ [Next]_vars => TablesInv'
<1> SUFFICES ASSUME PagingInv, [Next]_vars PROVE TablesInv'
  OBVIOUS
<1>1. TypeOK /\ ChainsInv /\ TablesInv /\ CacheOK
  BY DEF PagingInv, TablesInv
<1>2. ASSUME NEW t \in Terms, sched_pid[t] > SHELL_NUM PROVE parent_pid[sched_pid[t]] \in Pids
  BY <1>1, <1>2 DEF ChainsInv, Chains, TypeOK
<1>3. ASSUME NEW t \in Terms, At(t, "user") PROVE cur_pcb[t] = 0
  BY <1>1, <1>3 DEF At, HaltPc, ChainsInv, Chains
<1>4. CASE UNCHANGED vars
  BY <1>1, <1>4 DEF vars, procs, video, thread, TablesInv, Versions, VersionOK, CacheOK, Mapped, Shown, Screen
<1>5. ASSUME NEW t \in Terms, NEW p \in Pids, execute(t, p) PROVE TablesInv'
  <2>1. /\ mem' = Flush(MapProgram(mem, p)) /\ t = cur_sched_term /\ sched_pid'[t] = p
        /\ UNCHANGED <<cur_terminal, cur_sched_term, vid_map, pc, cur_pcb>>
    BY <1>1, <1>5 DEF execute, At, thread, TypeOK
  <2> QED
    BY <2>1, MapTables
<1>6. ASSUME NEW t \in Terms, Exception(t) PROVE TablesInv'
  <2>1. PICK p \in Pids : p = parent_pid[sched_pid[t]]
    BY <1>2, <1>6 DEF Exception, Leave
  <2>2. /\ mem' = Flush(MapProgram(mem, p)) /\ t = cur_sched_term /\ sched_pid'[t] = p
        /\ UNCHANGED <<cur_terminal, cur_sched_term, pc, cur_pcb>>
    BY <1>1, <1>6, <2>1 DEF Exception, Leave, At, thread, TypeOK
  <2>3. \A u \in Terms : vid_map'[u] => vid_map[u]
    BY <1>1, <1>6 DEF Exception, VidMapAfter, TypeOK
  <2> QED
    BY <2>2, <2>3, MapTables
<1>7. ASSUME NEW t \in Terms, HaltSched(t) PROVE TablesInv'
  <2>1. /\ t = cur_sched_term /\ pc[t] = "user" /\ cur_pcb[t] = 0
        /\ cur_pcb'[t] = sched_pid[t] /\ sched_pid[t] # 0
        /\ \A u \in Terms : pc'[u] = IF u = t THEN "h_page" ELSE pc[u]
        /\ UNCHANGED <<mem, vid_map, cur_terminal, cur_sched_term>>
    BY <1>1, <1>3, <1>7 DEF HaltSched, Leave, At, Goto, TypeOK, Pids
  <2>2. Shown(cur_sched_term) \subseteq Shown(cur_sched_term)'
    BY <2>1 DEF Shown
  <2>3. CacheOK'
    BY <1>1, <2>1 DEF CacheOK, Mapped
  <2> QED
    BY <2>1, <2>2, <2>3, SameTables
<1>8. ASSUME NEW t \in Terms, HaltVid(t) PROVE TablesInv'
  <2>1. /\ t = cur_sched_term /\ pc[t] = "h_vid"
        /\ \A u \in Terms : pc'[u] = IF u = t THEN "h_flush" ELSE pc[u]
        /\ UNCHANGED <<mem, cur_terminal, cur_sched_term, sched_pid, cur_pcb>>
    BY <1>1, <1>8 DEF HaltVid, At, Goto, procs, TypeOK
  <2>2. \A u \in Terms : vid_map'[u] => vid_map[u]
    BY <1>1, <1>8 DEF HaltVid, VidMapAfter, TypeOK
  <2>3. Shown(cur_sched_term) \subseteq Shown(cur_sched_term)'
    BY <2>1 DEF Shown
  <2>4. CacheOK'
    BY <1>1, <2>1, <2>2 DEF CacheOK, Mapped
  <2> QED
    BY <2>1, <2>3, <2>4, SameTables
<1>9. ASSUME NEW t \in Terms, VidmapMark(t) PROVE TablesInv'
  <2>1. /\ t = cur_sched_term /\ pc[t] = "user"
        /\ \A u \in Terms : pc'[u] = IF u = t THEN "v_table" ELSE pc[u]
        /\ \A u \in Terms : u # t => vid_map'[u] = vid_map[u]
        /\ UNCHANGED <<mem, cur_terminal, cur_sched_term, sched_pid, cur_pcb>>
    BY <1>1, <1>9 DEF VidmapMark, At, Goto, procs, TypeOK
  <2>2. Shown(cur_sched_term) \subseteq Shown(cur_sched_term)'
    BY <2>1 DEF Shown
  <2>3. CacheOK'
    BY <1>1, <2>1 DEF CacheOK, Mapped
  <2> QED
    BY <2>1, <2>2, <2>3, SameTables
<1>10. ASSUME NEW t \in Terms, HaltFlush(t) \/ VidmapFlush(t) PROVE TablesInv'
  <2>1. /\ mem' = Flush(mem) /\ t = cur_sched_term
        /\ UNCHANGED <<cur_terminal, cur_sched_term, sched_pid, vid_map>>
        /\ \A u \in Terms : pc'[u] = IF u = t THEN "user" ELSE pc[u]
        /\ \/ pc[t] = "v_flush" /\ UNCHANGED cur_pcb
           \/ pc[t] = "h_flush" /\ cur_pcb' = [cur_pcb EXCEPT ![t] = 0]
    BY <1>1, <1>10 DEF HaltFlush, VidmapFlush, At, Goto, procs, video, TypeOK
  <2> QED
    BY <2>1, CleanTables
<1> QED
  BY <1>4, <1>5, <1>6, <1>7, <1>8, <1>9, <1>10, TickTables, KeyTables, HaltPageTables,
     VidmapTableTables DEF Next

-----------------------------------------------------------------------------
(* The inductive invariant of Paging.                                       *)
THEOREM PagingInductive == Spec => []PagingInv
<1>1. PagingInv /\ [Next]_vars => PagingInv'
  BY TypeStep, ChainsStep, TablesStep DEF PagingInv
<1> QED
  BY <1>1, InvInit, PTL DEF Spec

(* Wherever ticks and keys interrupt halt and vidmap, and whichever         *)
(* versions of the entries the processor has cached, every page leads the   *)
(* running terminal where it should: a program to its own memory and the    *)
(* screen's pages only, the kernel to itself and to the screen of the       *)
(* terminal (pit.c, kb.c, syscalls.c, idt_init.c, paging.c).                *)
THEOREM AddressesAlwaysRight == Spec => []AddressesRight
BY PagingInductive, InvAddresses, PTL

(* What a program reaches is neither the kernel's memory nor that of a      *)
(* program of another terminal.                                             *)
FrameOf(p) == Frame(p) .. Frame(p) + LARGE - 1
Isolated ==
    \A v \in Pages : \A w \in Translations(v, "user") :
        /\ w \notin KernelPages
        /\ \A u \in Terms \ {cur_sched_term} : \A p \in Shown(u) : w \notin FrameOf(p)

(* The frames of set_page_dir_entry start behind the kernel and do not      *)
(* overlap.                                                                 *)
LEMMA FramesApart ==
    ASSUME NEW p \in Pids, NEW w \in FrameOf(p)
    PROVE  w \notin KernelPages \cup Screens \cup {FAULT} /\ \A q \in Pids : q # p => w \notin FrameOf(q)
BY DEF FrameOf, Frame, Pids, KernelPages, KERNEL, Screens, Buffers, VIDEO, FAULT, LARGE

(* Programs are isolated from the kernel and from the other terminals, by   *)
(* the page tables of paging.c alone and at every moment.                   *)
THEOREM ProgramsIsolated == Spec => []Isolated
<1>1. PagingInv => Isolated
  <2> SUFFICES ASSUME PagingInv, NEW v \in Pages, NEW w \in Translations(v, "user")
               PROVE  /\ w \notin KernelPages
                      /\ \A u \in Terms \ {cur_sched_term} : \A p \in Shown(u) : w \notin FrameOf(p)
    BY DEF Isolated
  <2>1. TypeOK /\ ChainsInv /\ cur_sched_term \in Terms
    BY DEF PagingInv, TypeOK
  <2>2. AddressesRight /\ "user" \in Modes
    BY InvAddresses DEF Modes
  <2>3. w \in Reaches(v, "user")
    BY <2>2 DEF AddressesRight
  <2>4. (\E p \in Shown(cur_sched_term) : w = Frame(p) + (v - PROGRAM) /\ v \in ProgramPages)
          \/ w \in Screens \cup {FAULT}
    <3>1. CASE v \in ProgramPages
      <4>1. v # USER_VIDEO
        BY <3>1 DEF ProgramPages, PROGRAM, USER_VIDEO, LARGE
      <4>2. Reaches(v, "user") = {Frame(p) + (v - PROGRAM) : p \in Shown(cur_sched_term)}
        BY <3>1, <4>1, Zenon DEF Reaches
      <4> QED
        BY <2>3, <3>1, <4>2
    <3>2. CASE v \notin ProgramPages
      <4>1. Reaches(v, "user") \subseteq Buffers \cup {VIDEO, FAULT}
        BY <3>2 DEF Reaches
      <4> QED
        BY <2>3, <4>1 DEF Screens
    <3> QED
      BY <3>1, <3>2
  <2>5. CASE w \in Screens \cup {FAULT}
    <3>1. w \notin KernelPages
      BY <2>5 DEF Screens, Buffers, FAULT, KernelPages, KERNEL, VIDEO, LARGE
    <3>2. \A u \in Terms : \A p \in Shown(u) : w \notin FrameOf(p)
      BY <2>1, <2>5, ShownFacts, FramesApart
    <3> QED
      BY <3>1, <3>2
  <2>6. ASSUME NEW p \in Shown(cur_sched_term), w = Frame(p) + (v - PROGRAM), v \in ProgramPages
        PROVE  /\ w \notin KernelPages
               /\ \A u \in Terms \ {cur_sched_term} : \A q \in Shown(u) : w \notin FrameOf(q)
    <3>1. p \in Pids
      BY <2>1, ShownFacts
    <3>2. w \in FrameOf(p)
      BY <2>6, <3>1 DEF FrameOf, Frame, ProgramPages, PROGRAM, LARGE, Pids
    <3>3. \A u \in Terms \ {cur_sched_term} : \A q \in Shown(u) : q \in Pids /\ q # p
      BY <2>1, ShownFacts
    <3> QED
      BY <3>1, <3>2, <3>3, FramesApart
  <2> QED
    BY <2>4, <2>5, <2>6
<1> QED
  BY <1>1, PagingInductive, PTL
=============================================================================
