------------------------------ MODULE Process ------------------------------
(***************************************************************************)
(* Processes of the kernel: execute and halt (syscalls.c), the death of a  *)
(* faulting program (the exception macro of idt_init.c) and the round      *)
(* robin over the terminals that the PIT interrupt drives (pit.c).         *)
(*                                                                         *)
(* There is one processor.  Interrupt handlers run with IF = 0 and are one *)
(* step each.  A system call runs with IF = 1 (linkage.S executes sti), so *)
(* a PIT tick may land between any two statements of execute and halt that *)
(* are not between cli and sti: each such statement is a step of its own.  *)
(*                                                                         *)
(* A process p owns the 8 KB kernel stack that ends at 8MB - (p-1)*8KB,    *)
(* with its PCB at the low end, and the 4 MB frame at 8MB + (p-1)*4MB that *)
(* is mapped at 128 MB while p runs.  A stack pointer is therefore modelled*)
(* by the pid whose stack it points into.                                  *)
(*                                                                         *)
(* State kept elsewhere: file descriptors, vidmem/vid_map and the video    *)
(* page tables do not influence any variable of this module.               *)
(***************************************************************************)
EXTENDS Integers, FiniteSets

CONSTANTS
    SHELL_NUM,  \* terminals, each with a root shell; the code has 3 (SCHED_SIZE)
    MAX_PROGS,  \* process slots; the code has 6
    MaxHits     \* bound: how many ticks may land in each kind of race window

ASSUME ShellAssumption == SHELL_NUM \in Nat \ {0}
ASSUME ProgsAssumption == MAX_PROGS \in Nat /\ MAX_PROGS >= SHELL_NUM
ASSUME HitsAssumption == MaxHits \in Nat

Terms == 0 .. SHELL_NUM - 1
Pids == 1 .. MAX_PROGS

VARIABLES
    process_array,   \* slot of each pid: 1 in use, -1 free
    process_num,     \* the kernel's count of active processes
    sched_pid,       \* sched_arr[t].process_num: the process terminal t runs
    cur_sched_term,  \* the terminal that has the processor
    pcb,             \* parent_pid (parent_esp follows from it) and parent_ebp
    tss_esp0,        \* stack the next entry from user mode uses
    user_page,       \* process whose 4 MB frame is mapped at 128 MB
    pc,              \* where the thread of each terminal is
    ks,              \* stack its kernel context is on (when it has one)
    tmp,             \* register of process_num-- between its load and its store
    frame,           \* what the top of each kernel stack holds
    wild,            \* how control was lost, "none" while it is not
    hits             \* history: ticks that landed in each kind of window

count == <<process_array, process_num, tmp>>
tree == <<sched_pid, pcb>>
cpu == <<tss_esp0, user_page>>
thread == <<pc, ks, frame, wild>>
sched == <<cur_sched_term, hits>>
vars == <<count, tree, cpu, thread, sched>>

HaltPc == {"h_load", "h_store", "h_free", "h_tss", "h_sched", "h_page", "h_ret"}
ExecPc == {"zero", "body"}
PcLabels == {"new", "user", "sys", "cs", "ret"} \cup HaltPc \cup ExecPc

(***************************************************************************)
(* Content of a kernel stack.  Live(t) : frames of the system call or      *)
(* interrupt terminal t is in.  Awaiting(t, c) : the frame of the execute  *)
(* with which t started c, to which the halt of c returns.                 *)
(***************************************************************************)
NoFrame == [term |-> -1, child |-> 0]
Live(t) == [term |-> t, child |-> 0]
Awaiting(t, c) == [term |-> t, child |-> c]
Frames == [term : Terms \cup {-1}, child : 0 .. MAX_PROGS]

Used == {p \in Pids : process_array[p] = 1}

(***************************************************************************)
(* The stretches of code that a tick should not split, by the label the    *)
(* thread is at: "dec" between load and store of process_num--, "early"    *)
(* between that store and the release of the slot, "freed" from the release*)
(* to the return to the parent, "tss" between the write of tss.esp0 and the*)
(* write of sched_arr[].process_num, "limit" between execute's check of    *)
(* process_num and its cli.                                                *)
(***************************************************************************)
Window == [dec   |-> {"h_store"},
           early |-> {"h_free"},
           freed |-> {"h_tss", "h_sched", "h_page", "h_ret"},
           tss   |-> {"h_sched"},
           limit |-> {"zero", "body"}]
Windows == DOMAIN Window

TypeOK ==
    /\ process_array \in [Pids -> {-1, 1}]
    /\ process_num \in Int
    /\ tmp \in [Terms -> Int]
    /\ sched_pid \in [Terms -> Pids]
    /\ pcb \in [Pids -> [parent_pid : 0 .. MAX_PROGS, parent_ebp : 0 .. MAX_PROGS]]
    /\ tss_esp0 \in Pids
    /\ user_page \in Pids
    /\ pc \in [Terms -> PcLabels]
    /\ ks \in [Terms -> Pids]
    /\ frame \in [Pids -> Frames]
    /\ wild \in {"none", "slot", "resume", "return"}
    /\ cur_sched_term \in Terms
    /\ hits \in [Windows -> Nat]

-----------------------------------------------------------------------------
(* pit_init: terminal t will run shell t+1; only terminal 0 has a context.  *)
PitInit ==
    /\ cur_sched_term = 0
    /\ sched_pid = [t \in Terms |-> t + 1]
    /\ ks = [t \in Terms |-> t + 1]
    /\ pc = [t \in Terms |-> IF t = 0 THEN "cs" ELSE "new"]

(* launch: the root shells have their slots; the boot stack is stack 1 and  *)
(* the kernel is about to enter shell 1 through context_switch.             *)
LaunchInit ==
    /\ process_array = [p \in Pids |-> IF p <= SHELL_NUM THEN 1 ELSE -1]
    /\ process_num = SHELL_NUM
    /\ pcb = [p \in Pids |-> [parent_pid |-> 0, parent_ebp |-> 0]]
    /\ tss_esp0 = 1
    /\ user_page = 1  \* the loading loop counts down and ends with shell 1
    /\ frame = [p \in Pids |-> IF p = 1 THEN Live(0) ELSE NoFrame]

Init ==
    /\ PitInit
    /\ LaunchInit
    /\ tmp = [t \in Terms |-> 0]
    /\ wild = "none"
    /\ hits = [w \in Windows |-> 0]

-----------------------------------------------------------------------------
At(t, label) == wild = "none" /\ cur_sched_term = t /\ pc[t] = label
Goto(t, label) == pc' = [pc EXCEPT ![t] = label]

(* system_call_handler: the processor switches to the stack in the TSS.     *)
SyscallEntry(t) ==
    /\ At(t, "user")
    /\ ks' = [ks EXCEPT ![t] = tss_esp0]
    /\ frame' = [frame EXCEPT ![tss_esp0] = Live(t)]
    /\ Goto(t, "sys")
    /\ UNCHANGED <<count, tree, cpu, wild, sched>>

(* The system calls other than halt and execute, and an invalid number.  A  *)
(* call may stay at "sys" for ever: terminal_read waits there for Enter.    *)
OtherSyscall(t) ==
    /\ At(t, "sys")
    /\ Goto(t, "ret")
    /\ UNCHANGED <<count, tree, cpu, ks, frame, wild, sched>>

(* SYSCALL_DONE: restore the registers and iret.                            *)
SyscallReturn(t) ==
    /\ At(t, "ret")
    /\ frame' = [frame EXCEPT ![ks[t]] = NoFrame]
    /\ Goto(t, "user")
    /\ UNCHANGED <<count, tree, cpu, ks, wild, sched>>

(* context_switch: iret to the first instruction of a program.  The frame   *)
(* of the execute that comes here stays on the parent's stack.              *)
ContextSwitch(t) ==
    /\ At(t, "cs")
    /\ frame' = IF frame[ks[t]].child = 0
                  THEN [frame EXCEPT ![ks[t]] = NoFrame] ELSE frame
    /\ Goto(t, "user")
    /\ UNCHANGED <<count, tree, cpu, ks, wild, sched>>

-----------------------------------------------------------------------------
(* execute, the test of the limit: interrupts are still enabled.            *)
LimitOffByOne == process_num > MAX_PROGS
LimitReached == process_num >= MAX_PROGS

ExecLimit(t) ==
    /\ At(t, "sys")
    /\ Goto(t, IF LimitReached THEN "ret" ELSE "zero")
    /\ UNCHANGED <<count, tree, cpu, ks, frame, wild, sched>>

(* execute, the second look at process_num: 0 means no process was ever     *)
(* launched, so every slot is marked free.                                  *)
ExecZero(t) ==
    /\ At(t, "zero")
    /\ process_array' = IF process_num = 0 THEN [p \in Pids |-> -1]
                                           ELSE process_array
    /\ Goto(t, "body")
    /\ UNCHANGED <<process_num, tmp, tree, cpu, ks, frame, wild, sched>>

(* The name is not in the directory or the file is no executable: sti and   *)
(* return -1 before any state changed.                                      *)
ExecFail(t) ==
    /\ At(t, "body")
    /\ Goto(t, "ret")
    /\ UNCHANGED <<count, tree, cpu, ks, frame, wild, sched>>

(* The slot the search of execute finds: the lowest free one.               *)
SlotByCount(p) == p = process_num + 1
FreeSlot(p) == process_array[p] = -1 /\ \A q \in 1 .. p - 1 : process_array[q] # -1

(* The links of a new PCB to its parent: the process the terminal runs, and *)
(* the frame of this execute.                                               *)
PcbOfRootShell(t) == [parent_pid |-> t + 1, parent_ebp |-> ks[t]]
NewPcb(t) == [parent_pid |-> sched_pid[t], parent_ebp |-> ks[t]]

(* execute from cli to the jump to context_switch.                          *)
ExecSpawn(t) ==
    /\ At(t, "body")
    /\ \E p \in Pids :
        /\ FreeSlot(p)
        /\ process_array' = [process_array EXCEPT ![p] = 1]
        /\ process_num' = process_num + 1
        /\ pcb' = [pcb EXCEPT ![p] = NewPcb(t)]
        /\ sched_pid' = [sched_pid EXCEPT ![t] = p]
        /\ tss_esp0' = p
        /\ user_page' = p
        /\ frame' = [frame EXCEPT ![ks[t]] = Awaiting(t, p)]
    /\ Goto(t, "cs")
    /\ UNCHANGED <<tmp, ks, wild, sched>>

(* No slot is free: the search leaves pcb.pid uninitialised and the program *)
(* is loaded, and its PCB stored, wherever that value says.                 *)
ExecNoSlot(t) ==
    /\ At(t, "body")
    /\ \A p \in Pids : process_array[p] # -1
    /\ wild' = "slot"
    /\ UNCHANGED <<count, tree, cpu, pc, ks, frame, sched>>

-----------------------------------------------------------------------------
(* halt.  cur_pcb is the PCB of the stack the call runs on (get_pcb_add).   *)
cur_pcb(t) == pcb[ks[t]]

(* A root shell is entered afresh; otherwise the files are closed and the   *)
(* process is torn down.                                                    *)
OnlyFirstShell(p) == p = 1
IsRootShell(p) == p <= SHELL_NUM

HaltBegin(t) ==
    /\ At(t, "sys")
    /\ Goto(t, IF IsRootShell(ks[t]) THEN "cs" ELSE "h_load")
    /\ UNCHANGED <<count, tree, cpu, ks, frame, wild, sched>>

(* process_num-- is a load and a store in the unoptimised build.            *)
HaltLoad(t) ==
    /\ At(t, "h_load")
    /\ tmp' = [tmp EXCEPT ![t] = process_num]
    /\ Goto(t, "h_store")
    /\ UNCHANGED <<process_array, process_num, tree, cpu, ks, frame, wild, sched>>

HaltStore(t) ==
    /\ At(t, "h_store")
    /\ process_num' = tmp[t] - 1
    /\ tmp' = [tmp EXCEPT ![t] = 0]
    /\ Goto(t, "h_free")
    /\ UNCHANGED <<process_array, tree, cpu, ks, frame, wild, sched>>

HaltFree(t) ==
    /\ At(t, "h_free")
    /\ process_array' = [process_array EXCEPT ![ks[t]] = -1]
    /\ Goto(t, "h_tss")
    /\ UNCHANGED <<process_num, tmp, tree, cpu, ks, frame, wild, sched>>

HaltTss(t) ==
    /\ At(t, "h_tss")
    /\ tss_esp0' = cur_pcb(t).parent_pid
    /\ Goto(t, "h_sched")
    /\ UNCHANGED <<count, tree, user_page, ks, frame, wild, sched>>

(* The saved esp and ebp written here are overwritten by the next tick.     *)
HaltSched(t) ==
    /\ At(t, "h_sched")
    /\ sched_pid' = [sched_pid EXCEPT ![t] = cur_pcb(t).parent_pid]
    /\ Goto(t, "h_page")
    /\ UNCHANGED <<count, pcb, cpu, ks, frame, wild, sched>>

HaltPage(t) ==
    /\ At(t, "h_page")
    /\ user_page' = cur_pcb(t).parent_pid
    /\ Goto(t, "h_ret")
    /\ UNCHANGED <<count, tree, tss_esp0, ks, frame, wild, sched>>

(* leave and ret through parent_ebp: process c of terminal t ends in the    *)
(* frame its PCB names, provided stack contents `stacks` still has it.      *)
ReturnToParent(t, c, stacks) ==
    LET q == pcb[c].parent_ebp
    IN  IF q \in Pids /\ stacks[q] = Awaiting(t, c)
          THEN /\ frame' = [stacks EXCEPT ![q] = Live(t), ![c] = NoFrame]
               /\ ks' = [ks EXCEPT ![t] = q]
               /\ Goto(t, "ret")
               /\ UNCHANGED wild
          ELSE /\ wild' = "return"
               /\ UNCHANGED <<frame, ks, pc>>

HaltReturn(t) ==
    /\ At(t, "h_ret")
    /\ ReturnToParent(t, ks[t], frame)
    /\ UNCHANGED <<count, tree, cpu, sched>>

-----------------------------------------------------------------------------
(* An exception of the program on terminal t, in user mode or in execute    *)
(* when it reads the command string.  The root shells do not fault.  cli    *)
(* makes it one step up to the return to the parent.                        *)
CountKept == process_num
CountAfterFault == process_num - 1

ExceptionStack(t) == IF pc[t] = "user" THEN tss_esp0 ELSE ks[t]

Exception(t) ==
    LET s == ExceptionStack(t)
    IN  /\ At(t, "user") \/ At(t, "body")
        /\ user_page > SHELL_NUM
        /\ s > SHELL_NUM
        /\ process_num' = CountAfterFault
        /\ process_array' = [process_array EXCEPT ![s] = -1]
        /\ sched_pid' = [sched_pid EXCEPT ![t] = pcb[s].parent_pid]
        /\ user_page' = pcb[s].parent_pid
        /\ tss_esp0' = pcb[s].parent_pid
        /\ ReturnToParent(t, s, [frame EXCEPT ![s] = Live(t)])
        /\ UNCHANGED <<tmp, pcb, sched>>

-----------------------------------------------------------------------------
(* switch_process, the end: terminal n continues from the context saved on  *)
(* its stack, or enters its shell for the first time.                       *)
Resume(n, stacks) ==
    \/ /\ pc[n] = "new"
       /\ Goto(n, "user")
       /\ frame' = stacks
       /\ UNCHANGED wild
    \/ /\ pc[n] # "new"
       /\ stacks[ks'[n]].term = n
       /\ frame' = IF pc[n] = "user" THEN [stacks EXCEPT ![ks'[n]] = NoFrame]
                                     ELSE stacks
       /\ UNCHANGED <<pc, wild>>
    \/ /\ pc[n] # "new"
       /\ stacks[ks'[n]].term # n
       /\ wild' = "resume"
       /\ frame' = stacks
       /\ UNCHANGED pc

(* The next terminal in the round, and the process it runs.                 *)
SkipLastTerm(t) == IF t + 2 >= SHELL_NUM THEN 0 ELSE t + 1
NextTerm(t) == (t + 1) % SHELL_NUM
RootOf(t) == t + 1
ProcessOf(t) == sched_pid[t]

(* pit_interrupt_handler.  The tick pushes the context of the running       *)
(* terminal on the stack it is on, or on the TSS's if it is in user mode.   *)
Tick ==
    LET p == cur_sched_term
        n == NextTerm(p)
        in == {w \in Windows : pc[p] \in Window[w]}
    IN  /\ wild = "none"
        /\ \A w \in in : hits[w] < MaxHits
        /\ hits' = [w \in Windows |-> IF w \in in THEN hits[w] + 1 ELSE hits[w]]
        /\ cur_sched_term' = n
        /\ tss_esp0' = ProcessOf(n)
        /\ user_page' = ProcessOf(n)
        /\ ks' = [ks EXCEPT ![p] = IF pc[p] = "user" THEN tss_esp0 ELSE @]
        /\ Resume(n, IF pc[p] = "user" THEN [frame EXCEPT ![tss_esp0] = Live(p)]
                                       ELSE frame)
        /\ UNCHANGED <<count, tree>>

-----------------------------------------------------------------------------
(* The code that runs when terminal t has the processor.                    *)
KernelStep(t) ==
    \/ OtherSyscall(t) \/ SyscallReturn(t) \/ ContextSwitch(t)
    \/ ExecLimit(t) \/ ExecZero(t) \/ ExecFail(t) \/ ExecSpawn(t) \/ ExecNoSlot(t)
    \/ HaltBegin(t) \/ HaltLoad(t) \/ HaltStore(t) \/ HaltFree(t)
    \/ HaltTss(t) \/ HaltSched(t) \/ HaltPage(t) \/ HaltReturn(t)

Next ==
    \/ Tick
    \/ \E t \in Terms : SyscallEntry(t) \/ Exception(t) \/ KernelStep(t)

Spec == Init /\ [][Next]_vars

(* The PIT keeps interrupting (strongly fair because MaxHits disables Tick  *)
(* inside some windows, which the hardware does not).  A slice of 10 ms is  *)
(* thousands of instructions, so code that gets the processor again and     *)
(* again advances.  Nothing is assumed at "sys": which call it is, and when *)
(* a read of the keyboard ends, is up to the program and the user.          *)
Fairness ==
    /\ SF_vars(Tick)
    /\ \A t \in Terms : SF_vars(pc[t] # "sys" /\ KernelStep(t))
FairSpec == Spec /\ Fairness

-----------------------------------------------------------------------------
(***************************************************************************)
(* Properties.  Clean(W): no tick has landed in a window of W so far.      *)
(***************************************************************************)
Clean(W) == \A w \in W : hits[w] = 0
Undisturbed == Clean({"dec", "freed"})

(* The terminal a process in use belongs to: t for its root shell, else the *)
(* one whose execute waits for the process on the parent's stack.           *)
Owner(p) == IF p <= SHELL_NUM THEN p - 1 ELSE frame[pcb[p].parent_pid].term

InHaltAfterFree(t) == pc[t] \in Window.freed

(* process_num counts the slots in use, except for a halt that has already  *)
(* decremented it and not yet released its slot.  (process_num-- in halt    *)
(* and in the exception macro, process_num++ in execute.)                   *)
CountExact ==
    Undisturbed => process_num + Cardinality({t \in Terms : pc[t] = "h_free"})
                     = Cardinality(Used)

(* An execute that passed the limit finds a slot, unless a tick separated   *)
(* the check from the search or let execute see the count of a halt that    *)
(* still holds its slot: otherwise pcb.pid would be used uninitialised.     *)
SlotAvailable ==
    Undisturbed /\ Clean({"early", "limit"}) => wild # "slot"

(* Every context a tick resumes, and every frame a halt or an exception     *)
(* returns to, is the one its terminal left there: nobody else has run on   *)
(* that kernel stack in between.                                            *)
ControlKept == Undisturbed => wild \notin {"resume", "return"}

(* The slots in use form one chain per terminal, from its root shell        *)
(* through the processes waiting in execute down to the one it runs: every  *)
(* slot has one owner, the scheduler's entry is the end of the owner's      *)
(* chain, and no slot is leaked.                                            *)
OneChainPerTerminal ==
    Undisturbed =>
        /\ 1 .. SHELL_NUM \subseteq Used
        /\ \A p \in Used : Owner(p) \in Terms
        /\ \A t \in Terms : ~InHaltAfterFree(t) =>
              /\ sched_pid[t] \in Used
              /\ Owner(sched_pid[t]) = t
              /\ frame[sched_pid[t]].child = 0
        /\ \A p \in Used : LET c == frame[p].child
                           IN  IF c = 0 THEN p = sched_pid[Owner(p)] \/
                                             InHaltAfterFree(Owner(p))
                               ELSE pcb[c].parent_pid = p /\ frame[p].term = Owner(p)

(* In user mode the stack in the TSS, the mapped program and the            *)
(* scheduler's entry are the same process, whatever the ticks before,       *)
(* unless one fell between tss.esp0 and sched_arr[].process_num in halt.    *)
UserContext ==
    LET t == cur_sched_term
    IN  Clean({"tss"}) /\ wild = "none" /\ pc[t] = "user"
            => tss_esp0 = sched_pid[t] /\ user_page = sched_pid[t]

(* However the ticks fall, every terminal has the processor again and again *)
(* in its program or in a system call of its choice, even if every other    *)
(* terminal waits in terminal_read for ever: none is starved, and none is   *)
(* held in execute, in halt or before its first start, unless control was   *)
(* lost.                                                                    *)
EveryTerminalRuns ==
    \A t \in Terms :
        []<>((cur_sched_term = t /\ pc[t] \in {"user", "sys"}) \/ wild # "none")

(* syscalls.c:38 "Returns to parent execute", as stated.                    *)
ReturnsToParentExecute == wild # "return"
=============================================================================
