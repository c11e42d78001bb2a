----------------------------- MODULE Interrupts -----------------------------
(***************************************************************************)
(* Boot and hardware interrupts: the order in which boot.S and entry set    *)
(* the machine up (kernel.c), the two cascaded controllers and their masks  *)
(* (i8259.c), the gates (idt_init.c) and the protocol every handler follows *)
(* (kb.c, rtc.c, pit.c), with the switch of stacks in the PIT handler: the  *)
(* terminal that is switched away masks the PIT's line, another terminal,   *)
(* resumed in its own handler or started, unmasks it.                       *)
(*                                                                         *)
(* A handler is delivered, masks and acknowledges its line, does its work,  *)
(* unmasks the line and returns.  What the handlers do to their own data is *)
(* in Terminal, Rtc, Process and Video.                                     *)
(***************************************************************************)
EXTENDS Integers, Sequences, FiniteSets

CONSTANTS
    SHELL_NUM,  \* terminals; the code has 3
    Lines       \* the request lines of the machine, some of 0 .. 15

PIT_IRQ_NUM == 0
IRQ_NUM == 1        \* the keyboard
CASCADE == 2        \* the slave controller
RTC_IRQ_NUM == 8

ASSUME InterruptsAssumption ==
    /\ SHELL_NUM \in Nat \ {0}
    /\ Lines \subseteq 0 .. 15
    /\ {PIT_IRQ_NUM, IRQ_NUM, CASCADE, RTC_IRQ_NUM} \subseteq Lines

Terms == 0 .. SHELL_NUM - 1

VARIABLES
    todo,             \* what boot has still to do, a suffix of BootOrder
    imr,              \* master_mask and slave_mask: the lines that are masked
    irr, isr,         \* requests pending and in service
    iflag,            \* the interrupt flag of the processor
    prev_sched_term,  \* -1 until launch
    cur_sched_term,
    started,          \* terminals with a saved context: sched_arr[t].esp # -1
    start,            \* the first start of a terminal: "none", "running", "astray"
    stack,            \* the handlers that interrupt the thread of each terminal
    unread            \* the RTC holds its line until register C is read

pic == <<imr, irr, isr>>
sched == <<prev_sched_term, cur_sched_term, started, start>>
vars == <<todo, pic, iflag, sched, stack, unread>>

Active == stack[cur_sched_term]     \* the handlers of the thread that runs
Top == Active[Len(Active)]
InProgram == Active = << >>         \* boot, a program or a system call runs
Launched == prev_sched_term # -1

(* The frames on the kernel stack of terminal t: its own, except that a     *)
(* terminal that is being started runs on the stack of the one before it,   *)
(* inside the PIT handler that left that one.                               *)
OnStack(t) ==
    IF start = "none" \/ t \notin {prev_sched_term, cur_sched_term} THEN stack[t]
    ELSE IF t = prev_sched_term THEN stack[t] \o stack[cur_sched_term]
    ELSE << >>

-----------------------------------------------------------------------------
(* i8259.c.                                                                 *)
enable_irq(i) == imr' = imr \ {i}
disable_irq(i) == imr' = imr \cup {i}

(* ICW1 clears the masks, the pending requests and those in service.        *)
MasksOfIcw1 == {}
MasksAfterInit == Lines

i8259_init ==
    /\ imr' = MasksAfterInit
    /\ irr' = {}
    /\ isr' = {}

EoiToOne(i) == isr' = isr \ {i}
send_eoi(i) == isr' = isr \ ({i} \cup (IF i >= 8 THEN {CASCADE} ELSE {}))

(* What the controllers do with a request: it reaches the processor when it *)
(* is not masked, and nothing of its priority or above is requested or in   *)
(* service.  Priorities are 0, 1, then the slave's 8 .. 15, then 3 .. 7.    *)
Rank(i) == IF i >= 8 THEN CASCADE * 16 + i ELSE i * 16
Unmasked(i) == i \notin imr /\ (i >= 8 => CASCADE \notin imr)
Requesting(i) == i \in irr /\ Unmasked(i)
Presented(i) ==
    /\ Requesting(i)
    /\ \A j \in Lines : Requesting(j) => Rank(j) >= Rank(i)
    /\ \A j \in isr : Rank(j) > Rank(i)

-----------------------------------------------------------------------------
(* initialize_idt: vectors 0x20 .. 0x2F are interrupt gates, which clear    *)
(* the interrupt flag.  Three lead to a linkage routine that saves the      *)
(* registers and ends in iret; the others to a C function irqN_handler,     *)
(* which acknowledges its line and ends in ret, to nowhere.                 *)
TrapGate(flag) == flag
EntryFlag(flag) == FALSE
Linkage == {PIT_IRQ_NUM, IRQ_NUM, RTC_IRQ_NUM}

(* pushed is the flag on the stack of the gate, flags what cli_and_save     *)
(* saved, at the point the handler has reached.                             *)
Frame == [irq : Lines, at : {"entry", "body", "end", "iret", "ret"},
          pushed : BOOLEAN, flags : BOOLEAN]

(* The steps of boot.S, entry and launch, in the order of the code.         *)
BootOrder == <<"idt", "descriptors", "paging", "pic", "cascade", "rtc", "pit",
               "shells", "keyboard", "sti", "launch">>

Done(s) == \A k \in 1 .. Len(todo) : todo[k] # s

(* What a handler uses: its gate on the new vectors, and the tables it      *)
(* reads.  The PIT handler needs a PCB only after launch.                   *)
Needs(i) == CASE i = PIT_IRQ_NUM -> {"idt", "pic", "paging", "descriptors", "pit"}
              [] i = IRQ_NUM     -> {"idt", "pic", "paging", "pit", "shells"}
              [] OTHER           -> {"idt", "pic", "rtc"}

(* The loader leaves any lines masked and any requests pending, except that *)
(* the RTC has not been told to interrupt.                                  *)
Init ==
    /\ todo = BootOrder
    /\ imr \in SUBSET Lines
    /\ irr \in SUBSET (Lines \ {CASCADE, RTC_IRQ_NUM})
    /\ isr = {}
    /\ iflag = FALSE
    /\ prev_sched_term = -1
    /\ cur_sched_term = 0
    /\ started = {0}
    /\ start = "none"
    /\ stack = [t \in Terms |-> << >>]
    /\ unread = FALSE

-----------------------------------------------------------------------------
(* Boot: a step runs when no handler is on its stack.                       *)
Step(s) ==
    /\ todo # << >> /\ Head(todo) = s
    /\ InProgram
    /\ todo' = Tail(todo)
    /\ UNCHANGED <<stack, unread>>

(* boot.S loads the GDT, fills the IDT and loads it.                        *)
InitializeIdt == Step("idt") /\ UNCHANGED <<pic, iflag, sched>>

(* entry checks the magic number and the flags of the loader before it      *)
(* loads the descriptors; if they are wrong it returns to boot.S, which     *)
(* halts.                                                                   *)
BadLoader ==
    /\ todo # << >> /\ Head(todo) = "descriptors"
    /\ todo' = << >>
    /\ UNCHANGED <<pic, iflag, sched, stack, unread>>

Descriptors == Step("descriptors") /\ UNCHANGED <<pic, iflag, sched>>
InitPaging == Step("paging") /\ UNCHANGED <<pic, iflag, sched>>
InitPic == Step("pic") /\ i8259_init /\ UNCHANGED <<iflag, sched>>
EnableCascade == Step("cascade") /\ enable_irq(CASCADE) /\ UNCHANGED <<irr, isr, iflag, sched>>
rtc_init == Step("rtc") /\ enable_irq(RTC_IRQ_NUM) /\ UNCHANGED <<irr, isr, iflag, sched>>
pit_init ==
    /\ Step("pit")
    /\ enable_irq(PIT_IRQ_NUM)
    /\ started' = {0}
    /\ UNCHANGED <<irr, isr, iflag, prev_sched_term, cur_sched_term, start>>
init_shell == Step("shells") /\ UNCHANGED <<pic, iflag, sched>>
keyboard_init == Step("keyboard") /\ enable_irq(IRQ_NUM) /\ UNCHANGED <<irr, isr, iflag, sched>>
EnableInterrupts == Step("sti") /\ iflag' = TRUE /\ UNCHANGED <<pic, sched>>

(* launch runs with interrupts off up to context_switch.  Without a shell   *)
(* in the file system it returns and entry halts for ever, with interrupts  *)
(* on, or off when the shell could not be copied.                           *)
launch ==
    /\ Step("launch")
    /\ prev_sched_term' = 0
    /\ iflag' = TRUE
    /\ UNCHANGED <<pic, cur_sched_term, started, start>>
LaunchFails ==
    /\ Step("launch")
    /\ iflag' \in BOOLEAN
    /\ UNCHANGED <<pic, sched>>

(* hlt in entry and boot.S.  The model also ends after SwitchAstray below.  *)
Halt ==
    /\ \/ todo = << >> /\ ~Launched
       \/ start = "astray"
    /\ UNCHANGED vars

-----------------------------------------------------------------------------
(* A device asserts its line at any time; the RTC only once it is told to,  *)
(* and again only after register C was read.  The cascade has no device.    *)
Raise(i) ==
    /\ i \notin irr /\ i # CASCADE
    /\ i = RTC_IRQ_NUM => Done("rtc") /\ ~unread
    /\ irr' = irr \cup {i}
    /\ unread' = (unread \/ i = RTC_IRQ_NUM)
    /\ UNCHANGED <<todo, imr, isr, iflag, sched, stack>>

(* The processor takes the request, whatever it is running.                 *)
Deliver(i) ==
    /\ iflag
    /\ Presented(i)
    /\ irr' = irr \ {i}
    /\ isr' = isr \cup {i} \cup (IF i >= 8 THEN {CASCADE} ELSE {})
    /\ stack' = [stack EXCEPT ![cur_sched_term] =
           Append(@, [irq |-> i, at |-> "entry", pushed |-> iflag, flags |-> FALSE])]
    /\ iflag' = EntryFlag(iflag)
    /\ UNCHANGED <<todo, imr, sched, unread>>

Reach(f) == stack' = [stack EXCEPT ![cur_sched_term] = [@ EXCEPT ![Len(@)] = f]]

(* cli_and_save, disable_irq, send_eoi: the same in the three handlers.  A  *)
(* function irqN_handler only acknowledges.                                 *)
Acknowledge ==
    /\ ~InProgram /\ Top.at = "entry"
    /\ send_eoi(Top.irq)
    /\ IF Top.irq \in Linkage THEN disable_irq(Top.irq) ELSE UNCHANGED imr
    /\ iflag' = (iflag /\ Top.irq \notin Linkage)
    /\ Reach([Top EXCEPT !.flags = iflag,
                         !.at = IF Top.irq \in Linkage THEN "body" ELSE "ret"])
    /\ UNCHANGED <<todo, irr, sched, unread>>

(* The keyboard's work, and the RTC's, which ends with reading register C.  *)
Work ==
    /\ ~InProgram /\ Top.at = "body" /\ Top.irq # PIT_IRQ_NUM
    /\ unread' = (unread /\ Top.irq # RTC_IRQ_NUM)
    /\ Reach([Top EXCEPT !.at = "end"])
    /\ UNCHANGED <<todo, pic, iflag, sched>>

(* The PIT's work before launch: none.                                      *)
Tick ==
    /\ ~InProgram /\ Top.at = "body" /\ Top.irq = PIT_IRQ_NUM
    /\ ~Launched
    /\ Reach([Top EXCEPT !.at = "end"])
    /\ UNCHANGED <<todo, pic, iflag, sched, unread>>

(* switch_process to the next terminal: this one is left inside its         *)
(* handler.  A terminal with a saved context goes on in the handler that    *)
(* left it; one without is started, after the line was unmasked in place of *)
(* the end of the handler that it never had.                                *)
Switching == ~InProgram /\ Top.at = "body" /\ Top.irq = PIT_IRQ_NUM /\ Launched

(* The first start, up to the popf of context_switch: interrupts are on,    *)
(* still on the stack of the terminal before.                               *)
StartMasked == start' = "running" /\ iflag' = TRUE /\ UNCHANGED pic
StartTerminal ==
    /\ start' = "running"
    /\ enable_irq(PIT_IRQ_NUM)
    /\ iflag' = TRUE
    /\ UNCHANGED <<irr, isr>>

SwitchProcess ==
    /\ Switching /\ start = "none"
    /\ LET next == (cur_sched_term + 1) % SHELL_NUM IN
       /\ prev_sched_term' = cur_sched_term
       /\ cur_sched_term' = next
       /\ started' = started \cup {cur_sched_term}
       /\ Reach([Top EXCEPT !.at = "end"])
       /\ IF next \in started' THEN UNCHANGED <<pic, iflag, start>> ELSE StartTerminal
    /\ UNCHANGED <<todo, unread>>

(* The iret of context_switch: the new terminal leaves the stack of the one *)
(* before and is in its program.                                            *)
EnterProgram ==
    /\ start = "running" /\ InProgram
    /\ start' = "none"
    /\ UNCHANGED <<todo, pic, iflag, prev_sched_term, cur_sched_term, started, stack, unread>>

(* A tick between that popf and that iret: switch_process saves as context  *)
(* of the new terminal a place on the stack of the one before, which that   *)
(* one overwrites when it runs again.  What follows is not modelled.        *)
SwitchAstray ==
    /\ Switching /\ start = "running"
    /\ start' = "astray"
    /\ UNCHANGED <<todo, pic, iflag, prev_sched_term, cur_sched_term, started, stack, unread>>

(* enable_irq and restore_flags, in the terminal that is now in use, and    *)
(* the iret of the linkage.                                                 *)
Finish ==
    /\ ~InProgram /\ Top.at = "end"
    /\ enable_irq(Top.irq)
    /\ iflag' = Top.flags
    /\ Reach([Top EXCEPT !.at = "iret"])
    /\ UNCHANGED <<todo, irr, isr, sched, unread>>

Iret ==
    /\ ~InProgram /\ Top.at = "iret"
    /\ iflag' = Top.pushed
    /\ stack' = [stack EXCEPT ![cur_sched_term] = SubSeq(@, 1, Len(@) - 1)]
    /\ UNCHANGED <<todo, pic, sched, unread>>

(* The system calls and the library turn interrupts off and on again.  A    *)
(* request that is presented while they are on is taken first.              *)
Cli ==
    /\ Launched /\ InProgram /\ start = "none" /\ iflag
    /\ \A i \in Lines : ~Presented(i)
    /\ iflag' = FALSE
    /\ UNCHANGED <<todo, pic, sched, stack, unread>>
Sti ==
    /\ Launched /\ InProgram /\ start = "none" /\ ~iflag
    /\ iflag' = TRUE
    /\ UNCHANGED <<todo, pic, sched, stack, unread>>

Boot ==
    \/ InitializeIdt \/ BadLoader \/ Descriptors \/ InitPaging
    \/ InitPic \/ EnableCascade \/ rtc_init \/ pit_init \/ init_shell
    \/ keyboard_init \/ EnableInterrupts \/ launch \/ LaunchFails
Handler ==
    \/ Acknowledge \/ Work \/ Tick \/ Finish \/ Iret
    \/ SwitchProcess \/ EnterProgram \/ SwitchAstray

Next ==
    \/ Boot
    \/ Handler
    \/ \E i \in Lines : Raise(i) \/ Deliver(i)
    \/ Cli
    \/ Sti
    \/ Halt

Spec == Init /\ [][Next]_vars

(* Boot and the handlers run on, every section with interrupts off ends,    *)
(* the two timers keep asking, and the processor takes a request that       *)
(* reaches it again and again.                                              *)
Fairness ==
    /\ WF_vars(Boot)
    /\ WF_vars(Handler)
    /\ WF_vars(Sti)
    /\ WF_vars(Raise(PIT_IRQ_NUM))
    /\ WF_vars(Raise(RTC_IRQ_NUM))
    /\ \A i \in Linkage : SF_vars(Deliver(i))

FairSpec == Spec /\ Fairness

-----------------------------------------------------------------------------
(* Every variable has the type of what it models.                           *)
TypeOK ==
    /\ \E k \in 0 .. Len(BootOrder) : todo = SubSeq(BootOrder, k + 1, Len(BootOrder))
    /\ imr \subseteq Lines /\ irr \subseteq Lines /\ isr \subseteq Lines
    /\ iflag \in BOOLEAN /\ unread \in BOOLEAN
    /\ prev_sched_term \in -1 .. SHELL_NUM - 1
    /\ cur_sched_term \in Terms
    /\ started \subseteq Terms
    /\ start \in {"none", "running", "astray"}
    /\ stack \in [Terms -> Seq(Frame)]

(* Handlers nest nowhere but in the first start of a terminal, where at     *)
(* most one is on top of the PIT handler of the terminal before.  At the    *)
(* bottom of the stack of a terminal that is not scheduled is the PIT       *)
(* handler that left it, past its work: what switch_process saved is still  *)
(* there when the terminal is resumed.                                      *)
OneHandler ==
    /\ \A t \in Terms :
           Len(OnStack(t)) <= IF start # "none" /\ t = prev_sched_term THEN 2 ELSE 1
    /\ \A t \in started \ {cur_sched_term} :
           /\ Len(OnStack(t)) >= 1
           /\ OnStack(t)[1].irq = PIT_IRQ_NUM /\ OnStack(t)[1].at = "end"

(* Whenever a program runs, no line that the system uses is left masked and *)
(* no request is left in service, although the handler that masked the      *)
(* PIT's line is not the one that unmasks it.                               *)
LinesRestored ==
    Launched /\ InProgram => /\ imr \cap (Linkage \cup {CASCADE}) = {}
                             /\ isr = {}

(* No interrupt is ever delivered to a gate without a linkage, on a vector  *)
(* of the exceptions, or before boot has set up what its handler uses.      *)
HandlersReady ==
    \A t \in Terms : \A k \in 1 .. Len(stack[t]) :
        /\ stack[t][k].irq \in Linkage
        /\ \A s \in Needs(stack[t][k].irq) : Done(s)

(* Once the shells run the timers never stop, and every request is served,  *)
(* a key included, provided the devices with higher priority leave a moment *)
(* for it again and again (after a tick in a first start, none is left).    *)
RoomFor(i) == InProgram /\ iflag /\ \A j \in Lines : Rank(j) < Rank(i) => ~Requesting(j)

DevicesServed ==
    /\ \A i \in {PIT_IRQ_NUM, RTC_IRQ_NUM} : []<>(~Launched \/ i \in irr)
    /\ \A i \in Linkage : []<>RoomFor(i) => (Launched /\ i \in irr ~> i \notin irr)
=============================================================================
