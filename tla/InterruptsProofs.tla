-------------------------- MODULE InterruptsProofs --------------------------
(***************************************************************************)
(* Proofs about boot and the interrupt handlers, for every number of       *)
(* terminals and every set of request lines that the machine has.          *)
(***************************************************************************)
EXTENDS Interrupts, SequenceTheorems, TLAPS

(* What is left of boot after k of its steps.                               *)
STEPS == 11
BootSteps == {"idt", "descriptors", "paging", "pic", "cascade", "rtc", "pit",
              "shells", "keyboard", "sti", "launch"}
Remaining(k) == SubSeq(BootOrder, k + 1, STEPS)

Served == Linkage \cup {CASCADE}        \* the lines the system uses
Masked(S) == imr \cap Served = S        \* of these, S is masked
OthersMasked == Lines \ Served \subseteq imr

(* Gates clear the flag, so a handler is entered with IF on the stack and   *)
(* saves a flag that is off.                                                *)
Handling(i, at) == [irq |-> i, at |-> at, pushed |-> TRUE, flags |-> FALSE]
Points == {"entry", "body", "end", "iret"}
InService(i) == {i} \cup (IF i >= 8 THEN {CASCADE} ELSE {})

-----------------------------------------------------------------------------
(* No handler runs and none is left on a stack.                             *)
Quiet == /\ isr = {}
         /\ \A t \in Terms : stack[t] = << >>
         /\ ~iflag

(* Before sti: the lines unmasked so far follow the order of entry.         *)
Booting(k) ==
    /\ todo = Remaining(k)
    /\ Quiet
    /\ k >= 4 => OthersMasked
    /\ k >= 5 => CASCADE \notin imr
    /\ k >= 6 => RTC_IRQ_NUM \notin imr
    /\ k >= 7 => PIT_IRQ_NUM \notin imr
    /\ k >= 9 => IRQ_NUM \notin imr

(* entry or launch has returned to boot.S, which halts with IF = 0.         *)
Dead == todo = << >> /\ Quiet

(* The stack in use: empty, or one handler at a point of its protocol, with *)
(* the masks, the service and the flag that belong to the point.            *)
CurrentOK ==
    \/ Active = << >> /\ isr = {} /\ Masked({})
    \/ \E i \in Linkage :
          /\ ~iflag
          /\ \/ Active = <<Handling(i, "entry")>> /\ isr = InService(i) /\ Masked({})
             \/ Active = <<Handling(i, "body")>> /\ isr = {} /\ Masked({i})
             \/ Active = <<Handling(i, "end")>> /\ isr = {} /\ Masked({i})
             \/ Active = <<Handling(i, "iret")>> /\ isr = {} /\ Masked({})

(* The other stacks: empty before the first start of their terminal, later  *)
(* inside the PIT handler that left them.                                   *)
ParkedOK ==
    \A t \in Terms \ {cur_sched_term} :
        stack[t] = IF t \in started THEN <<Handling(PIT_IRQ_NUM, "end")>> ELSE << >>

Up ==
    /\ todo \in {Remaining(STEPS - 1), Remaining(STEPS)}
    /\ Launched => todo = Remaining(STEPS)
    /\ OthersMasked
    /\ CurrentOK
    /\ ParkedOK

(* Only the keyboard, the timers and unused lines ask; before launch there  *)
(* is one terminal.                                                         *)
CommonInv ==
    /\ imr \subseteq Lines /\ irr \subseteq Lines \ {CASCADE} /\ isr \subseteq Lines
    /\ iflag \in BOOLEAN /\ unread \in BOOLEAN
    /\ prev_sched_term \in -1 .. SHELL_NUM - 1
    /\ cur_sched_term \in Terms
    /\ started \subseteq Terms
    /\ start \in {"none", "running", "astray"}
    /\ stack \in [Terms -> Seq(Frame)]
    /\ start # "none" =>
          /\ Launched /\ prev_sched_term \in started /\ cur_sched_term \notin started
    /\ ~Launched => cur_sched_term = 0 /\ started = {0}

InterruptsInv ==
    /\ CommonInv
    /\ \/ ~Launched /\ \E k \in 0 .. STEPS - 2 : Booting(k)
       \/ ~Launched /\ Dead
       \/ Up

-----------------------------------------------------------------------------
(* The order of boot.                                                       *)
LEMMA Order ==
    /\ BootOrder \in Seq(BootSteps) /\ Len(BootOrder) = STEPS
    /\ BootOrder[1] = "idt" /\ BootOrder[2] = "descriptors" /\ BootOrder[3] = "paging"
    /\ BootOrder[4] = "pic" /\ BootOrder[5] = "cascade" /\ BootOrder[6] = "rtc"
    /\ BootOrder[7] = "pit" /\ BootOrder[8] = "shells" /\ BootOrder[9] = "keyboard"
    /\ BootOrder[10] = "sti" /\ BootOrder[11] = "launch"
<1>1. BootOrder \in Seq(BootSteps)
  BY DEF BootOrder, BootSteps
<1>2. Len(BootOrder) = STEPS
  BY DEF BootOrder, STEPS
<1>3. /\ BootOrder[1] = "idt" /\ BootOrder[2] = "descriptors" /\ BootOrder[3] = "paging"
      /\ BootOrder[4] = "pic" /\ BootOrder[5] = "cascade" /\ BootOrder[6] = "rtc"
      /\ BootOrder[7] = "pit" /\ BootOrder[8] = "shells" /\ BootOrder[9] = "keyboard"
      /\ BootOrder[10] = "sti" /\ BootOrder[11] = "launch"
  BY DEF BootOrder
<1> QED
  BY <1>1, <1>2, <1>3

(* Every stage of boot takes the first of the remaining ones.               *)
LEMMA RemainingFacts ==
    /\ Remaining(STEPS) = << >>
    /\ Remaining(0) = BootOrder
    /\ \A k \in 0 .. STEPS - 1 :
          /\ Remaining(k) # << >>
          /\ Head(Remaining(k)) = BootOrder[k + 1]
          /\ Tail(Remaining(k)) = Remaining(k + 1)
<1>1. Remaining(STEPS) = << >>
  BY SubSeqEmpty DEF Remaining, STEPS
<1>2. Remaining(0) = BootOrder
  BY Order, SubSeqFull DEF Remaining
<1>3. ASSUME NEW k \in 0 .. STEPS - 1
      PROVE  /\ Remaining(k) # << >>
             /\ Head(Remaining(k)) = BootOrder[k + 1]
             /\ Tail(Remaining(k)) = Remaining(k + 1)
  <2>1. k + 1 \in 1 .. Len(BootOrder) /\ STEPS \in k + 1 .. Len(BootOrder)
    BY Order DEF STEPS
  <2>2. Head(Remaining(k)) = BootOrder[k + 1] /\ Tail(Remaining(k)) = Remaining(k + 1)
    BY <2>1, Order, HeadTailOfSubSeq DEF Remaining
  <2>3. Len(Remaining(k)) = STEPS - (k + 1) + 1
    BY <2>1, Order, SubSeqProperties DEF Remaining, STEPS
  <2> QED
    BY <2>2, <2>3 DEF STEPS
<1> QED
  BY <1>1, <1>2, <1>3

(* The last two stages, and what is done by then: everything but launch.    *)
LEMMA LastStages ==
    /\ Remaining(STEPS) = << >>
    /\ Remaining(STEPS - 1) # << >>
    /\ Head(Remaining(STEPS - 1)) = "launch"
    /\ Tail(Remaining(STEPS - 1)) = << >>
<1>1. STEPS - 1 \in 0 .. STEPS - 1 /\ STEPS - 1 + 1 = STEPS /\ STEPS = 11
  BY DEF STEPS
<1> QED
  BY <1>1, RemainingFacts, Order

(* When only launch, or nothing, is left, everything else is done.          *)
LEMMA Ready ==
    ASSUME todo \in {Remaining(STEPS - 1), Remaining(STEPS)}, NEW s, s # "launch"
    PROVE  Done(s)
<1>1. Len(Remaining(STEPS)) = 0
  BY LastStages
<1>2. Len(Remaining(STEPS - 1)) = 1 /\ Remaining(STEPS - 1)[1] = "launch"
  BY Order, SubSeqProperties DEF Remaining, STEPS
<1> QED
  BY <1>1, <1>2 DEF Done

(* The lines of the linkages, and the stacks with one handler.              *)
LEMMA LineFacts ==
    /\ Linkage = {0, 1, 8} /\ Served = {0, 1, 2, 8}
    /\ Served \subseteq Lines /\ CASCADE \notin Linkage
    /\ 0 \in Terms /\ \A t \in Terms : (t + 1) % SHELL_NUM \in Terms
BY InterruptsAssumption
   DEF Linkage, Served, PIT_IRQ_NUM, IRQ_NUM, RTC_IRQ_NUM, CASCADE, Terms

(* The operations on a stack with a single handler.                         *)
LEMMA OneFrame ==
    ASSUME NEW f, NEW g
    PROVE  /\ Append(<< >>, f) = <<f>>
           /\ Len(<<f>>) = 1 /\ <<f>>[1] = f /\ <<f>> # << >>
           /\ [<<f>> EXCEPT ![Len(<<f>>)] = g] = <<g>>
           /\ SubSeq(<<f>>, 1, Len(<<f>>) - 1) = << >>
OBVIOUS

(* The line and the point of a handler.                                     *)
LEMMA HandlingFields ==
    ASSUME NEW i, NEW at
    PROVE  Handling(i, at).irq = i /\ Handling(i, at).at = at
BY DEF Handling

(* The flags that a handler has saved: it began with interrupts off.        *)
LEMMA HandlingFlags ==
    ASSUME NEW i, NEW at
    PROVE  Handling(i, at).pushed = TRUE /\ Handling(i, at).flags = FALSE
BY DEF Handling

(* Two handlers that agree in every part are the same.                      *)
LEMMA SameFrame ==
    ASSUME NEW f \in Frame, NEW g \in Frame,
           f.irq = g.irq, f.at = g.at, f.pushed = g.pushed, f.flags = g.flags
    PROVE  f = g
BY DEF Frame

(* A handler goes on from one point of its protocol to another.             *)
LEMMA HandlingStep ==
    ASSUME NEW i \in Linkage, NEW at \in Points, NEW to \in Points
    PROVE  /\ [Handling(i, at) EXCEPT !.at = to] = Handling(i, to)
           /\ [Handling(i, at) EXCEPT !.flags = FALSE, !.at = to] = Handling(i, to)
<1>1. Handling(i, at) \in Frame /\ Handling(i, to) \in Frame
  BY LineFacts DEF Handling, Frame, Points, Served
<1>2. PICK f : f = Handling(i, at)
  OBVIOUS
<1>3. f \in Frame /\ f.irq = i /\ f.pushed = TRUE /\ f.flags = FALSE
  BY <1>1, <1>2, HandlingFields, HandlingFlags
<1>4. PICK h : h = Handling(i, to)
  OBVIOUS
<1>5. h \in Frame /\ h.irq = i /\ h.at = to /\ h.pushed = TRUE /\ h.flags = FALSE
  BY <1>1, <1>4, HandlingFields, HandlingFlags
<1>6. [f EXCEPT !.at = to] = h
  <2>1. PICK g : g = [f EXCEPT !.at = to]
    OBVIOUS
  <2>2. g \in Frame
    BY <1>3, <2>1 DEF Frame, Points
  <2>3. g.irq = f.irq /\ g.at = to
    BY <1>3, <2>1 DEF Frame
  <2>4. g.pushed = f.pushed /\ g.flags = f.flags
    BY <1>3, <2>1 DEF Frame
  <2> QED
    BY <1>3, <1>5, <2>1, <2>2, <2>3, <2>4, SameFrame
<1>7. [f EXCEPT !.flags = FALSE, !.at = to] = h
  <2>1. PICK g : g = [f EXCEPT !.flags = FALSE]
    OBVIOUS
  <2>2. g \in Frame
    BY <1>3, <2>1 DEF Frame
  <2>3. g.irq = f.irq /\ g.at = f.at
    BY <1>3, <2>1 DEF Frame
  <2>4. g.pushed = f.pushed /\ g.flags = f.flags
    BY <1>3, <2>1 DEF Frame
  <2>5. g = f
    BY <1>3, <2>2, <2>3, <2>4, SameFrame
  <2>6. [f EXCEPT !.flags = FALSE, !.at = to] = [g EXCEPT !.at = to]
    BY <2>1
  <2> QED
    BY <1>6, <2>5, <2>6
<1> QED
  BY <1>2, <1>4, <1>6, <1>7

(* A stack with one handler has the type of a stack.                        *)
LEMMA FrameTyped ==
    ASSUME NEW i \in Linkage, NEW at \in Points
    PROVE  <<Handling(i, at)>> \in Seq(Frame)
BY LineFacts DEF Handling, Frame, Points, Served

-----------------------------------------------------------------------------
(* The first state.                                                         *)
LEMMA InitInv == Init => InterruptsInv
<1> SUFFICES ASSUME Init PROVE InterruptsInv
  OBVIOUS
<1>1. CommonInv
  <2>1. stack \in [Terms -> Seq(Frame)]
    BY EmptySeq DEF Init
  <2>2. imr \subseteq Lines /\ irr \subseteq Lines \ {CASCADE} /\ isr \subseteq Lines
    BY DEF Init
  <2>3. prev_sched_term \in -1 .. SHELL_NUM - 1
    BY InterruptsAssumption DEF Init
  <2>4. cur_sched_term \in Terms /\ started \subseteq Terms
    BY LineFacts DEF Init
  <2>5. start = "none" /\ cur_sched_term = 0 /\ started = {0} /\ iflag \in BOOLEAN /\ unread \in BOOLEAN
    BY DEF Init
  <2> QED
    BY <2>1, <2>2, <2>3, <2>4, <2>5 DEF CommonInv
<1>2. Booting(0)
  BY RemainingFacts DEF Init, Booting, Quiet
<1> QED
  BY <1>1, <1>2 DEF InterruptsInv, Init, Launched, STEPS

-----------------------------------------------------------------------------
(* Boot.                                                                    *)

(* The name of a step tells how far boot is.                                *)
LEMMA Stage ==
    ASSUME NEW k \in 0 .. STEPS - 2
    PROVE  /\ BootOrder[k + 1] = "idt" => k = 0
           /\ BootOrder[k + 1] = "descriptors" => k = 1
           /\ BootOrder[k + 1] = "paging" => k = 2
           /\ BootOrder[k + 1] = "pic" => k = 3
           /\ BootOrder[k + 1] = "cascade" => k = 4
           /\ BootOrder[k + 1] = "rtc" => k = 5
           /\ BootOrder[k + 1] = "pit" => k = 6
           /\ BootOrder[k + 1] = "shells" => k = 7
           /\ BootOrder[k + 1] = "keyboard" => k = 8
           /\ BootOrder[k + 1] = "sti" => k = 9
           /\ BootOrder[k + 1] # "launch"
<1>1. \/ k = 0 \/ k = 1 \/ k = 2 \/ k = 3 \/ k = 4 \/ k = 5 \/ k = 6 \/ k = 7 \/ k = 8
      \/ k = 9
  BY DEF STEPS
<1> QED
  BY <1>1, Order

(* A step other than launch is taken before sti.                            *)
LEMMA BootStep ==
    ASSUME InterruptsInv, NEW s, s # "launch", todo # << >>, Head(todo) = s
    PROVE  ~Launched /\ \E k \in 0 .. STEPS - 2 :
               Booting(k) /\ BootOrder[k + 1] = s /\ Tail(todo) = Remaining(k + 1)
<1>1. ~Up
  BY LastStages DEF Up
<1>2. ~Dead
  BY DEF Dead
<1>3. PICK k \in 0 .. STEPS - 2 : ~Launched /\ Booting(k)
  BY <1>1, <1>2 DEF InterruptsInv
<1>4. k \in 0 .. STEPS - 1
  BY DEF STEPS
<1> QED
  BY <1>3, <1>4, RemainingFacts DEF Booting

(* A step of boot before sti that changes no more than the masks.           *)
LEMMA BootOn ==
    ASSUME InterruptsInv, NEW k \in 0 .. STEPS - 3, Booting(k), ~Launched,
           todo' = Remaining(k + 1), imr' \subseteq Lines, irr' \subseteq irr, isr' = {},
           k + 1 >= 4 => Lines \ Served \subseteq imr',
           k + 1 >= 5 => CASCADE \notin imr',
           k + 1 >= 6 => RTC_IRQ_NUM \notin imr',
           k + 1 >= 7 => PIT_IRQ_NUM \notin imr',
           k + 1 >= 9 => IRQ_NUM \notin imr',
           started' = started,
           UNCHANGED <<stack, unread, iflag, prev_sched_term, cur_sched_term, start>>
    PROVE  InterruptsInv'
<1>1. k + 1 \in 0 .. STEPS - 2
  BY DEF STEPS
<1>2. Booting(k + 1)'
  BY DEF Booting, Quiet, OthersMasked
<1>3. CommonInv'
  BY DEF InterruptsInv, CommonInv, Launched
<1>4. ~Launched'
  BY DEF Launched
<1> QED
  BY <1>1, <1>2, <1>3, <1>4 DEF InterruptsInv

(* The steps of boot.S and entry, and the first launch.                     *)
LEMMA BootInv == ASSUME InterruptsInv, Boot PROVE InterruptsInv'
<1> USE DEF STEPS
<1>0. imr \subseteq Lines
  BY DEF InterruptsInv, CommonInv
<1>1. ASSUME NEW s \in {"idt", "descriptors", "paging", "shells"},
             Step(s), UNCHANGED <<pic, iflag, sched>>
      PROVE  InterruptsInv'
  <2>1. PICK k \in 0 .. STEPS - 2 :
          /\ ~Launched /\ Booting(k) /\ BootOrder[k + 1] = s /\ todo' = Remaining(k + 1)
    BY <1>1, BootStep DEF Step
  <2>2. k \in {0, 1, 2, 7}
    BY <1>1, <2>1, Stage
  <2> QED
    BY <1>0, <1>1, <2>1, <2>2, BootOn DEF Booting, Quiet, OthersMasked, Step, pic, sched
<1>2. CASE InitPic
  <2>1. PICK k \in 0 .. STEPS - 2 :
          /\ ~Launched /\ Booting(k) /\ BootOrder[k + 1] = "pic" /\ todo' = Remaining(k + 1)
    BY <1>2, BootStep DEF Step, InitPic
  <2>2. k = 3
    BY <2>1, Stage
  <2> QED
    BY <1>2, <2>1, <2>2, BootOn
       DEF InitPic, i8259_init, MasksAfterInit, Step, sched
<1>3. CASE EnableCascade
  <2>1. PICK k \in 0 .. STEPS - 2 :
          /\ ~Launched /\ Booting(k) /\ BootOrder[k + 1] = "cascade" /\ todo' = Remaining(k + 1)
    BY <1>3, BootStep DEF Step, EnableCascade
  <2>2. k = 4
    BY <2>1, Stage
  <2> QED
    BY <1>0, <1>3, <2>1, <2>2, BootOn
       DEF EnableCascade, enable_irq, Booting, Quiet, OthersMasked, Served, Step, sched
<1>4. CASE rtc_init
  <2>1. PICK k \in 0 .. STEPS - 2 :
          /\ ~Launched /\ Booting(k) /\ BootOrder[k + 1] = "rtc" /\ todo' = Remaining(k + 1)
    BY <1>4, BootStep DEF Step, rtc_init
  <2>2. k = 5
    BY <2>1, Stage
  <2>3. RTC_IRQ_NUM \in Served
    BY DEF Served, Linkage
  <2> QED
    BY <1>0, <1>4, <2>1, <2>2, <2>3, BootOn
       DEF rtc_init, enable_irq, Booting, Quiet, OthersMasked, Step, sched
<1>5. CASE pit_init
  <2>1. PICK k \in 0 .. STEPS - 2 :
          /\ ~Launched /\ Booting(k) /\ BootOrder[k + 1] = "pit" /\ todo' = Remaining(k + 1)
    BY <1>5, BootStep DEF Step, pit_init
  <2>2. k = 6
    BY <2>1, Stage
  <2>3. PIT_IRQ_NUM \in Served /\ started' = started
    BY <1>5, <2>1 DEF Served, Linkage, pit_init, InterruptsInv, CommonInv
  <2> QED
    BY <1>0, <1>5, <2>1, <2>2, <2>3, BootOn
       DEF pit_init, enable_irq, Booting, Quiet, OthersMasked, Step
<1>6. CASE keyboard_init
  <2>1. PICK k \in 0 .. STEPS - 2 :
          /\ ~Launched /\ Booting(k) /\ BootOrder[k + 1] = "keyboard"
          /\ todo' = Remaining(k + 1)
    BY <1>6, BootStep DEF Step, keyboard_init
  <2>2. k = 8
    BY <2>1, Stage
  <2>3. IRQ_NUM \in Served
    BY DEF Served, Linkage
  <2> QED
    BY <1>0, <1>6, <2>1, <2>2, <2>3, BootOn
       DEF keyboard_init, enable_irq, Booting, Quiet, OthersMasked, Step, sched
<1>7. CASE BadLoader
  <2>1. PICK k \in 0 .. STEPS - 2 : ~Launched /\ Booting(k)
    BY <1>7, BootStep DEF BadLoader
  <2> QED
    BY <1>7, <2>1
       DEF BadLoader, pic, sched, InterruptsInv, CommonInv, Launched, Booting, Quiet, Dead
<1>8. CASE EnableInterrupts
  <2>1. PICK k \in 0 .. STEPS - 2 :
          /\ ~Launched /\ Booting(k) /\ BootOrder[k + 1] = "sti" /\ todo' = Remaining(k + 1)
    BY <1>8, BootStep DEF Step, EnableInterrupts
  <2>2. k = 9
    BY <2>1, Stage
  <2>3. todo' = Remaining(STEPS - 1) /\ UNCHANGED <<pic, sched, stack, unread>> /\ iflag' = TRUE
    BY <1>8, <2>1, <2>2 DEF EnableInterrupts, Step
  <2>4. CommonInv' /\ ~Launched'
    BY <2>1, <2>3 DEF InterruptsInv, CommonInv, Launched, pic, sched
  <2>5. Masked({}) /\ OthersMasked
    BY <2>1, <2>2 DEF Booting, Masked, OthersMasked, Served, Linkage
  <2>6. CurrentOK'
    BY <2>1, <2>3, <2>4, <2>5 DEF CurrentOK, Active, Masked, Booting, Quiet, CommonInv, pic, sched
  <2>7. ParkedOK'
    BY <2>1, <2>3 DEF ParkedOK, Booting, Quiet, InterruptsInv, CommonInv, pic, sched
  <2>8. Up'
    BY <2>3, <2>4, <2>5, <2>6, <2>7 DEF Up, OthersMasked, pic
  <2> QED
    BY <2>4, <2>8 DEF InterruptsInv
<1>9. CASE launch \/ LaunchFails
  <2>1. Step("launch") /\ UNCHANGED <<pic, cur_sched_term, started, start>> /\ iflag' \in BOOLEAN
        /\ prev_sched_term' \in {prev_sched_term, 0}
    BY <1>9 DEF launch, LaunchFails, sched
  <2>2. Up
    <3>1. ~(\E k \in 0 .. STEPS - 2 : Booting(k))
      <4> SUFFICES ASSUME NEW k \in 0 .. STEPS - 2, Booting(k) PROVE FALSE
        OBVIOUS
      <4>1. k \in 0 .. STEPS - 1
        OBVIOUS
      <4> QED
        BY <4>1, <2>1, RemainingFacts, Stage DEF Booting, Step
    <3> QED
      BY <3>1, <2>1 DEF InterruptsInv, Dead, Step
  <2>3. todo' = Remaining(STEPS) /\ Active = << >> /\ UNCHANGED <<stack, unread>>
    BY <2>1, <2>2, LastStages DEF Up, Step, InProgram
  <2>4. CommonInv'
    <3>1. ~Launched
      BY <2>1, <2>2, LastStages DEF Up, Step
    <3> QED
      BY <2>1, <2>3, <3>1, InterruptsAssumption DEF InterruptsInv, CommonInv, Launched, pic
  <2>5. isr = {} /\ Masked({})
    BY <2>2, <2>3, OneFrame DEF Up, CurrentOK
  <2>6. CurrentOK' /\ ParkedOK' /\ OthersMasked'
    BY <2>1, <2>2, <2>3, <2>5 DEF Up, CurrentOK, ParkedOK, OthersMasked, Active, Masked, pic
  <2> QED
    BY <2>3, <2>4, <2>6 DEF InterruptsInv, Up
<1> QED
  BY <1>1, <1>2, <1>3, <1>4, <1>5, <1>6, <1>7, <1>8, <1>9
     DEF Boot, InitializeIdt, Descriptors, InitPaging, init_shell

-----------------------------------------------------------------------------
(* Interrupts.                                                              *)

(* A step that changes only the stack in use, the controllers and the flag. *)
LEMMA OnCurrent ==
    ASSUME CommonInv, Up, NEW s \in Seq(Frame),
           stack' = [stack EXCEPT ![cur_sched_term] = s],
           UNCHANGED <<todo, sched>>, imr' \subseteq Lines,
           irr' \subseteq Lines \ {CASCADE}, isr' \subseteq Lines,
           iflag' \in BOOLEAN, unread' \in BOOLEAN, Lines \ Served \subseteq imr',
           Active' = s => CurrentOK'
    PROVE  InterruptsInv'
<1>1. CommonInv'
  BY DEF CommonInv, Launched, sched
<1>2. ParkedOK'
  BY DEF CommonInv, Up, ParkedOK, sched
<1>3. Active' = s
  BY DEF CommonInv, Active, sched
<1>4. Up'
  BY <1>2, <1>3 DEF Up, OthersMasked, Launched, sched
<1> QED
  BY <1>1, <1>4 DEF InterruptsInv

(* A handler runs only once boot is through, alone, with interrupts off,    *)
(* and the point it has reached fixes the masks and the service.            *)
LEMMA HandlerCase ==
    ASSUME InterruptsInv, ~InProgram
    PROVE  /\ CommonInv /\ Up /\ iflag = FALSE
           /\ \E i \in Linkage, at \in Points :
                 /\ Active = <<Handling(i, at)>> /\ Top = Handling(i, at)
                 /\ isr = IF at = "entry" THEN InService(i) ELSE {}
                 /\ Masked(IF at \in {"body", "end"} THEN {i} ELSE {})
<1>1. CommonInv /\ cur_sched_term \in Terms /\ iflag \in BOOLEAN
  BY DEF InterruptsInv, CommonInv
<1>2. ~Quiet
  BY <1>1 DEF Quiet, InProgram, Active
<1>3. Up
  BY <1>2 DEF InterruptsInv, Booting, Dead
<1>4. PICK i \in Linkage :
        /\ ~iflag
        /\ \/ Active = <<Handling(i, "entry")>> /\ isr = InService(i) /\ Masked({})
           \/ Active = <<Handling(i, "body")>> /\ isr = {} /\ Masked({i})
           \/ Active = <<Handling(i, "end")>> /\ isr = {} /\ Masked({i})
           \/ Active = <<Handling(i, "iret")>> /\ isr = {} /\ Masked({})
  BY <1>3 DEF Up, CurrentOK, InProgram
<1>5. PICK at \in Points :
        /\ Active = <<Handling(i, at)>>
        /\ isr = IF at = "entry" THEN InService(i) ELSE {}
        /\ Masked(IF at \in {"body", "end"} THEN {i} ELSE {})
  BY <1>4 DEF Points
<1>6. Top = Handling(i, at)
  BY <1>5, OneFrame DEF Top
<1> QED
  BY <1>1, <1>3, <1>4, <1>5, <1>6

(* A device asks.                                                           *)
LEMMA RaiseInv == ASSUME InterruptsInv, NEW i \in Lines, Raise(i) PROVE InterruptsInv'
<1>1. CommonInv'
  BY DEF InterruptsInv, CommonInv, Raise, sched, Launched
<1>2. ASSUME NEW k \in 0 .. STEPS - 2, Booting(k), ~Launched PROVE Booting(k)' /\ ~Launched'
  BY <1>2 DEF Booting, Quiet, OthersMasked, Raise, sched, Launched
<1>3. CASE Dead /\ ~Launched
  BY <1>1, <1>3 DEF Dead, Quiet, Raise, sched, Launched, InterruptsInv
<1>4. CASE Up
  <2>1. Up'
    BY <1>4 DEF Up, OthersMasked, CurrentOK, ParkedOK, Active, Masked, Raise, sched, Launched
  <2> QED
    BY <1>1, <2>1 DEF InterruptsInv
<1> QED
  BY <1>1, <1>2, <1>3, <1>4 DEF InterruptsInv

(* The processor takes a request: of a line with a linkage, for the others  *)
(* are masked, and in a program, for in a handler the flag is off.          *)
LEMMA DeliverInv == ASSUME InterruptsInv, NEW i \in Lines, Deliver(i) PROVE InterruptsInv'
<1>1. iflag /\ CommonInv
  BY DEF Deliver, InterruptsInv
<1>2. Up
  BY <1>1 DEF InterruptsInv, Booting, Dead, Quiet
<1>3. Active = << >> /\ isr = {} /\ Masked({})
  BY <1>1, <1>2 DEF Up, CurrentOK
<1>4. i \in irr /\ i \notin imr
  BY DEF Deliver, Presented, Requesting, Unmasked
<1>5. i \in Linkage
  BY <1>1, <1>2, <1>4 DEF Up, OthersMasked, Served, CommonInv
<1>6. <<Handling(i, "entry")>> \in Seq(Frame)
  BY <1>5, FrameTyped DEF Points
<1>7. stack' = [stack EXCEPT ![cur_sched_term] = <<Handling(i, "entry")>>]
  <2>1. iflag = TRUE
    BY <1>1 DEF CommonInv
  <2>2. [irq |-> i, at |-> "entry", pushed |-> iflag, flags |-> FALSE] = Handling(i, "entry")
    BY <2>1 DEF Handling
  <2>3. Append(stack[cur_sched_term], Handling(i, "entry")) = <<Handling(i, "entry")>>
    BY <1>3, OneFrame DEF Active
  <2> QED
    BY <2>2, <2>3 DEF Deliver
<1>8. isr' = InService(i) /\ iflag' = FALSE /\ UNCHANGED <<todo, imr, sched, unread>>
  BY <1>3 DEF Deliver, InService, EntryFlag
<1>9. irr' \subseteq Lines \ {CASCADE} /\ isr' \subseteq Lines
  BY <1>1, <1>8, LineFacts DEF Deliver, CommonInv, InService, Served
<1>10. Active' = <<Handling(i, "entry")>> => CurrentOK'
  BY <1>3, <1>5, <1>8 DEF CurrentOK, Masked
<1>11. imr' \subseteq Lines /\ Lines \ Served \subseteq imr' /\ iflag' \in BOOLEAN
       /\ unread' \in BOOLEAN
  BY <1>1, <1>2, <1>8 DEF CommonInv, Up, OthersMasked
<1> QED
  BY <1>1, <1>2, <1>6, <1>7, <1>8, <1>9, <1>10, <1>11, OnCurrent

-----------------------------------------------------------------------------
(* The steps of a handler.                                                  *)
LEMMA ReachOne ==
    ASSUME NEW f, NEW g, Active = <<f>>, Reach(g)
    PROVE  stack' = [stack EXCEPT ![cur_sched_term] = <<g>>]
BY OneFrame DEF Reach, Active

(* A handler masks its line and acknowledges it.                            *)
LEMMA AcknowledgeInv == ASSUME InterruptsInv, Acknowledge PROVE InterruptsInv'
<1>1. /\ CommonInv /\ Up /\ iflag = FALSE
      /\ \E i \in Linkage, at \in Points :
            /\ Active = <<Handling(i, at)>> /\ Top = Handling(i, at)
            /\ isr = IF at = "entry" THEN InService(i) ELSE {}
            /\ Masked(IF at \in {"body", "end"} THEN {i} ELSE {})
  BY HandlerCase DEF Acknowledge
<1>2. PICK i \in Linkage :
        /\ Active = <<Handling(i, "entry")>> /\ Top = Handling(i, "entry")
        /\ isr = InService(i) /\ Masked({})
  <2>1. PICK i \in Linkage, at \in Points :
          /\ Active = <<Handling(i, at)>> /\ Top = Handling(i, at)
          /\ isr = IF at = "entry" THEN InService(i) ELSE {}
          /\ Masked(IF at \in {"body", "end"} THEN {i} ELSE {})
    BY <1>1
  <2>2. Top.at = "entry"
    BY DEF Acknowledge
  <2>3. at = "entry"
    BY <2>1, <2>2, HandlingFields
  <2> QED
    BY <2>1, <2>3
<1>3. Top.irq = i
  BY <1>2, HandlingFields
<1>4. [Top EXCEPT !.flags = iflag, !.at = IF Top.irq \in Linkage THEN "body" ELSE "ret"]
        = Handling(i, "body")
  <2>1. [Handling(i, "entry") EXCEPT !.flags = FALSE, !.at = "body"] = Handling(i, "body")
    BY HandlingStep DEF Points
  <2> QED
    BY <1>1, <1>2, <1>3, <2>1
<1>5. stack' = [stack EXCEPT ![cur_sched_term] = <<Handling(i, "body")>>]
  BY <1>2, <1>4, ReachOne DEF Acknowledge
<1>6. isr' = {} /\ imr' = imr \cup {i} /\ iflag' = FALSE /\ UNCHANGED <<todo, irr, sched, unread>>
  BY <1>1, <1>2, <1>3 DEF Acknowledge, send_eoi, disable_irq, InService
<1>7. i \in Served /\ i \in Lines
  BY LineFacts DEF Served
<1>8. Masked({i})'
  BY <1>2, <1>6, <1>7 DEF Masked
<1>9. <<Handling(i, "body")>> \in Seq(Frame)
  BY FrameTyped DEF Points
<1>10. Active' = <<Handling(i, "body")>> => CurrentOK'
  BY <1>6, <1>8 DEF CurrentOK
<1>11. /\ imr' \subseteq Lines /\ Lines \ Served \subseteq imr' /\ iflag' \in BOOLEAN
       /\ unread' \in BOOLEAN /\ irr' \subseteq Lines \ {CASCADE} /\ isr' \subseteq Lines
  BY <1>1, <1>6, <1>7 DEF CommonInv, Up, OthersMasked
<1> QED
  BY <1>1, <1>5, <1>6, <1>9, <1>10, <1>11, OnCurrent

(* The keyboard and the RTC work, the PIT does nothing before launch.       *)
LEMMA WorkInv == ASSUME InterruptsInv, Work \/ Tick PROVE InterruptsInv'
<1>1. /\ CommonInv /\ Up /\ iflag = FALSE
      /\ \E i \in Linkage, at \in Points :
            /\ Active = <<Handling(i, at)>> /\ Top = Handling(i, at)
            /\ isr = IF at = "entry" THEN InService(i) ELSE {}
            /\ Masked(IF at \in {"body", "end"} THEN {i} ELSE {})
  BY HandlerCase DEF Work, Tick
<1>2. PICK i \in Linkage :
        /\ Active = <<Handling(i, "body")>> /\ Top = Handling(i, "body")
        /\ isr = {} /\ Masked({i})
  <2>1. PICK i \in Linkage, at \in Points :
          /\ Active = <<Handling(i, at)>> /\ Top = Handling(i, at)
          /\ isr = IF at = "entry" THEN InService(i) ELSE {}
          /\ Masked(IF at \in {"body", "end"} THEN {i} ELSE {})
    BY <1>1
  <2>2. Top.at = "body"
    BY DEF Work, Tick
  <2>3. at = "body"
    BY <2>1, <2>2, HandlingFields
  <2> QED
    BY <2>1, <2>3
<1>3. [Top EXCEPT !.at = "end"] = Handling(i, "end")
  BY <1>2, HandlingStep DEF Points
<1>4. stack' = [stack EXCEPT ![cur_sched_term] = <<Handling(i, "end")>>]
  BY <1>2, <1>3, ReachOne DEF Work, Tick
<1>5. UNCHANGED <<todo, imr, irr, isr, iflag, sched>>
  BY DEF Work, Tick, pic
<1>6. unread' \in BOOLEAN
  BY <1>1 DEF Work, Tick, CommonInv
<1>7. <<Handling(i, "end")>> \in Seq(Frame)
  BY FrameTyped DEF Points
<1>8. Active' = <<Handling(i, "end")>> => CurrentOK'
  BY <1>1, <1>2, <1>5 DEF CurrentOK, Masked
<1>9. /\ imr' \subseteq Lines /\ Lines \ Served \subseteq imr' /\ iflag' \in BOOLEAN
      /\ irr' \subseteq Lines \ {CASCADE} /\ isr' \subseteq Lines
  BY <1>1, <1>5 DEF CommonInv, Up, OthersMasked
<1> QED
  BY <1>1, <1>4, <1>5, <1>6, <1>7, <1>8, <1>9, OnCurrent

(* A handler unmasks its line.                                              *)
LEMMA FinishInv == ASSUME InterruptsInv, Finish PROVE InterruptsInv'
<1>1. /\ CommonInv /\ Up /\ iflag = FALSE
      /\ \E i \in Linkage, at \in Points :
            /\ Active = <<Handling(i, at)>> /\ Top = Handling(i, at)
            /\ isr = IF at = "entry" THEN InService(i) ELSE {}
            /\ Masked(IF at \in {"body", "end"} THEN {i} ELSE {})
  BY HandlerCase DEF Finish
<1>2. PICK i \in Linkage :
        /\ Active = <<Handling(i, "end")>> /\ Top = Handling(i, "end")
        /\ isr = {} /\ Masked({i})
  <2>1. PICK i \in Linkage, at \in Points :
          /\ Active = <<Handling(i, at)>> /\ Top = Handling(i, at)
          /\ isr = IF at = "entry" THEN InService(i) ELSE {}
          /\ Masked(IF at \in {"body", "end"} THEN {i} ELSE {})
    BY <1>1
  <2>2. Top.at = "end"
    BY DEF Finish
  <2>3. at = "end"
    BY <2>1, <2>2, HandlingFields
  <2> QED
    BY <2>1, <2>3
<1>3. [Top EXCEPT !.at = "iret"] = Handling(i, "iret") /\ Top.irq = i /\ Top.flags = FALSE
  <2>1. [Handling(i, "end") EXCEPT !.at = "iret"] = Handling(i, "iret")
    BY HandlingStep DEF Points
  <2>2. Top.irq = i
    BY <1>2, HandlingFields
  <2>3. Top.flags = FALSE
    BY <1>2, HandlingFlags
  <2> QED
    BY <1>2, <2>1, <2>2, <2>3
<1>4. stack' = [stack EXCEPT ![cur_sched_term] = <<Handling(i, "iret")>>]
  BY <1>2, <1>3, ReachOne DEF Finish
<1>5. imr' = imr \ {i} /\ iflag' = FALSE /\ UNCHANGED <<todo, irr, isr, sched, unread>>
  BY <1>3 DEF Finish, enable_irq
<1>6. Masked({})' /\ i \in Served
  BY <1>2, <1>5 DEF Masked, Served
<1>7. <<Handling(i, "iret")>> \in Seq(Frame)
  BY FrameTyped DEF Points
<1>8. Active' = <<Handling(i, "iret")>> => CurrentOK'
  BY <1>2, <1>5, <1>6 DEF CurrentOK
<1>9. /\ imr' \subseteq Lines /\ Lines \ Served \subseteq imr' /\ iflag' \in BOOLEAN
      /\ unread' \in BOOLEAN /\ irr' \subseteq Lines \ {CASCADE} /\ isr' \subseteq Lines
  BY <1>1, <1>5, <1>6 DEF CommonInv, Up, OthersMasked
<1> QED
  BY <1>1, <1>4, <1>5, <1>7, <1>8, <1>9, OnCurrent

(* A handler returns; interrupts are on again.                              *)
LEMMA IretInv == ASSUME InterruptsInv, Iret PROVE InterruptsInv'
<1>1. /\ CommonInv /\ Up /\ iflag = FALSE
      /\ \E i \in Linkage, at \in Points :
            /\ Active = <<Handling(i, at)>> /\ Top = Handling(i, at)
            /\ isr = IF at = "entry" THEN InService(i) ELSE {}
            /\ Masked(IF at \in {"body", "end"} THEN {i} ELSE {})
  BY HandlerCase DEF Iret
<1>2. PICK i \in Linkage :
        /\ Active = <<Handling(i, "iret")>> /\ Top = Handling(i, "iret")
        /\ isr = {} /\ Masked({})
  <2>1. PICK i \in Linkage, at \in Points :
          /\ Active = <<Handling(i, at)>> /\ Top = Handling(i, at)
          /\ isr = IF at = "entry" THEN InService(i) ELSE {}
          /\ Masked(IF at \in {"body", "end"} THEN {i} ELSE {})
    BY <1>1
  <2>2. Top.at = "iret"
    BY DEF Iret
  <2>3. at = "iret"
    BY <2>1, <2>2, HandlingFields
  <2> QED
    BY <2>1, <2>3
<1>3. Top.pushed = TRUE
  BY <1>2, HandlingFlags
<1>4. stack' = [stack EXCEPT ![cur_sched_term] = << >>]
  BY <1>2, OneFrame DEF Iret, Active
<1>5. iflag' = TRUE /\ UNCHANGED <<todo, imr, irr, isr, sched, unread>>
  BY <1>3 DEF Iret, pic
<1>6. << >> \in Seq(Frame)
  OBVIOUS
<1>7. Active' = << >> => CurrentOK'
  BY <1>2, <1>5 DEF CurrentOK, Masked
<1>8. /\ imr' \subseteq Lines /\ Lines \ Served \subseteq imr' /\ iflag' \in BOOLEAN
      /\ unread' \in BOOLEAN /\ irr' \subseteq Lines \ {CASCADE} /\ isr' \subseteq Lines
  BY <1>1, <1>5 DEF CommonInv, Up, OthersMasked
<1> QED
  BY <1>1, <1>4, <1>5, <1>6, <1>7, <1>8, OnCurrent

(* The switch: the stack that is left is inside its PIT handler, the line   *)
(* is masked, and the stack that is taken up is inside such a handler or    *)
(* starts with the line unmasked.                                           *)
LEMMA SwitchInv == ASSUME InterruptsInv, SwitchProcess PROVE InterruptsInv'
<1>1. /\ CommonInv /\ Up /\ iflag = FALSE
      /\ \E i \in Linkage, at \in Points :
            /\ Active = <<Handling(i, at)>> /\ Top = Handling(i, at)
            /\ isr = IF at = "entry" THEN InService(i) ELSE {}
            /\ Masked(IF at \in {"body", "end"} THEN {i} ELSE {})
  BY HandlerCase DEF SwitchProcess, Switching
<1>2. /\ Active = <<Handling(PIT_IRQ_NUM, "body")>> /\ Top = Handling(PIT_IRQ_NUM, "body")
      /\ isr = {} /\ Masked({PIT_IRQ_NUM})
  <2>1. PICK i \in Linkage, at \in Points :
          /\ Active = <<Handling(i, at)>> /\ Top = Handling(i, at)
          /\ isr = IF at = "entry" THEN InService(i) ELSE {}
          /\ Masked(IF at \in {"body", "end"} THEN {i} ELSE {})
    BY <1>1
  <2>2. Top.at = "body" /\ Top.irq = PIT_IRQ_NUM
    BY DEF SwitchProcess, Switching
  <2>3. at = "body" /\ i = PIT_IRQ_NUM
    BY <2>1, <2>2, HandlingFields
  <2> QED
    BY <2>1, <2>3
<1>3. PICK next : next = (cur_sched_term + 1) % SHELL_NUM
  OBVIOUS
<1>4. PICK cur : cur = cur_sched_term
  OBVIOUS
<1>5. cur \in Terms /\ next \in Terms
  BY <1>1, <1>3, <1>4, LineFacts DEF CommonInv
<1>6. PICK e : e = Handling(PIT_IRQ_NUM, "end")
  OBVIOUS
<1>7. <<e>> \in Seq(Frame) /\ PIT_IRQ_NUM \in Linkage
  BY <1>6, FrameTyped DEF Linkage, Points
<1>8. /\ prev_sched_term' = cur /\ cur_sched_term' = next /\ started' = started \cup {cur}
      /\ UNCHANGED <<todo, unread>> /\ Launched /\ start = "none"
  BY <1>3, <1>4 DEF SwitchProcess, Switching
<1>9. stack' = [stack EXCEPT ![cur] = <<e>>]
  <2>1. [Top EXCEPT !.at = "end"] = e
    BY <1>2, <1>6, <1>7, HandlingStep DEF Points
  <2>2. Reach(e)
    BY <2>1 DEF SwitchProcess
  <2> QED
    BY <2>2, <1>2, <1>4, ReachOne
<1>10. \A t \in Terms : stack'[t] = IF t = cur THEN <<e>> ELSE stack[t]
  BY <1>1, <1>5, <1>9 DEF CommonInv
<1>11. \A t \in Terms \ {cur} : stack[t] = IF t \in started THEN <<e>> ELSE << >>
  BY <1>1, <1>4, <1>6 DEF Up, ParkedOK
<1>12. \A t \in Terms \ {next} : stack'[t] = IF t \in started' THEN <<e>> ELSE << >>
  BY <1>8, <1>10, <1>11
<1>13. stack'[next] = IF next \in started' THEN <<e>> ELSE << >>
  BY <1>5, <1>8, <1>10, <1>11
<1>14. IF next \in started' THEN UNCHANGED <<pic, iflag, start>> ELSE StartTerminal
  BY <1>3 DEF SwitchProcess
<1>15. PIT_IRQ_NUM \in Served /\ imr \subseteq Lines /\ OthersMasked
  BY <1>1, <1>7 DEF Served, CommonInv, Up
<1>16. /\ imr' \subseteq Lines /\ Lines \ Served \subseteq imr' /\ irr' = irr /\ isr' = {}
       /\ iflag' \in BOOLEAN
  BY <1>1, <1>2, <1>14, <1>15 DEF StartTerminal, enable_irq, pic, OthersMasked
<1>17. CommonInv'
  <2>1. stack' \in [Terms -> Seq(Frame)]
    BY <1>1, <1>5, <1>7, <1>9 DEF CommonInv
  <2>2. prev_sched_term' \in -1 .. SHELL_NUM - 1 /\ prev_sched_term' # -1
    BY <1>5, <1>8, InterruptsAssumption DEF Terms
  <2>3. cur_sched_term' \in Terms /\ started' \subseteq Terms /\ unread' \in BOOLEAN
    BY <1>1, <1>5, <1>8 DEF CommonInv
  <2>4. irr' \subseteq Lines \ {CASCADE} /\ isr' \subseteq Lines
    BY <1>1, <1>16 DEF CommonInv
  <2>5. \/ start' = "none"
        \/ start' = "running" /\ cur_sched_term' \notin started' /\ prev_sched_term' \in started'
    BY <1>8, <1>14 DEF StartTerminal
  <2> QED
    BY <2>1, <2>2, <2>3, <2>4, <2>5, <1>16 DEF CommonInv, Launched
<1>18. Active' = stack'[next]
  BY <1>8 DEF Active
<1>19. CurrentOK'
  <2>1. CASE next \in started'
    <3>1. imr' = imr /\ iflag' = FALSE
      BY <1>1, <1>14, <2>1 DEF pic
    <3>2. Masked({PIT_IRQ_NUM})'
      BY <1>2, <3>1 DEF Masked
    <3>3. Active' = <<Handling(PIT_IRQ_NUM, "end")>>
      BY <1>6, <1>13, <1>18, <2>1
    <3> QED
      BY <1>7, <1>16, <3>1, <3>2, <3>3 DEF CurrentOK
  <2>2. CASE next \notin started'
    <3>1. Masked({})'
      BY <1>2, <1>14, <1>15, <2>2 DEF Masked, StartTerminal, enable_irq
    <3>2. Active' = << >>
      BY <1>13, <1>18, <2>2
    <3> QED
      BY <1>16, <3>1, <3>2 DEF CurrentOK
  <2> QED
    BY <2>1, <2>2
<1>20. ParkedOK'
  BY <1>6, <1>8, <1>12 DEF ParkedOK
<1>21. Up'
  BY <1>1, <1>8, <1>16, <1>19, <1>20 DEF Up, OthersMasked
<1> QED
  BY <1>17, <1>21 DEF InterruptsInv

(* The new terminal enters its program, or is switched away before that.    *)
LEMMA StartInv == ASSUME InterruptsInv, EnterProgram \/ SwitchAstray PROVE InterruptsInv'
<1>1. /\ UNCHANGED <<todo, imr, irr, isr, iflag, prev_sched_term, cur_sched_term, started,
                    stack, unread>>
      /\ start = "running" /\ start' \in {"none", "astray"}
  BY DEF EnterProgram, SwitchAstray, pic
<1>2. CommonInv' /\ Launched' /\ Up
  BY <1>1 DEF InterruptsInv, CommonInv, Launched
<1>3. Up'
  BY <1>1, <1>2 DEF Up, OthersMasked, CurrentOK, ParkedOK, Active, Masked, Launched
<1> QED
  BY <1>2, <1>3 DEF InterruptsInv

(* A program turns interrupts off and on.                                   *)
LEMMA FlagInv == ASSUME InterruptsInv, Cli \/ Sti PROVE InterruptsInv'
<1>1. Launched /\ InProgram /\ iflag' \in BOOLEAN /\ UNCHANGED <<todo, pic, sched, stack, unread>>
  BY DEF Cli, Sti
<1>2. Up
  BY <1>1 DEF InterruptsInv
<1>3. CurrentOK'
  <2>1. Active = << >> /\ isr = {} /\ Masked({})
    BY <1>1, <1>2, OneFrame DEF Up, CurrentOK, InProgram
  <2> QED
    BY <1>1, <2>1 DEF CurrentOK, Active, Masked, pic, sched
<1>4. Up'
  BY <1>1, <1>2, <1>3 DEF Up, ParkedOK, OthersMasked, Launched, pic, sched
<1>5. CommonInv'
  BY <1>1 DEF InterruptsInv, CommonInv, Launched, pic, sched
<1> QED
  BY <1>4, <1>5 DEF InterruptsInv

(* A step that changes nothing.                                             *)
LEMMA StutterInv == ASSUME InterruptsInv, UNCHANGED vars PROVE InterruptsInv'
<1>1. UNCHANGED <<todo, imr, irr, isr, iflag, prev_sched_term, cur_sched_term, started,
                  start, stack, unread>>
  BY DEF vars, pic, sched
<1>2. CommonInv' /\ Launched' = Launched
  BY <1>1 DEF InterruptsInv, CommonInv, Launched
<1>3. ASSUME NEW k \in 0 .. STEPS - 2, Booting(k) PROVE Booting(k)'
  BY <1>1, <1>3 DEF Booting, Quiet, OthersMasked
<1>4. Dead => Dead'
  BY <1>1 DEF Dead, Quiet
<1>5. Up => Up'
  BY <1>1, <1>2 DEF Up, OthersMasked, CurrentOK, ParkedOK, Active, Masked
<1> QED
  BY <1>2, <1>3, <1>4, <1>5 DEF InterruptsInv

-----------------------------------------------------------------------------
(* The protocol of boot, the handlers and the switch holds in every state.  *)
THEOREM InterruptsSafe == Spec => []InterruptsInv
<1>1. InterruptsInv /\ [Next]_vars => InterruptsInv'
  <2> SUFFICES ASSUME InterruptsInv, [Next]_vars PROVE InterruptsInv'
    OBVIOUS
  <2>1. CASE Boot
    BY <2>1, BootInv
  <2>2. CASE Handler
    BY <2>2, AcknowledgeInv, WorkInv, SwitchInv, StartInv, FinishInv, IretInv DEF Handler
  <2>3. ASSUME NEW i \in Lines, Raise(i) \/ Deliver(i) PROVE InterruptsInv'
    BY <2>3, RaiseInv, DeliverInv
  <2>4. CASE Cli \/ Sti
    BY <2>4, FlagInv
  <2>5. CASE Halt \/ UNCHANGED vars
    BY <2>5, StutterInv DEF Halt
  <2> QED
    BY <2>1, <2>2, <2>3, <2>4, <2>5 DEF Next
<1> QED
  BY <1>1, InitInv, PTL DEF Spec

(* Every thread is in no handler or in one, of a line with a linkage; the ones  *)
(* that are not in use hold the PIT handler that left them.                 *)
LEMMA Stacks ==
    ASSUME InterruptsInv, NEW t \in Terms
    PROVE  /\ \/ stack[t] = << >>
              \/ Up /\ \E i \in Linkage, at \in Points :
                          stack[t] = <<Handling(i, at)>>
           /\ t \in started \ {cur_sched_term} => stack[t] = <<Handling(PIT_IRQ_NUM, "end")>>
<1>1. CASE Up
  <2>1. CASE t = cur_sched_term
    <3>1. CASE InProgram
      BY <2>1, <3>1 DEF InProgram, Active
    <3>2. CASE ~InProgram
      BY <1>1, <2>1, <3>2, HandlerCase DEF Active
    <3> QED
      BY <3>1, <3>2
  <2>2. CASE t # cur_sched_term
    <3>1. stack[t] = IF t \in started THEN <<Handling(PIT_IRQ_NUM, "end")>> ELSE << >>
      BY <1>1, <2>2 DEF Up, ParkedOK
    <3>2. PIT_IRQ_NUM \in Linkage
      BY DEF Linkage
    <3> QED
      BY <1>1, <3>1, <3>2 DEF Points
  <2> QED
    BY <2>1, <2>2
<1>2. CASE ~Launched /\ Quiet
  BY <1>2 DEF InterruptsInv, CommonInv, Quiet
<1> QED
  BY <1>1, <1>2 DEF InterruptsInv, Booting, Dead

(* Handlers nest only in the first start of a terminal, one deep, and at    *)
(* the bottom of the stack of a terminal that is switched away is the PIT   *)
(* handler that switch_process (pit.c) saved.                               *)
THEOREM HandlersNestOnlyInStart == Spec => []OneHandler
<1>1. InterruptsInv => OneHandler
  <2> SUFFICES ASSUME InterruptsInv PROVE OneHandler
    OBVIOUS
  <2>1. ASSUME NEW t \in Terms PROVE stack[t] = << >> \/ \E f : stack[t] = <<f>>
    BY <2>1, Stacks
  <2>2. PICK p : p = Handling(PIT_IRQ_NUM, "end")
    OBVIOUS
  <2>3. p.irq = PIT_IRQ_NUM /\ p.at = "end"
    BY <2>2, HandlingFields
  <2>4. ASSUME NEW t \in started \ {cur_sched_term} PROVE t \in Terms /\ stack[t] = <<p>>
    BY <2>2, <2>4, Stacks DEF InterruptsInv, CommonInv
  <2>5. cur_sched_term \in Terms /\ started \subseteq Terms
    BY DEF InterruptsInv, CommonInv
  <2>6. CASE start = "none"
    <3>1. \A t \in Terms : OnStack(t) = stack[t]
      BY <2>6 DEF OnStack
    <3>2. ASSUME NEW t \in Terms PROVE Len(OnStack(t)) <= 1
      <4>1. CASE stack[t] = << >>
        BY <3>1, <3>2, <4>1
      <4>2. ASSUME NEW f, stack[t] = <<f>> PROVE Len(OnStack(t)) <= 1
        <5>1. OnStack(t) = <<f>>
          BY <3>1, <3>2, <4>2
        <5>2. Len(<<f>>) = 1
          OBVIOUS
        <5>3. Len(OnStack(t)) = 1
          BY <5>1, <5>2
        <5> QED
          BY <5>3
      <4> QED
        BY <2>1, <3>2, <4>1, <4>2
    <3>3. ASSUME NEW t \in started \ {cur_sched_term}
          PROVE  Len(OnStack(t)) >= 1 /\ OnStack(t)[1] = p
      BY <2>4, <3>1
    <3> QED
      BY <2>3, <2>6, <3>2, <3>3 DEF OneHandler
  <2>7. CASE start # "none"
    <3>1. prev_sched_term \in started /\ cur_sched_term \notin started
      BY <2>7 DEF InterruptsInv, CommonInv
    <3>2. PICK h : h = stack[cur_sched_term]
      OBVIOUS
    <3>3. h = << >> \/ \E f : h = <<f>>
      BY <2>1, <2>5, <3>2
    <3>4. stack[prev_sched_term] = <<p>> /\ prev_sched_term \in Terms
      BY <2>4, <3>1
    <3>5. Len(<<p>> \o h) \in 1 .. 2 /\ (<<p>> \o h)[1] = p
      <4>1. h \in Seq(Frame) /\ <<p>> \in Seq(Frame)
        BY <2>5, <3>2, <3>4 DEF InterruptsInv, CommonInv
      <4>2. Len(h) \in 0 .. 1 /\ Len(<<p>>) = 1 /\ <<p>>[1] = p
        BY <3>3
      <4> QED
        BY <4>1, <4>2, ConcatProperties
    <3>6. OnStack(prev_sched_term) = <<p>> \o h
      BY <2>7, <3>2, <3>4 DEF OnStack
    <3>7. OnStack(cur_sched_term) = << >>
      BY <2>7, <3>1 DEF OnStack
    <3>8. ASSUME NEW t \in Terms, t # prev_sched_term, t # cur_sched_term
          PROVE  OnStack(t) = stack[t]
      BY <2>7, <3>8 DEF OnStack
    <3>9. ASSUME NEW t \in Terms
          PROVE  Len(OnStack(t)) <= IF start # "none" /\ t = prev_sched_term THEN 2 ELSE 1
      <4>1. CASE t = prev_sched_term
        BY <2>7, <3>5, <3>6, <4>1
      <4>2. CASE t = cur_sched_term
        BY <3>1, <3>7, <4>2
      <4>3. CASE t # prev_sched_term /\ t # cur_sched_term
        BY <2>1, <3>8, <4>3
      <4> QED
        BY <4>1, <4>2, <4>3
    <3>10. ASSUME NEW t \in started \ {cur_sched_term}
           PROVE  Len(OnStack(t)) >= 1 /\ OnStack(t)[1] = p
      <4>1. CASE t = prev_sched_term
        BY <3>5, <3>6, <4>1
      <4>2. CASE t # prev_sched_term
        BY <2>4, <3>8, <4>2
      <4> QED
        BY <4>1, <4>2
    <3> QED
      BY <2>3, <3>9, <3>10 DEF OneHandler
  <2> QED
    BY <2>6, <2>7
<1> QED
  BY <1>1, InterruptsSafe, PTL

(* A program always runs with the lines of the system unmasked and nothing  *)
(* in service, whoever masked and unmasked the PIT's line.                  *)
THEOREM LinesAlwaysRestored == Spec => []LinesRestored
<1>1. InterruptsInv => LinesRestored
  <2> SUFFICES ASSUME InterruptsInv, Launched, InProgram
               PROVE  imr \cap (Linkage \cup {CASCADE}) = {} /\ isr = {}
    BY DEF LinesRestored
  <2>1. Up
    BY DEF InterruptsInv
  <2> QED
    BY <2>1, OneFrame DEF Up, CurrentOK, InProgram, Masked, Served
<1> QED
  BY <1>1, InterruptsSafe, PTL

(* An interrupt is taken only through a linkage (idt_init.c), and only when *)
(* boot (kernel.c, boot.S) has set up all that its handler uses.            *)
THEOREM HandlersAlwaysReady == Spec => []HandlersReady
<1>1. InterruptsInv => HandlersReady
  <2> SUFFICES ASSUME InterruptsInv, NEW t \in Terms, NEW k \in 1 .. Len(stack[t])
               PROVE  /\ stack[t][k].irq \in Linkage
                      /\ \A s \in Needs(stack[t][k].irq) : Done(s)
    BY DEF HandlersReady
  <2>1. Up /\ \E i \in Linkage, at \in Points :
          stack[t] = <<Handling(i, at)>>
    BY Stacks
  <2>2. PICK i \in Linkage, at \in Points :
          stack[t] = <<Handling(i, at)>>
    BY <2>1
  <2>3. stack[t][k] = Handling(i, at)
    BY <2>2
  <2>4. stack[t][k].irq = i
    BY <2>3 DEF Handling
  <2>5. "launch" \notin Needs(i)
    BY LineFacts DEF Needs, PIT_IRQ_NUM, IRQ_NUM
  <2>6. \A s \in Needs(i) : Done(s)
    BY <2>1, <2>5, Ready DEF Up
  <2> QED
    BY <2>4, <2>6
<1> QED
  BY <1>1, InterruptsSafe, PTL

(* The variables of boot, the controllers and the stacks keep their types:  *)
(* every frame is one that a gate and a handler can build.                  *)
THEOREM InterruptsTyped == Spec => []TypeOK
<1>1. InterruptsInv => TypeOK
  <2> SUFFICES ASSUME InterruptsInv PROVE TypeOK
    OBVIOUS
  <2>1. \E k \in 0 .. STEPS : todo = Remaining(k)
    BY LastStages DEF InterruptsInv, Booting, Dead, Up, STEPS
  <2>2. \E k \in 0 .. Len(BootOrder) : todo = SubSeq(BootOrder, k + 1, Len(BootOrder))
    BY <2>1, Order DEF Remaining
  <2> QED
    BY <2>2 DEF TypeOK, InterruptsInv, CommonInv
<1> QED
  BY <1>1, InterruptsSafe, PTL
=============================================================================
