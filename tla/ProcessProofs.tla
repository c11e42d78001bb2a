--------------------------- MODULE ProcessProofs ---------------------------
(***************************************************************************)
(* Proofs about Process, for every number of terminals, every number of    *)
(* process slots and every bound on the ticks that land in a race window.  *)
(***************************************************************************)
EXTENDS ProcessInv, FiniteSetTheorems, TLAPS

USE ShellAssumption, ProgsAssumption, HitsAssumption

(* Every terminal has a root shell among the pids, and a successor.         *)
LEMMA TermFacts ==
    /\ 0 \in Terms
    /\ 1 \in Pids
    /\ \A t \in Terms : t + 1 \in Pids /\ t + 1 <= SHELL_NUM
    /\ \A t \in Terms : NextTerm(t) \in Terms
BY DEF Terms, Pids, NextTerm

(* What the top of a kernel stack can hold is a frame.                      *)
LEMMA FrameTypes ==
    /\ NoFrame \in Frames
    /\ \A t \in Terms : Live(t) \in Frames
    /\ \A t \in Terms, c \in Pids : Awaiting(t, c) \in Frames
BY DEF NoFrame, Live, Awaiting, Frames, Pids

(* The state launch and pit_init leave behind is well typed.                *)
LEMMA TypeInit == Init => TypeInv
<1> SUFFICES ASSUME Init PROVE TypeInv
  OBVIOUS
<1>1. TypeOK
  <2>1. /\ process_array \in [Pids -> {-1, 1}]
        /\ process_num \in Int
        /\ tmp \in [Terms -> Int]
    BY DEF Init, LaunchInit
  <2>2. /\ sched_pid \in [Terms -> Pids]
        /\ ks \in [Terms -> Pids]
        /\ cur_sched_term \in Terms
    BY TermFacts DEF Init, PitInit
  <2>3. pcb \in [Pids -> [parent_pid : 0 .. MAX_PROGS, parent_ebp : 0 .. MAX_PROGS]]
    BY DEF Init, LaunchInit
  <2>4. tss_esp0 \in Pids /\ user_page \in Pids
    BY TermFacts DEF Init, LaunchInit
  <2>5. pc \in [Terms -> PcLabels]
    BY DEF Init, PitInit, PcLabels
  <2>6. frame \in [Pids -> Frames]
    BY TermFacts, FrameTypes DEF Init, LaunchInit
  <2>7. /\ wild \in {"none", "slot", "resume", "return"}
        /\ hits \in [Windows -> Nat]
    BY DEF Init
  <2> QED
    BY <2>1, <2>2, <2>3, <2>4, <2>5, <2>6, <2>7 DEF TypeOK
<1>2. \A t \in Terms : pc[t] \in HaltPc => ks[t] > SHELL_NUM
  BY DEF Init, PitInit, HaltPc
<1>3. \A t \in Terms : HasParent(sched_pid[t]) /\ HasParent(ks[t])
  BY TermFacts DEF Init, PitInit, HasParent, Terms
<1>4. HasParent(tss_esp0)
  BY DEF Init, LaunchInit, HasParent
<1>5. \A p \in Pids : pcb[p].parent_pid \notin Pids /\ pcb[p].parent_ebp \notin Pids
  BY DEF Init, LaunchInit, Pids
<1> QED
  BY <1>1, <1>2, <1>3, <1>4, <1>5 DEF TypeInv

(* A step that changes only where the thread is, and what lies on stacks.   *)
LEMMA TypeQuiet ==
    ASSUME TypeInv, UNCHANGED <<count, tree, cpu, sched>>,
           wild' \in {"none", "slot", "resume", "return"},
           frame' \in [Pids -> Frames],
           pc' \in [Terms -> PcLabels],
           ks' \in [Terms -> Pids],
           \A t \in Terms : pc'[t] \in HaltPc => ks'[t] > SHELL_NUM,
           \A t \in Terms : HasParent(ks'[t])
    PROVE  TypeInv'
BY DEF TypeInv, TypeOK, HasParent, count, tree, cpu, sched

(* The return to a parent: whether it finds the frame or not.               *)
LEMMA ReturnTypes ==
    ASSUME TypeInv, NEW t \in Terms, NEW c \in Pids,
           NEW stacks \in [Pids -> Frames], ReturnToParent(t, c, stacks)
    PROVE  /\ wild' \in {"none", "slot", "resume", "return"}
           /\ frame' \in [Pids -> Frames]
           /\ pc' \in [Terms -> PcLabels]
           /\ ks' \in [Terms -> Pids]
           /\ \A u \in Terms : pc'[u] \in HaltPc => ks'[u] > SHELL_NUM
           /\ \A u \in Terms : HasParent(ks'[u])
<1> DEFINE q == pcb[c].parent_ebp
<1>1. CASE q \in Pids /\ stacks[q] = Awaiting(t, c)
  <2>1. /\ frame' = [stacks EXCEPT ![q] = Live(t), ![c] = NoFrame]
        /\ ks' = [ks EXCEPT ![t] = q]
        /\ pc' = [pc EXCEPT ![t] = "ret"]
        /\ wild' = wild
    BY <1>1 DEF ReturnToParent, Goto
  <2>2. HasParent(q)
    BY <1>1 DEF TypeInv
  <2> HIDE DEF q
  <2> QED
    BY <1>1, <2>1, <2>2, FrameTypes DEF TypeInv, TypeOK, PcLabels, HaltPc
<1>2. CASE ~(q \in Pids /\ stacks[q] = Awaiting(t, c))
  <2>1. wild' = "return" /\ UNCHANGED <<frame, ks, pc>>
    BY <1>2 DEF ReturnToParent
  <2> QED
    BY <2>1 DEF TypeInv, TypeOK
<1> QED
  BY <1>1, <1>2

(* Every step of the kernel, whatever ticks it races with, keeps the types. *)
LEMMA TypeStep == TypeInv /\ [Next]_vars => TypeInv'
<1> SUFFICES ASSUME TypeInv, [Next]_vars PROVE TypeInv'
  OBVIOUS
<1>1. CASE UNCHANGED vars
  BY <1>1 DEF TypeInv, TypeOK, HasParent, vars, count, tree, cpu, thread, sched
<1>2. ASSUME NEW t \in Terms, SyscallEntry(t) PROVE TypeInv'
  BY <1>2, FrameTypes, TypeQuiet
     DEF SyscallEntry, At, Goto, TypeInv, TypeOK, PcLabels, HaltPc
<1>3. ASSUME NEW t \in Terms, OtherSyscall(t) \/ ExecLimit(t) \/ ExecFail(t)
      PROVE  TypeInv'
  BY <1>3, TypeQuiet
     DEF OtherSyscall, ExecLimit, ExecFail, At, Goto, TypeInv, TypeOK, PcLabels,
         HaltPc, ExecPc
<1>4. ASSUME NEW t \in Terms, SyscallReturn(t) \/ ContextSwitch(t) PROVE TypeInv'
  BY <1>4, FrameTypes, TypeQuiet
     DEF SyscallReturn, ContextSwitch, At, Goto, TypeInv, TypeOK, PcLabels, HaltPc
<1>5. ASSUME NEW t \in Terms, ExecZero(t) PROVE TypeInv'
  BY <1>5
     DEF ExecZero, At, Goto, TypeInv, TypeOK, HasParent, PcLabels, HaltPc, ExecPc,
         count, tree, cpu, sched
<1>6. ASSUME NEW t \in Terms, ExecSpawn(t) PROVE TypeInv'
  <2>1. PICK p \in Pids :
           /\ process_array' = [process_array EXCEPT ![p] = 1]
           /\ process_num' = process_num + 1
           /\ pcb' = [pcb EXCEPT ![p] = [parent_pid |-> sched_pid[t],
                                         parent_ebp |-> ks[t]]]
           /\ sched_pid' = [sched_pid EXCEPT ![t] = p]
           /\ tss_esp0' = p
           /\ user_page' = p
           /\ frame' = [frame EXCEPT ![ks[t]] = Awaiting(t, p)]
    BY <1>6 DEF ExecSpawn, NewPcb
  <2>2. pc' = [pc EXCEPT ![t] = "cs"] /\ UNCHANGED <<tmp, ks, wild, sched>>
    BY <1>6 DEF ExecSpawn, Goto
  <2>3. TypeOK'
    <3>1. pcb' \in [Pids -> [parent_pid : 0 .. MAX_PROGS, parent_ebp : 0 .. MAX_PROGS]]
      <4>1. sched_pid[t] \in 0 .. MAX_PROGS /\ ks[t] \in 0 .. MAX_PROGS
        <5>1. sched_pid[t] \in Pids /\ ks[t] \in Pids
          BY DEF TypeInv, TypeOK
        <5> QED
          BY <5>1 DEF Pids
      <4>2. [parent_pid |-> sched_pid[t], parent_ebp |-> ks[t]]
              \in [parent_pid : 0 .. MAX_PROGS, parent_ebp : 0 .. MAX_PROGS]
        BY <4>1
      <4> QED
        BY <2>1, <4>2 DEF TypeInv, TypeOK
    <3>2. frame' \in [Pids -> Frames]
      BY <2>1, FrameTypes DEF TypeInv, TypeOK
    <3>3. pc' \in [Terms -> PcLabels]
      BY <2>2 DEF TypeInv, TypeOK, PcLabels
    <3>4. /\ process_array' \in [Pids -> {-1, 1}]
          /\ process_num' \in Int
          /\ sched_pid' \in [Terms -> Pids]
      BY <2>1 DEF TypeInv, TypeOK
    <3> QED
      BY <2>1, <2>2, <3>1, <3>2, <3>3, <3>4 DEF TypeInv, TypeOK, sched
  <2>4. \A q \in Pids : HasParent(q) => HasParent(q)'
    BY <2>1 DEF HasParent, TypeInv, TypeOK
  <2>5. HasParent(p)'
    BY <2>1 DEF HasParent, TypeInv, TypeOK
  <2>6. \A u \in Terms : pc'[u] \in HaltPc => ks'[u] > SHELL_NUM
    BY <2>2 DEF TypeInv, TypeOK, HaltPc
  <2>7. HasParent(tss_esp0)'
    BY <2>1, <2>5
  <2>8. \A u \in Terms : HasParent(sched_pid[u])' /\ HasParent(ks[u])'
    BY <2>1, <2>2, <2>4, <2>5 DEF TypeInv, TypeOK
  <2>9. \A q \in Pids :
           /\ pcb'[q].parent_pid \in Pids => HasParent(pcb[q].parent_pid)'
           /\ pcb'[q].parent_ebp \in Pids => HasParent(pcb[q].parent_ebp)'
    BY <2>1, <2>2, <2>4, <2>5 DEF TypeInv, TypeOK
  <2> QED
    BY <2>3, <2>6, <2>7, <2>8, <2>9 DEF TypeInv
<1>7. ASSUME NEW t \in Terms, ExecNoSlot(t) PROVE TypeInv'
  BY <1>7, TypeQuiet DEF ExecNoSlot, TypeInv, TypeOK
<1>8. ASSUME NEW t \in Terms, HaltBegin(t) PROVE TypeInv'
  <2>1. pc' = [pc EXCEPT ![t] = IF ks[t] <= SHELL_NUM THEN "cs" ELSE "h_load"]
    BY <1>8 DEF HaltBegin, Goto, IsRootShell
  <2>2. pc' \in [Terms -> PcLabels]
    BY <2>1 DEF TypeInv, TypeOK, PcLabels, HaltPc
  <2>3. \A u \in Terms : pc'[u] \in HaltPc => ks[u] > SHELL_NUM
    BY <2>1 DEF TypeInv, TypeOK, HaltPc, Pids
  <2> QED
    BY <1>8, <2>2, <2>3, TypeQuiet DEF HaltBegin, TypeInv, TypeOK
<1>9. ASSUME NEW t \in Terms, HaltLoad(t) \/ HaltStore(t) \/ HaltFree(t)
      PROVE  TypeInv'
  <2>1. /\ \E l \in HaltPc : pc' = [pc EXCEPT ![t] = l]
        /\ ks[t] > SHELL_NUM
        /\ UNCHANGED <<tree, cpu, ks, frame, wild, sched>>
    BY <1>9 DEF HaltLoad, HaltStore, HaltFree, At, Goto, TypeInv, HaltPc
  <2>2. /\ process_array' \in [Pids -> {-1, 1}]
        /\ process_num' \in Int
        /\ tmp' \in [Terms -> Int]
    BY <1>9 DEF HaltLoad, HaltStore, HaltFree, TypeInv, TypeOK
  <2>3. /\ pc' \in [Terms -> PcLabels]
        /\ \A u \in Terms : pc'[u] \in HaltPc => ks[u] > SHELL_NUM
    BY <2>1 DEF TypeInv, TypeOK, PcLabels
  <2> QED
    BY <2>1, <2>2, <2>3 DEF TypeInv, TypeOK, HasParent, tree, cpu, sched
<1>10. ASSUME NEW t \in Terms, HaltTss(t) \/ HaltSched(t) \/ HaltPage(t)
       PROVE  TypeInv'
  <2>1. /\ cur_pcb(t).parent_pid \in Pids
        /\ HasParent(cur_pcb(t).parent_pid)
    BY <1>10 DEF HaltTss, HaltSched, HaltPage, At, cur_pcb, TypeInv, TypeOK,
                 HasParent, HaltPc
  <2> QED
    BY <1>10, <2>1
       DEF HaltTss, HaltSched, HaltPage, At, Goto, cur_pcb, TypeInv, TypeOK,
           HasParent, PcLabels, HaltPc, count, tree, cpu, sched
<1>11. ASSUME NEW t \in Terms, HaltReturn(t) PROVE TypeInv'
  <2>1. ks[t] \in Pids /\ frame \in [Pids -> Frames]
    BY DEF TypeInv, TypeOK
  <2>2. ReturnToParent(t, ks[t], frame) /\ UNCHANGED <<count, tree, cpu, sched>>
    BY <1>11 DEF HaltReturn
  <2> QED
    BY <2>1, <2>2, ReturnTypes, TypeQuiet
<1>12. ASSUME NEW t \in Terms, Exception(t) PROVE TypeInv'
  <2> DEFINE s == ExceptionStack(t)
             stacks == [frame EXCEPT ![s] = Live(t)]
             q == pcb[s].parent_pid
  <2>1. s \in Pids /\ s > SHELL_NUM /\ stacks \in [Pids -> Frames]
    BY <1>12, FrameTypes DEF Exception, ExceptionStack, TypeInv, TypeOK
  <2>2. q \in Pids /\ HasParent(q)
    BY <2>1 DEF TypeInv, TypeOK, HasParent, ExceptionStack
  <2>3. ReturnToParent(t, s, stacks)
    BY <1>12 DEF Exception
  <2>4. /\ process_num' = process_num - 1
        /\ process_array' = [process_array EXCEPT ![s] = -1]
        /\ sched_pid' = [sched_pid EXCEPT ![t] = q]
        /\ user_page' = q
        /\ tss_esp0' = q
        /\ UNCHANGED <<tmp, pcb, sched>>
    BY <1>12 DEF Exception, CountAfterFault
  <2>5. \A u \in Terms : HasParent(sched_pid'[u])
    BY <2>2, <2>4 DEF TypeInv, TypeOK
  <2> HIDE DEF s, stacks, q
  <2>6. TypeOK'
    BY <2>1, <2>2, <2>3, <2>4, ReturnTypes DEF TypeInv, TypeOK, sched
  <2> QED
    BY <2>1, <2>2, <2>3, <2>4, <2>5, <2>6, ReturnTypes DEF TypeInv, TypeOK, HasParent
<1>13. ASSUME Tick PROVE TypeInv'
  <2> DEFINE p == cur_sched_term
             n == NextTerm(p)
             stacks == IF pc[p] = "user" THEN [frame EXCEPT ![tss_esp0] = Live(p)]
                                         ELSE frame
  <2>1. p \in Terms /\ n \in Terms /\ stacks \in [Pids -> Frames]
    BY TermFacts, FrameTypes DEF TypeInv, TypeOK
  <2>2. /\ ks' = [ks EXCEPT ![p] = IF pc[p] = "user" THEN tss_esp0 ELSE @]
        /\ cur_sched_term' = n
        /\ tss_esp0' = sched_pid[n]
        /\ user_page' = sched_pid[n]
        /\ Resume(n, stacks)
        /\ UNCHANGED <<count, tree>>
    BY <1>13 DEF Tick, ProcessOf
  <2>3. hits' \in [Windows -> Nat]
    BY <1>13 DEF Tick, TypeInv, TypeOK
  <2>4. /\ ks' \in [Terms -> Pids]
        /\ \A u \in Terms : HasParent(ks'[u])
        /\ \A u \in Terms : pc[u] \in HaltPc => ks'[u] > SHELL_NUM
    BY <2>1, <2>2 DEF TypeInv, TypeOK, HaltPc
  <2> HIDE DEF p, n, stacks
  <2>5. /\ frame' \in [Pids -> Frames]
        /\ wild' \in {"none", "slot", "resume", "return"}
        /\ pc' \in [Terms -> PcLabels]
        /\ \A u \in Terms : pc'[u] = pc[u] \/ pc'[u] = "user"
    <3>1. frame' \in [Pids -> Frames]
      BY <2>1, <2>2, <2>4, FrameTypes DEF Resume
    <3>2. wild' \in {"none", "slot", "resume", "return"}
      BY <2>2 DEF Resume, TypeInv, TypeOK
    <3>3. pc' = pc \/ pc' = [pc EXCEPT ![n] = "user"]
      BY <2>2 DEF Resume, Goto
    <3> QED
      BY <2>1, <3>1, <3>2, <3>3 DEF TypeInv, TypeOK, PcLabels
  <2>6. TypeOK'
    BY <2>1, <2>2, <2>3, <2>4, <2>5 DEF TypeInv, TypeOK, count, tree
  <2> QED
    BY <2>1, <2>2, <2>4, <2>5, <2>6 DEF TypeInv, TypeOK, HasParent, HaltPc, tree
<1> QED
  BY <1>1, <1>2, <1>3, <1>4, <1>5, <1>6, <1>7, <1>8, <1>9, <1>10, <1>11, <1>12, <1>13
     DEF Next, KernelStep

(* The type invariant of the process component.                             *)
THEOREM Typing == Spec => []TypeOK
<1>1. TypeInv => TypeOK
  BY DEF TypeInv
<1> QED
  BY TypeInit, TypeStep, <1>1, PTL DEF Spec

-----------------------------------------------------------------------------
(***************************************************************************)
(* Safety while no tick has landed in the windows "dec" and "freed".       *)
(***************************************************************************)

(* If no tick has landed in a window of W, none had one step earlier, and   *)
(* the step is not a tick that interrupts one.                              *)
LEMMA CleanBefore ==
    ASSUME TypeInv, [Next]_vars, NEW W \in SUBSET Windows, Clean(W)'
    PROVE  /\ Clean(W)
           /\ Tick => \A w \in W : pc[cur_sched_term] \notin Window[w]
<1>1. CASE Tick
  <2>1. hits' = [w \in Windows |-> IF pc[cur_sched_term] \in Window[w]
                                     THEN hits[w] + 1 ELSE hits[w]]
    BY <1>1 DEF Tick
  <2>2. \A w \in Windows : hits'[w] = 0 =>
           hits[w] = 0 /\ pc[cur_sched_term] \notin Window[w]
    BY <2>1 DEF TypeInv, TypeOK
  <2> QED
    BY <2>2 DEF Clean
<1>2. CASE ~Tick
  <2>1. UNCHANGED hits
    BY <1>2 DEF Next, KernelStep, SyscallEntry, OtherSyscall, SyscallReturn,
       ContextSwitch, ExecLimit, ExecZero, ExecFail, ExecSpawn, ExecNoSlot, HaltBegin,
       HaltLoad, HaltStore, HaltFree, HaltTss, HaltSched, HaltPage, HaltReturn,
       Exception, sched, vars
  <2> QED
    BY <1>2, <2>1 DEF Clean
<1> QED
  BY <1>1, <1>2

(* A history without a tick in the windows "dec" and "freed" stays so       *)
(* backwards.                                                               *)
LEMMA UndisturbedBefore ==
    ASSUME TypeInv, [Next]_vars, Undisturbed'
    PROVE  /\ Undisturbed
           /\ Tick => pc[cur_sched_term] \notin {"h_store"} \cup Window.freed
<1>1. {"dec", "freed"} \in SUBSET Windows
  BY DEF Windows, Window
<1>2. Window["dec"] = {"h_store"} /\ Window["freed"] = Window.freed
  BY DEF Window
<1> QED
  BY <1>1, <1>2, CleanBefore DEF Undisturbed

(* A pid is that of a root shell or above it.                               *)
LEMMA SmallPid == \A p \in Pids : p > SHELL_NUM <=> ~(p <= SHELL_NUM)
BY DEF Pids

(* The child an execute waits for is a process.                             *)
LEMMA ChildTypes ==
    ASSUME TypeInv, NEW p \in Pids, frame[p].child # 0
    PROVE  frame[p].child \in Pids
<1>1. frame[p] \in Frames
  BY DEF TypeInv, TypeOK
<1>2. frame[p].child \in 0 .. MAX_PROGS
  BY <1>1 DEF Frames
<1> QED
  BY <1>2 DEF Pids

(* Steps that keep every link: they change what is on a stack only where no *)
(* execute waits, and release a slot only at the end of a chain.            *)
LEMMA ChainsKept ==
    ASSUME TypeInv, TypeInv', Chains, UNCHANGED pcb,
           \A t \in Terms : Leaf(t)' = Leaf(t),
           \A p \in Pids : Alive(p)' <=> Alive(p),
           \A p \in Pids : \/ process_array'[p] = process_array[p]
                           \/ frame[p].child = 0 /\ p > SHELL_NUM,
           \A p \in Pids : /\ frame'[p].child = frame[p].child
                           /\ frame[p].child # 0 => frame'[p] = frame[p]
    PROVE  Chains'
<1>1. \A t \in Terms : process_array'[t + 1] = 1
  BY TermFacts DEF Chains, Terms
<1>2. \A p \in Pids : Alive(p) => Owner(p)' = Owner(p)
  BY DEF Chains, ChildOK, Owner, Pids
<1>3. \A t \in Terms : Leaf(t) \in Pids
  BY DEF Leaf, TypeInv, TypeOK
<1>4. \A t \in Terms : LeafOK(t)'
  BY <1>2, <1>3 DEF Chains, LeafOK
<1>5. ASSUME NEW p \in Pids PROVE WaitingOK(p)'
  <2> SUFFICES ASSUME frame'[p].child # 0 PROVE WaitingOK(p)'
    BY DEF WaitingOK
  <2>1. frame[p].child # 0 /\ frame'[p] = frame[p] /\ frame[p].child \in Pids
    BY ChildTypes
  <2>2. WaitingOK(p)
    BY DEF Chains
  <2>3. Alive(p)
    BY <2>1, <2>2 DEF WaitingOK, Alive
  <2> QED
    BY <2>1, <2>2, <2>3, <1>2 DEF WaitingOK
<1>6. ASSUME NEW p \in Pids PROVE ChildOK(p)'
  BY DEF Chains, ChildOK
<1>7. ASSUME NEW p \in Pids PROVE EndOK(p)'
  BY <1>2 DEF Chains, EndOK
<1> QED
  BY <1>1, <1>4, <1>5, <1>6, <1>7 DEF Chains

(* The parent of the end of a chain waits for it, on behalf of the same     *)
(* terminal.                                                                *)
LEMMA ParentOfLeaf ==
    ASSUME TypeInv, Chains, NEW t \in Terms, NEW c \in Pids,
           c = Leaf(t), c > SHELL_NUM, NEW q, q = pcb[c].parent_pid
    PROVE  /\ q \in Pids
           /\ q # c
           /\ pcb[c].parent_ebp = q
           /\ frame[q] = Awaiting(t, c)
           /\ process_array[q] = 1
           /\ Owner(q) = t
<1>1. Alive(c) /\ Owner(c) = t /\ frame[c].child = 0
  BY DEF Chains, LeafOK
<1>2. q \in Pids /\ frame[q].child = c
  BY <1>1 DEF Chains, ChildOK
<1>3. c # 0 /\ ~(c <= SHELL_NUM)
  BY DEF Pids
<1>4. q # c
  BY <1>1, <1>2, <1>3
<1>5. WaitingOK(q)
  BY <1>2 DEF Chains
<1>6. pcb[c].parent_ebp = q /\ process_array[q] = 1 /\ Owner(q) = frame[q].term
  BY <1>2, <1>3, <1>5 DEF WaitingOK
<1>7. frame[q].term = t
  BY <1>1, <1>3 DEF Owner
<1>8. frame[q] \in Frames
  BY <1>2 DEF TypeInv, TypeOK
<1>9. frame[q] = [term |-> t, child |-> c]
  BY <1>2, <1>7, <1>8 DEF Frames
<1> QED
  BY <1>2, <1>4, <1>6, <1>7, <1>9 DEF Awaiting

(* The end of a chain dies and its parent is the end again.                 *)
LEMMA ChainsPop ==
    ASSUME TypeInv, TypeInv', Chains, UNCHANGED pcb,
           NEW t \in Terms, NEW c \in Pids, c = Leaf(t), c > SHELL_NUM,
           NEW q \in Pids, q = pcb[c].parent_pid,
           frame'[q] = Live(t), frame'[c] = NoFrame,
           \A p \in Pids : p # q /\ p # c => frame'[p] = frame[p],
           \A p \in Pids : Alive(p)' <=> (Alive(p) /\ p # c),
           \A p \in Pids : p # c => process_array'[p] = process_array[p],
           Leaf(t)' = q,
           \A u \in Terms : u # t => Leaf(u)' = Leaf(u)
    PROVE  Chains'
<1>1. /\ q \in Pids /\ q # c
      /\ frame[q].term = t /\ frame[q].child = c
      /\ process_array[q] = 1
      /\ Owner(q) = t
  <2>1. q \in Pids /\ q # c /\ process_array[q] = 1 /\ Owner(q) = t
    BY ParentOfLeaf
  <2>2. frame[q] = Awaiting(t, c)
    BY ParentOfLeaf
  <2> QED
    BY <2>1, <2>2 DEF Awaiting
<1>4. frame'[q].child = 0 /\ frame'[c].child = 0
  BY DEF Live, NoFrame
<1>5. c # 0 /\ frame[c].child = 0 /\ Owner(c) = t
  BY DEF Chains, LeafOK, Pids
<1>6. \A p \in Pids : Alive(p) /\ p # c => Owner(p)' = Owner(p)
  <2> SUFFICES ASSUME NEW p \in Pids, Alive(p), p # c, p > SHELL_NUM
               PROVE  Owner(p)' = Owner(p)
    BY SmallPid DEF Owner
  <2>1. pcb[p].parent_pid \in Pids /\ frame[pcb[p].parent_pid].child = p
    BY DEF Chains, ChildOK
  <2>2. pcb[p].parent_pid # q /\ pcb[p].parent_pid # c
    BY <2>1, <1>1, <1>5 DEF Pids
  <2>3. frame'[pcb'[p].parent_pid] = frame[pcb[p].parent_pid]
    BY <2>1, <2>2
  <2>4. Owner(p) = frame[pcb[p].parent_pid].term
    BY SmallPid DEF Owner
  <2>5. Owner(p)' = frame'[pcb'[p].parent_pid].term
    BY SmallPid DEF Owner
  <2> QED
    BY <2>3, <2>4, <2>5
<1>7. \A u \in Terms : Leaf(u) \in Pids
  BY DEF Leaf, TypeInv, TypeOK
<1>8. \A p \in Pids : process_array[p] = 1 /\ p # c => Alive(p)'
  BY DEF Alive
<1>9. ASSUME NEW u \in Terms PROVE process_array'[u + 1] = 1
  BY TermFacts DEF Chains, Terms
<1>10. ASSUME NEW u \in Terms PROVE LeafOK(u)'
  <2>1. CASE u = t
    <3>1. Alive(q) /\ Alive(q)' /\ Owner(q)' = t
      BY <1>1, <1>6, <1>8 DEF Alive
    <3> QED
      BY <2>1, <3>1, <1>4 DEF LeafOK
  <2>2. CASE u # t
    <3>1. LeafOK(u)
      BY DEF Chains
    <3>2. Leaf(u) # c /\ Leaf(u) # q
      BY <2>2, <3>1, <1>1, <1>5 DEF LeafOK
    <3> QED
      BY <2>2, <3>1, <3>2, <1>6, <1>7 DEF LeafOK
  <2> QED
    BY <2>1, <2>2
<1>11. ASSUME NEW p \in Pids PROVE WaitingOK(p)'
  <2> SUFFICES ASSUME frame'[p].child # 0 PROVE WaitingOK(p)'
    BY DEF WaitingOK
  <2>1. p # q /\ p # c /\ frame'[p] = frame[p]
    BY <1>4
  <2>2. frame[p].child # 0 /\ frame[p].child \in Pids /\ WaitingOK(p)
    BY <2>1, ChildTypes DEF Chains
  <2>3. frame[p].child # c
    BY <2>1, <2>2, <1>1 DEF WaitingOK
  <2>4. Alive(p)
    BY <2>2 DEF WaitingOK, Alive
  <2> QED
    BY <2>1, <2>2, <2>3, <2>4, <1>6 DEF WaitingOK
<1>12. ASSUME NEW p \in Pids PROVE ChildOK(p)'
  <2> SUFFICES ASSUME Alive(p)', p > SHELL_NUM PROVE ChildOK(p)'
    BY DEF ChildOK
  <2>1. pcb[p].parent_pid \in Pids /\ frame[pcb[p].parent_pid].child = p
    BY DEF Chains, ChildOK
  <2>2. pcb[p].parent_pid # q /\ pcb[p].parent_pid # c
    BY <2>1, <1>1, <1>5 DEF Pids
  <2> QED
    BY <2>1, <2>2 DEF ChildOK
<1>13. ASSUME NEW p \in Pids PROVE EndOK(p)'
  <2> SUFFICES ASSUME Alive(p)', frame'[p].child = 0 PROVE EndOK(p)'
    BY DEF EndOK
  <2>1. CASE p = q
    BY <2>1, <1>1, <1>6 DEF EndOK
  <2>2. CASE p # q
    <3>1. EndOK(p) /\ frame[p].child = 0
      BY <2>2 DEF Chains
    <3>2. Owner(p) # t
      BY <3>1 DEF EndOK
    <3> QED
      BY <3>1, <3>2, <1>6 DEF EndOK
  <2> QED
    BY <2>1, <2>2
<1> QED
  BY <1>9, <1>10, <1>11, <1>12, <1>13 DEF Chains

(* execute puts a new process at the end of the chain of t.                 *)
LEMMA ChainsPush ==
    ASSUME TypeInv, TypeInv', Chains, NEW t \in Terms, NEW c \in Pids,
           NEW l \in Pids, l = Leaf(t), process_array[l] = 1, ~Alive(c),
           process_array' = [process_array EXCEPT ![c] = 1],
           pcb' = [pcb EXCEPT ![c] = [parent_pid |-> l, parent_ebp |-> l]],
           frame' = [frame EXCEPT ![l] = Awaiting(t, c)],
           \A p \in Pids : Alive(p)' <=> (Alive(p) \/ p = c),
           Leaf(t)' = c,
           \A u \in Terms : u # t => Leaf(u)' = Leaf(u)
    PROVE  Chains'
<1>1. l \in Pids /\ Alive(l) /\ Owner(l) = t /\ frame[l].child = 0 /\ l # c
  BY DEF Chains, LeafOK, Leaf, TypeInv, TypeOK
<1>2. frame'[l].term = t /\ frame'[l].child = c
  BY <1>1 DEF TypeInv, TypeOK, Awaiting
<1>3. \A p \in Pids : p # l => frame'[p] = frame[p]
  BY DEF TypeInv, TypeOK
<1>4. pcb'[c].parent_pid = l /\ pcb'[c].parent_ebp = l
  BY DEF TypeInv, TypeOK
<1>5. \A p \in Pids : p # c => pcb'[p] = pcb[p]
  BY DEF TypeInv, TypeOK
<1>6. c > SHELL_NUM /\ ~(c <= SHELL_NUM) /\ c # 0
  <2>1. c <= SHELL_NUM => c - 1 \in Terms /\ (c - 1) + 1 = c
    BY DEF Pids, Terms
  <2>2. process_array[c] # 1
    BY DEF Alive
  <2> QED
    BY <2>1, <2>2 DEF Chains, Pids
<1>7. frame[c].child = 0
  BY DEF Chains, WaitingOK, Alive
<1>8. \A p \in Pids : Alive(p) => Owner(p)' = Owner(p)
  <2> SUFFICES ASSUME NEW p \in Pids, Alive(p), p > SHELL_NUM
               PROVE  Owner(p)' = Owner(p)
    BY SmallPid DEF Owner
  <2>1. pcb[p].parent_pid \in Pids /\ frame[pcb[p].parent_pid].child = p
    BY DEF Chains, ChildOK
  <2>2. pcb[p].parent_pid # l /\ p # c
    BY <2>1, <1>1 DEF Pids
  <2> QED
    BY <2>1, <2>2, <1>3, <1>5 DEF Owner
<1>9. Owner(c)' = t
  BY <1>2, <1>4, <1>6 DEF Owner
<1>10. \A u \in Terms : Leaf(u) \in Pids
  BY DEF Leaf, TypeInv, TypeOK
<1>11. ASSUME NEW u \in Terms PROVE process_array'[u + 1] = 1
  BY TermFacts DEF Chains, TypeInv, TypeOK
<1>12. ASSUME NEW u \in Terms PROVE LeafOK(u)'
  <2>1. CASE u = t
    BY <2>1, <1>1, <1>3, <1>7, <1>9 DEF LeafOK
  <2>2. CASE u # t
    <3>1. LeafOK(u)
      BY DEF Chains
    <3>2. Leaf(u) # l
      BY <2>2, <3>1, <1>1 DEF LeafOK
    <3> QED
      BY <2>2, <3>1, <3>2, <1>3, <1>8, <1>10 DEF LeafOK
  <2> QED
    BY <2>1, <2>2
<1>13. ASSUME NEW p \in Pids PROVE WaitingOK(p)'
  <2> SUFFICES ASSUME frame'[p].child # 0 PROVE WaitingOK(p)'
    BY DEF WaitingOK
  <2>1. CASE p = l
    <3>1. Owner(l)' = t /\ process_array'[l] = 1
      BY <1>1, <1>8 DEF TypeInv, TypeOK
    <3> QED
      BY <2>1, <3>1, <1>2, <1>4, <1>6 DEF WaitingOK
  <2>2. CASE p # l
    <3>1. frame'[p] = frame[p] /\ frame[p].child \in Pids /\ WaitingOK(p)
      BY <2>2, <1>3, ChildTypes DEF Chains
    <3>2. Alive(p) /\ Alive(frame[p].child) /\ process_array[p] = 1
      BY <3>1 DEF WaitingOK, Alive
    <3>3. frame[p].child # c /\ p # c
      BY <3>2
    <3>4. process_array'[p] = 1
      BY <3>2, <3>3 DEF TypeInv, TypeOK
    <3> QED
      BY <3>1, <3>2, <3>3, <3>4, <1>5, <1>8 DEF WaitingOK
  <2> QED
    BY <2>1, <2>2
<1>14. ASSUME NEW p \in Pids PROVE ChildOK(p)'
  <2> SUFFICES ASSUME Alive(p)', p > SHELL_NUM PROVE ChildOK(p)'
    BY DEF ChildOK
  <2>1. CASE p = c
    BY <2>1, <1>1, <1>2, <1>4 DEF ChildOK
  <2>2. CASE p # c
    <3>1. pcb[p].parent_pid \in Pids /\ frame[pcb[p].parent_pid].child = p
      BY <2>2 DEF Chains, ChildOK
    <3>2. pcb[p].parent_pid # l
      BY <3>1, <1>1 DEF Pids
    <3> QED
      BY <2>2, <3>1, <3>2, <1>3, <1>5 DEF ChildOK
  <2> QED
    BY <2>1, <2>2
<1>15. ASSUME NEW p \in Pids PROVE EndOK(p)'
  <2> SUFFICES ASSUME Alive(p)', frame'[p].child = 0 PROVE EndOK(p)'
    BY DEF EndOK
  <2>1. CASE p = c
    BY <2>1, <1>9 DEF EndOK
  <2>2. CASE p # c
    <3>1. p # l
      BY <1>2, <1>6
    <3>2. EndOK(p) /\ frame[p].child = 0 /\ Alive(p)
      BY <2>2, <3>1, <1>3 DEF Chains
    <3>3. Owner(p) # t
      BY <3>1, <3>2 DEF EndOK
    <3> QED
      BY <3>2, <3>3, <1>8 DEF EndOK
  <2> QED
    BY <2>1, <2>2
<1> QED
  BY <1>11, <1>12, <1>13, <1>14, <1>15 DEF Chains

-----------------------------------------------------------------------------
(* The process a terminal runs has a pid.                                   *)
LEMMA LeafTypes ==
    ASSUME TypeInv, NEW t \in Terms
    PROVE  Leaf(t) \in Pids
BY DEF Leaf, TypeInv, TypeOK

(* Two terminals never run the same process.                                *)
LEMMA LeavesDiffer ==
    ASSUME Chains, NEW t \in Terms, NEW u \in Terms, u # t
    PROVE  Leaf(u) # Leaf(t)
BY DEF Chains, LeafOK

(* The context of a terminal that waits for the processor is on a stack     *)
(* where no other terminal runs.                                            *)
LEMMA ContextFrame ==
    ASSUME TypeInv, SafeInv, NEW u \in Terms, u # cur_sched_term, pc[u] # "new"
    PROVE  /\ ks[u] \in Pids
           /\ frame[ks[u]].term = u
           /\ pc[u] \notin {"h_store", "h_tss", "h_sched", "h_page", "h_ret"}
           /\ ks[u] = Leaf(u) \/ (pc[u] = "cs" /\ frame[ks[u]].child # 0)
<1>1. ks[u] \in Pids /\ pc[u] \in PcLabels /\ sched_pid[u] \in Pids
  BY DEF TypeInv, TypeOK
<1>2. pc[u] \notin {"h_store", "h_tss", "h_sched", "h_page", "h_ret"}
  BY DEF SafeInv, WindowsOK, Window
<1>3. Leaf(u) = sched_pid[u]
  BY <1>2 DEF Leaf
<1>4. ContextOK(u)
  BY DEF SafeInv
<1>5. CASE ks[u] = sched_pid[u] /\ frame[ks[u]] = Live(u)
  BY <1>1, <1>2, <1>3, <1>5 DEF Live
<1>6. CASE pc[u] = "cs" /\ frame[ks[u]] = Awaiting(u, sched_pid[u])
  BY <1>1, <1>2, <1>6 DEF Awaiting, Pids
<1> QED
  BY <1>1, <1>2, <1>4, <1>5, <1>6 DEF ContextOK, PcLabels, HaltPc, ExecPc

(* It stays intact while terminal t changes only the end of its own chain   *)
(* and frames of its own.                                                   *)
LEMMA ContextOther ==
    ASSUME TypeInv, SafeInv, NEW t \in Terms, NEW u \in Terms, u # t,
           u # cur_sched_term,
           pc'[u] = pc[u], ks'[u] = ks[u], sched_pid'[u] = sched_pid[u],
           \A s \in Pids : s # Leaf(t) /\ frame[s].term # t => frame'[s] = frame[s]
    PROVE  ContextOK(u)'
<1>1. CASE pc[u] = "new"
  BY <1>1 DEF ContextOK
<1>2. CASE pc[u] # "new"
  <2>1. /\ ks[u] \in Pids
        /\ frame[ks[u]].term = u
        /\ pc[u] \notin {"h_page", "h_ret"}
        /\ ks[u] = Leaf(u) \/ frame[ks[u]].child # 0
    BY <1>2, ContextFrame
  <2>2. Leaf(u) # Leaf(t)
    BY LeavesDiffer DEF SafeInv
  <2>3. frame[Leaf(t)].child = 0
    BY DEF SafeInv, Chains, LeafOK
  <2>4. frame'[ks[u]] = frame[ks[u]]
    BY <2>1, <2>2, <2>3
  <2>5. ContextOK(u)
    BY DEF SafeInv
  <2> QED
    BY <2>1, <2>4, <2>5 DEF ContextOK
<1> QED
  BY <1>1, <1>2

(* A step of the running terminal, given what it does to its own context.   *)
LEMMA RunningStep ==
    ASSUME TypeInv, SafeInv, NEW t \in Terms, t = cur_sched_term, cur_sched_term' = t,
           \A u \in Terms : u # t =>
               pc'[u] = pc[u] /\ ks'[u] = ks[u] /\ sched_pid'[u] = sched_pid[u],
           \A s \in Pids : s # Leaf(t) /\ frame[s].term # t => frame'[s] = frame[s],
           wild' \in {"none", "slot"}, Chains', ContextOK(t)', CpuOK',
           pc'[t] = "h_store" => tmp'[t] = process_num',
           pc'[t] \in Window.freed => process_array'[ks'[t]] = -1
    PROVE  SafeInv'
<1>1. \A u \in Terms : ContextOK(u)'
  BY ContextOther
<1>2. WindowsOK'
  BY DEF SafeInv, WindowsOK, Window
<1> QED
  BY <1>1, <1>2 DEF SafeInv

(* The same when the chains do not change.                                  *)
LEMMA QuietStep ==
    ASSUME TypeInv, TypeInv', SafeInv, NEW t \in Terms, t = cur_sched_term,
           cur_sched_term' = t, UNCHANGED <<process_array, pcb>>,
           wild' \in {"none", "slot"},
           \A u \in Terms : u # t =>
               pc'[u] = pc[u] /\ ks'[u] = ks[u] /\ sched_pid'[u] = sched_pid[u],
           Leaf(t)' = Leaf(t),
           \/ ks'[t] = ks[t] /\ (pc'[t] \in Window.freed <=> pc[t] \in Window.freed)
           \/ pc'[t] \notin Window.freed /\ pc[t] \notin Window.freed,
           \A s \in Pids : \/ frame'[s] = frame[s]
                           \/ s = Leaf(t) /\ frame'[s].child = 0,
           ContextOK(t)', CpuOK',
           pc'[t] = "h_store" => tmp'[t] = process_num'
    PROVE  SafeInv'
<1>1. \A u \in Terms : Leaf(u)' = Leaf(u)
  BY DEF Leaf
<1>2. \A p \in Pids : Alive(p)' <=> Alive(p)
  BY DEF Alive
<1>3. Chains /\ frame[Leaf(t)].child = 0
  BY DEF SafeInv, Chains, LeafOK
<1>4. Chains'
  BY <1>1, <1>2, <1>3, ChainsKept
<1>5. pc'[t] \in Window.freed => process_array'[ks'[t]] = -1
  BY DEF SafeInv, WindowsOK
<1> QED
  BY <1>4, <1>5, RunningStep

-----------------------------------------------------------------------------
(* The count is at least 1 when a system call is running: every root shell  *)
(* has its slot, and at least one terminal is not in the middle of a halt.  *)
LEMMA CountPositive ==
    ASSUME TypeInv, SafeInv, CountOK, pc[cur_sched_term] # "h_free"
    PROVE  process_num # 0
<1> DEFINE H == {t \in Terms : pc[t] = "h_free"}
           Shells == 1 .. SHELL_NUM
<1>1. /\ IsFiniteSet(Terms) /\ Cardinality(Terms) = SHELL_NUM
      /\ IsFiniteSet(Shells) /\ Cardinality(Shells) = SHELL_NUM
  <2>1. 0 \in Int /\ 1 \in Int /\ SHELL_NUM \in Int /\ SHELL_NUM - 1 \in Int
    OBVIOUS
  <2>2. /\ IsFiniteSet(0 .. SHELL_NUM - 1)
        /\ Cardinality(0 .. SHELL_NUM - 1)
              = IF 0 > SHELL_NUM - 1 THEN 0 ELSE (SHELL_NUM - 1) - 0 + 1
    BY <2>1, FS_Interval
  <2>3. /\ IsFiniteSet(1 .. SHELL_NUM)
        /\ Cardinality(1 .. SHELL_NUM)
              = IF 1 > SHELL_NUM THEN 0 ELSE SHELL_NUM - 1 + 1
    BY <2>1, FS_Interval
  <2> QED
    BY <2>1, <2>2, <2>3 DEF Terms
<1>2. IsFiniteSet(Pids) /\ IsFiniteSet(Used)
  <2>1. IsFiniteSet(Pids)
    BY FS_Interval DEF Pids
  <2> QED
    BY <2>1, FS_Subset DEF Used
<1>3. Shells \subseteq Used
  <2>1. \A p \in Shells : p \in Pids /\ p - 1 \in Terms /\ (p - 1) + 1 = p
    BY DEF Pids, Terms
  <2> QED
    BY <2>1 DEF Used, SafeInv, Chains
<1>4. Cardinality(Used) \in Nat /\ Cardinality(Shells) <= Cardinality(Used)
  BY <1>2, <1>3, FS_Subset, FS_CardinalityType
<1>5. cur_sched_term \in Terms /\ H \subseteq Terms \ {cur_sched_term}
  BY DEF TypeInv, TypeOK
<1>6. /\ IsFiniteSet(Terms \ {cur_sched_term})
      /\ Cardinality(Terms \ {cur_sched_term}) = SHELL_NUM - 1
  BY <1>1, <1>5, FS_RemoveElement
<1>7. Cardinality(H) \in Nat /\ Cardinality(H) <= SHELL_NUM - 1
  BY <1>5, <1>6, FS_Subset, FS_CardinalityType
<1>8. process_num + Cardinality(H) = Cardinality(Used) /\ process_num \in Int
  BY DEF CountOK, TypeInv, TypeOK
<1> HIDE DEF H, Shells
<1> QED
  BY <1>1, <1>4, <1>7, <1>8

-----------------------------------------------------------------------------
(* Facts about the running terminal that every step below starts from.      *)
LEMMA Running ==
    ASSUME TypeInv, SafeInv, NEW t \in Terms, t = cur_sched_term
    PROVE  /\ ContextOK(t) /\ LeafOK(t) /\ CpuOK
           /\ Leaf(t) \in Pids /\ ks[t] \in Pids /\ sched_pid[t] \in Pids
BY LeafTypes DEF SafeInv, Chains, TypeInv, TypeOK

(* System call entry, return and the first instruction of a program         *)
(* (linkage.S).                                                             *)
LEMMA SafeSyscall ==
    ASSUME TypeInv, TypeInv', SafeInv, NEW t \in Terms,
           \/ SyscallEntry(t) \/ OtherSyscall(t) \/ SyscallReturn(t)
           \/ ContextSwitch(t) \/ ExecLimit(t) \/ ExecFail(t) \/ ExecNoSlot(t)
    PROVE  SafeInv'
<1>1. t = cur_sched_term /\ cur_sched_term' = t
  BY DEF SyscallEntry, OtherSyscall, SyscallReturn, ContextSwitch, ExecLimit,
         ExecFail, ExecNoSlot, At, sched
<1>2. /\ ContextOK(t) /\ LeafOK(t) /\ CpuOK
      /\ Leaf(t) \in Pids /\ ks[t] \in Pids /\ sched_pid[t] \in Pids
  BY <1>1, Running
<1>3. pc \in [Terms -> PcLabels] /\ ks \in [Terms -> Pids] /\ frame \in [Pids -> Frames]
  BY DEF TypeInv, TypeOK
<1>4. CASE SyscallEntry(t)
  <2>1. /\ pc[t] = "user" /\ pc' = [pc EXCEPT ![t] = "sys"] /\ wild' = "none"
        /\ ks' = [ks EXCEPT ![t] = tss_esp0]
        /\ frame' = [frame EXCEPT ![tss_esp0] = Live(t)]
        /\ UNCHANGED <<process_array, process_num, tmp, sched_pid, pcb, tss_esp0>>
    BY <1>4 DEF SyscallEntry, At, Goto, count, tree, cpu
  <2>2. tss_esp0 = sched_pid[t] /\ Leaf(t) = sched_pid[t] /\ Leaf(t)' = Leaf(t)
    BY <1>1, <1>2, <1>3, <2>1 DEF CpuOK, Leaf
  <2>3. ContextOK(t)' /\ CpuOK' /\ Live(t).child = 0
    BY <1>1, <1>2, <1>3, <2>1, <2>2 DEF ContextOK, CpuOK, Live
  <2> QED
    BY <1>1, <1>2, <1>3, <2>1, <2>2, <2>3, QuietStep DEF Window
<1>5. CASE OtherSyscall(t) \/ ExecLimit(t)
  <2>1. /\ pc[t] = "sys" /\ wild' = "none"
        /\ \E l \in {"ret", "zero"} : pc' = [pc EXCEPT ![t] = l]
        /\ UNCHANGED <<process_array, process_num, tmp, sched_pid, pcb, tss_esp0, ks, frame>>
    BY <1>5 DEF OtherSyscall, ExecLimit, At, Goto, count, tree, cpu
  <2>2. ContextOK(t)' /\ CpuOK' /\ Leaf(t)' = Leaf(t)
    BY <1>1, <1>2, <1>3, <2>1 DEF ContextOK, CpuOK, Leaf
  <2> QED
    BY <1>1, <1>2, <1>3, <2>1, <2>2, QuietStep DEF Window
<1>6. CASE ExecFail(t)
  <2>1. /\ pc[t] = "body" /\ wild' = "none" /\ pc' = [pc EXCEPT ![t] = "ret"]
        /\ UNCHANGED <<process_array, process_num, tmp, sched_pid, pcb, tss_esp0, ks, frame>>
    BY <1>6 DEF ExecFail, At, Goto, count, tree, cpu
  <2>2. ContextOK(t)' /\ CpuOK' /\ Leaf(t)' = Leaf(t)
    BY <1>1, <1>2, <1>3, <2>1 DEF ContextOK, CpuOK, Leaf
  <2> QED
    BY <1>1, <1>2, <1>3, <2>1, <2>2, QuietStep DEF Window
<1>7. CASE SyscallReturn(t) \/ ContextSwitch(t)
  <2>1. /\ pc[t] \in {"ret", "cs"} /\ pc' = [pc EXCEPT ![t] = "user"] /\ wild' = "none"
        /\ UNCHANGED <<process_array, process_num, tmp, sched_pid, pcb, tss_esp0, ks>>
    BY <1>7 DEF SyscallReturn, ContextSwitch, At, Goto, count, tree, cpu
  <2>2. \/ frame' = frame
        \/ ks[t] = sched_pid[t] /\ frame' = [frame EXCEPT ![ks[t]] = NoFrame]
    <3>1. CASE SyscallReturn(t)
      BY <1>2, <3>1 DEF SyscallReturn, At, ContextOK
    <3>2. CASE ContextSwitch(t)
      <4>1. frame[ks[t]] = Awaiting(t, sched_pid[t]) => frame[ks[t]].child # 0
        BY <1>2 DEF Awaiting, Pids
      <4> QED
        BY <1>2, <3>2, <4>1 DEF ContextSwitch, At, ContextOK
    <3> QED
      BY <1>7, <3>1, <3>2
  <2>3. Leaf(t) = sched_pid[t] /\ Leaf(t)' = Leaf(t)
    BY <1>3, <2>1 DEF Leaf
  <2>4. ContextOK(t)' /\ CpuOK' /\ NoFrame.child = 0
    BY <1>1, <1>2, <1>3, <2>1 DEF ContextOK, CpuOK, NoFrame
  <2>5. \A s \in Pids : \/ frame'[s] = frame[s]
                        \/ s = Leaf(t) /\ frame'[s].child = 0
    BY <1>2, <1>3, <2>2, <2>3, <2>4
  <2> QED
    BY <1>1, <1>2, <1>3, <2>1, <2>3, <2>4, <2>5, QuietStep DEF Window
<1>8. CASE ExecNoSlot(t)
  <2>1. /\ pc[t] = "body" /\ wild' = "slot"
        /\ UNCHANGED <<process_array, process_num, tmp, sched_pid, pcb, tss_esp0, ks, frame, pc>>
    BY <1>8 DEF ExecNoSlot, At, count, tree, cpu
  <2>2. ContextOK(t)' /\ CpuOK' /\ Leaf(t)' = Leaf(t)
    BY <1>1, <1>2, <2>1 DEF ContextOK, CpuOK, Leaf
  <2> QED
    BY <1>1, <1>2, <1>3, <2>1, <2>2, QuietStep
<1> QED
  BY <1>4, <1>5, <1>6, <1>7, <1>8

(* execute: a child is appended to the chain of its terminal, or nothing    *)
(* changes.                                                                 *)
LEMMA SafeExec ==
    ASSUME TypeInv, TypeInv', SafeInv, CountOK, NEW t \in Terms,
           ExecZero(t) \/ ExecSpawn(t)
    PROVE  SafeInv'
<1>1. t = cur_sched_term /\ cur_sched_term' = t
  BY DEF ExecZero, ExecSpawn, At, sched
<1>2. /\ ContextOK(t) /\ LeafOK(t) /\ CpuOK
      /\ Leaf(t) \in Pids /\ ks[t] \in Pids /\ sched_pid[t] \in Pids
  BY <1>1, Running
<1>3. /\ pc \in [Terms -> PcLabels] /\ ks \in [Terms -> Pids]
      /\ frame \in [Pids -> Frames] /\ sched_pid \in [Terms -> Pids]
  BY DEF TypeInv, TypeOK
<1>4. CASE ExecZero(t)
  <2>1. process_num # 0
    BY <1>1, <1>4, CountPositive DEF ExecZero, At
  <2>2. /\ pc[t] = "zero" /\ wild' = "none" /\ pc' = [pc EXCEPT ![t] = "body"]
        /\ UNCHANGED <<process_array, process_num, tmp, sched_pid, pcb, tss_esp0, ks, frame>>
    BY <1>4, <2>1 DEF ExecZero, At, Goto, tree, cpu
  <2>3. ContextOK(t)' /\ CpuOK' /\ Leaf(t)' = Leaf(t)
    BY <1>1, <1>2, <1>3, <2>2 DEF ContextOK, CpuOK, Leaf
  <2> QED
    BY <1>1, <1>2, <1>3, <2>2, <2>3, QuietStep DEF Window
<1>5. CASE ExecSpawn(t)
  <2>1. PICK c \in Pids :
           /\ process_array[c] = -1
           /\ process_array' = [process_array EXCEPT ![c] = 1]
           /\ pcb' = [pcb EXCEPT ![c] = [parent_pid |-> sched_pid[t],
                                         parent_ebp |-> ks[t]]]
           /\ sched_pid' = [sched_pid EXCEPT ![t] = c]
           /\ tss_esp0' = c
           /\ frame' = [frame EXCEPT ![ks[t]] = Awaiting(t, c)]
    BY <1>5 DEF ExecSpawn, FreeSlot, NewPcb
  <2>2. /\ pc[t] = "body" /\ pc' = [pc EXCEPT ![t] = "cs"] /\ wild' = "none"
        /\ UNCHANGED <<tmp, ks>>
    BY <1>5 DEF ExecSpawn, At, Goto
  <2>3. PICK l \in Pids : l = Leaf(t) /\ l = ks[t] /\ l = sched_pid[t]
    BY <1>2, <2>2 DEF ContextOK, Leaf
  <2>4. process_array[l] = 1 /\ ~Alive(c)
    <3>1. pc[cur_sched_term] \notin Window.freed
      BY <1>1, <2>2 DEF Window
    <3> QED
      BY <1>2, <2>1, <2>3, <3>1 DEF LeafOK, Alive
  <2>5. \A p \in Pids : Alive(p)' <=> (Alive(p) \/ p = c)
    <3>1. pc[t] \notin Window.freed /\ pc'[t] \notin Window.freed
      BY <1>3, <2>2 DEF Window
    <3>2. \A p \in Pids : process_array'[p] = IF p = c THEN 1 ELSE process_array[p]
      BY <2>1 DEF TypeInv, TypeOK
    <3> QED
      BY <1>1, <3>1, <3>2 DEF Alive
  <2>6. Leaf(t)' = c /\ \A u \in Terms : u # t => Leaf(u)' = Leaf(u)
    BY <1>3, <2>1, <2>2 DEF Leaf
  <2>7. Chains'
    <3>1. /\ pcb' = [pcb EXCEPT ![c] = [parent_pid |-> l, parent_ebp |-> l]]
          /\ frame' = [frame EXCEPT ![l] = Awaiting(t, c)]
      BY <2>1, <2>3
    <3>2. Chains
      BY DEF SafeInv
    <3> QED
      BY <2>1, <2>3, <2>4, <2>5, <2>6, <3>1, <3>2, ChainsPush
  <2>8. ContextOK(t)'
    BY <1>2, <1>3, <2>1, <2>2 DEF ContextOK
  <2>9. CpuOK'
    BY <1>1, <1>3, <2>1, <2>2 DEF CpuOK
  <2>10. \A s \in Pids : s # Leaf(t) => frame'[s] = frame[s]
    BY <1>3, <2>1, <2>3
  <2> QED
    BY <1>1, <1>3, <2>1, <2>2, <2>7, <2>8, <2>9, <2>10, RunningStep DEF Window
<1> QED
  BY <1>4, <1>5

(* halt up to the jump to the parent: the process leaves its slot and       *)
(* scheduler entry.                                                         *)
LEMMA SafeHalt ==
    ASSUME TypeInv, TypeInv', SafeInv, NEW t \in Terms,
           \/ HaltBegin(t) \/ HaltLoad(t) \/ HaltStore(t) \/ HaltFree(t)
           \/ HaltTss(t) \/ HaltSched(t) \/ HaltPage(t)
    PROVE  SafeInv'
<1>1. t = cur_sched_term /\ cur_sched_term' = t /\ wild' = "none"
  BY DEF HaltBegin, HaltLoad, HaltStore, HaltFree, HaltTss, HaltSched, HaltPage, At, sched
<1>2. /\ ContextOK(t) /\ LeafOK(t) /\ CpuOK
      /\ Leaf(t) \in Pids /\ ks[t] \in Pids /\ sched_pid[t] \in Pids
  BY <1>1, Running
<1>3. /\ pc \in [Terms -> PcLabels] /\ ks \in [Terms -> Pids]
      /\ frame \in [Pids -> Frames] /\ sched_pid \in [Terms -> Pids]
  BY DEF TypeInv, TypeOK
<1>4. CASE HaltBegin(t)
  <2>1. /\ pc[t] = "sys"
        /\ \E l \in {"cs", "h_load"} : pc' = [pc EXCEPT ![t] = l]
        /\ UNCHANGED <<process_array, process_num, tmp, sched_pid, pcb, tss_esp0, ks, frame>>
    BY <1>4 DEF HaltBegin, At, Goto, count, tree, cpu
  <2>2. ContextOK(t)' /\ CpuOK' /\ Leaf(t)' = Leaf(t)
    BY <1>1, <1>2, <1>3, <2>1 DEF ContextOK, CpuOK, Leaf
  <2> QED
    BY <1>1, <1>2, <1>3, <2>1, <2>2, QuietStep DEF Window
<1>5. CASE HaltLoad(t)
  <2>1. /\ pc[t] = "h_load" /\ pc' = [pc EXCEPT ![t] = "h_store"]
        /\ tmp' = [tmp EXCEPT ![t] = process_num]
        /\ UNCHANGED <<process_array, process_num, sched_pid, pcb, tss_esp0, ks, frame>>
    BY <1>5 DEF HaltLoad, At, Goto, tree, cpu
  <2>2. ContextOK(t)' /\ CpuOK' /\ Leaf(t)' = Leaf(t)
    BY <1>1, <1>2, <1>3, <2>1 DEF ContextOK, CpuOK, Leaf
  <2>3. tmp'[t] = process_num'
    BY <2>1 DEF TypeInv, TypeOK
  <2> QED
    BY <1>1, <1>2, <1>3, <2>1, <2>2, <2>3, QuietStep DEF Window
<1>6. CASE HaltStore(t)
  <2>1. /\ pc[t] = "h_store" /\ pc' = [pc EXCEPT ![t] = "h_free"]
        /\ UNCHANGED <<process_array, sched_pid, pcb, tss_esp0, ks, frame>>
    BY <1>6 DEF HaltStore, At, Goto, tree, cpu
  <2>2. ContextOK(t)' /\ CpuOK' /\ Leaf(t)' = Leaf(t)
    BY <1>1, <1>2, <1>3, <2>1 DEF ContextOK, CpuOK, Leaf
  <2> QED
    BY <1>1, <1>2, <1>3, <2>1, <2>2, QuietStep DEF Window
<1>7. CASE HaltFree(t)
  <2>1. /\ pc[t] = "h_free" /\ pc' = [pc EXCEPT ![t] = "h_tss"]
        /\ process_array' = [process_array EXCEPT ![ks[t]] = -1]
        /\ UNCHANGED <<process_num, tmp, sched_pid, pcb, tss_esp0, ks, frame>>
    BY <1>7 DEF HaltFree, At, Goto, tree, cpu
  <2>2. ContextOK(t)' /\ CpuOK'
    BY <1>1, <1>2, <1>3, <2>1 DEF ContextOK, CpuOK
  <2>3. ks[t] = Leaf(t) /\ \A u \in Terms : Leaf(u)' = Leaf(u)
    BY <1>2, <1>3, <2>1 DEF Leaf, ContextOK
  <2>4. ks[t] > SHELL_NUM /\ frame[ks[t]].child = 0
    BY <1>2, <2>1, <2>3 DEF TypeInv, HaltPc, LeafOK
  <2>5. \A p \in Pids : process_array'[p] = IF p = ks[t] THEN -1 ELSE process_array[p]
    BY <2>1 DEF TypeInv, TypeOK
  <2>6. \A p \in Pids : Alive(p)' <=> Alive(p)
    <3>1. pc[t] \notin Window.freed /\ pc'[t] \in Window.freed
      BY <1>3, <2>1 DEF Window
    <3>2. process_array[ks[t]] = 1
      BY <1>1, <1>2, <2>3, <3>1 DEF LeafOK, Alive
    <3> QED
      BY <1>1, <2>1, <2>5, <3>1, <3>2 DEF Alive
  <2>7. Chains
    BY DEF SafeInv
  <2>8. Chains'
    BY <2>1, <2>3, <2>4, <2>5, <2>6, <2>7, ChainsKept
  <2> QED
    BY <1>1, <1>2, <1>3, <2>1, <2>2, <2>5, <2>8, RunningStep
<1>8. CASE HaltTss(t)
  <2>1. /\ pc[t] = "h_tss" /\ pc' = [pc EXCEPT ![t] = "h_sched"]
        /\ tss_esp0' = pcb[ks[t]].parent_pid
        /\ UNCHANGED <<process_array, process_num, tmp, sched_pid, pcb, ks, frame>>
    BY <1>8 DEF HaltTss, At, Goto, cur_pcb, count, tree
  <2>2. ContextOK(t)' /\ CpuOK' /\ Leaf(t)' = Leaf(t)
    BY <1>1, <1>2, <1>3, <2>1 DEF ContextOK, CpuOK, Leaf
  <2> QED
    BY <1>1, <1>2, <1>3, <2>1, <2>2, QuietStep DEF Window
<1>9. CASE HaltSched(t)
  <2>1. /\ pc[t] = "h_sched" /\ pc' = [pc EXCEPT ![t] = "h_page"]
        /\ sched_pid' = [sched_pid EXCEPT ![t] = pcb[ks[t]].parent_pid]
        /\ UNCHANGED <<process_array, process_num, tmp, tss_esp0, pcb, ks, frame>>
    BY <1>9 DEF HaltSched, At, Goto, cur_pcb, count, cpu
  <2>2. ContextOK(t)' /\ CpuOK' /\ Leaf(t)' = Leaf(t)
    BY <1>1, <1>2, <1>3, <2>1 DEF ContextOK, CpuOK, Leaf
  <2> QED
    BY <1>1, <1>2, <1>3, <2>1, <2>2, QuietStep DEF Window
<1>10. CASE HaltPage(t)
  <2>1. /\ pc[t] = "h_page" /\ pc' = [pc EXCEPT ![t] = "h_ret"]
        /\ UNCHANGED <<process_array, process_num, tmp, tss_esp0, sched_pid, pcb, ks, frame>>
    BY <1>10 DEF HaltPage, At, Goto, count, tree
  <2>2. ContextOK(t)' /\ CpuOK' /\ Leaf(t)' = Leaf(t)
    BY <1>1, <1>2, <1>3, <2>1 DEF ContextOK, CpuOK, Leaf
  <2> QED
    BY <1>1, <1>2, <1>3, <2>1, <2>2, QuietStep DEF Window
<1> QED
  BY <1>4, <1>5, <1>6, <1>7, <1>8, <1>9, <1>10

(* The end c of the chain of t returns to its parent: the frame is there,   *)
(* and the chain is one shorter.                                            *)
LEMMA SafeReturn ==
    ASSUME TypeInv, TypeInv', SafeInv, UNCHANGED pcb,
           NEW t \in Terms, t = cur_sched_term, cur_sched_term' = t, wild = "none",
           NEW c \in Pids, c = Leaf(t), c > SHELL_NUM,
           NEW stacks, stacks = frame \/ stacks = [frame EXCEPT ![c] = Live(t)],
           ReturnToParent(t, c, stacks),
           \A p \in Pids : p # c => process_array'[p] = process_array[p],
           process_array'[c] # 1,
           pc[t] \in Window.freed => ks[t] = c,
           sched_pid' = [sched_pid EXCEPT ![t] = pcb[c].parent_pid],
           tss_esp0' = pcb[c].parent_pid
    PROVE  /\ SafeInv'
           /\ pc' = [pc EXCEPT ![t] = "ret"]
<1>1. PICK q : q = pcb[c].parent_pid
  OBVIOUS
<1>2. Chains
  BY DEF SafeInv
<1>3. q \in Pids /\ q # c /\ pcb[c].parent_ebp = q /\ frame[q] = Awaiting(t, c)
  BY <1>1, <1>2, ParentOfLeaf
<1>4. /\ pc \in [Terms -> PcLabels] /\ ks \in [Terms -> Pids]
      /\ frame \in [Pids -> Frames] /\ sched_pid \in [Terms -> Pids]
  BY DEF TypeInv, TypeOK
<1>5. stacks[q] = Awaiting(t, c)
  BY <1>3, <1>4
<1>6. /\ frame' = [stacks EXCEPT ![q] = Live(t), ![c] = NoFrame]
      /\ ks' = [ks EXCEPT ![t] = q]
      /\ pc' = [pc EXCEPT ![t] = "ret"]
      /\ wild' = wild
  BY <1>3, <1>5 DEF ReturnToParent, Goto
<1>7. frame' = [frame EXCEPT ![q] = Live(t), ![c] = NoFrame]
  BY <1>3, <1>4, <1>6
<1>8. \A p \in Pids : Alive(p)' <=> (Alive(p) /\ p # c)
  BY <1>4, <1>6 DEF Alive, Window
<1>9. Leaf(t)' = q /\ \A u \in Terms : u # t => Leaf(u)' = Leaf(u)
  BY <1>1, <1>4, <1>6 DEF Leaf
<1>10. Chains'
  <2>1. /\ frame'[q] = Live(t) /\ frame'[c] = NoFrame
        /\ \A p \in Pids : p # q /\ p # c => frame'[p] = frame[p]
    BY <1>3, <1>4, <1>7
  <2>2. q \in Pids
    BY <1>3
  <2> QED
    BY <1>1, <1>2, <1>8, <1>9, <2>1, <2>2, ChainsPop
<1>11. ContextOK(t)'
  <2>1. frame'[q] = Live(t)
    BY <1>3, <1>4, <1>7
  <2> QED
    BY <1>1, <1>4, <1>6, <2>1 DEF ContextOK
<1>12. CpuOK'
  BY <1>1, <1>4, <1>6 DEF CpuOK
<1>13. \A s \in Pids : s # Leaf(t) /\ frame[s].term # t => frame'[s] = frame[s]
  BY <1>3, <1>4, <1>7 DEF Awaiting
<1>14. SafeInv'
  BY <1>4, <1>6, <1>10, <1>11, <1>12, <1>13, RunningStep DEF Window
<1> QED
  BY <1>6, <1>14

(* The end of halt finds the frame of the parent execute.                   *)
LEMMA SafeHaltReturn ==
    ASSUME TypeInv, TypeInv', SafeInv, NEW t \in Terms, HaltReturn(t)
    PROVE  /\ SafeInv'
           /\ pc' = [pc EXCEPT ![t] = "ret"]
<1>1. /\ t = cur_sched_term /\ cur_sched_term' = t /\ wild = "none" /\ pc[t] = "h_ret"
      /\ ReturnToParent(t, ks[t], frame)
      /\ UNCHANGED <<process_array, sched_pid, pcb, tss_esp0>>
  BY DEF HaltReturn, At, count, tree, cpu, sched
<1>2. /\ ContextOK(t) /\ LeafOK(t) /\ CpuOK /\ ks[t] \in Pids
  BY <1>1, Running
<1>3. ks[t] = Leaf(t) /\ ks[t] > SHELL_NUM
  BY <1>1 DEF Leaf, TypeInv, HaltPc
<1>4. sched_pid[t] = pcb[ks[t]].parent_pid /\ tss_esp0 = sched_pid[t]
  BY <1>1, <1>2 DEF ContextOK, CpuOK
<1>5. sched_pid' = [sched_pid EXCEPT ![t] = pcb[ks[t]].parent_pid]
  BY <1>1, <1>4 DEF TypeInv, TypeOK
<1>6. process_array[ks[t]] # 1
  BY <1>1 DEF SafeInv, WindowsOK, Window
<1> QED
  BY <1>1, <1>2, <1>3, <1>4, <1>5, <1>6, SafeReturn

(* A fault (EXCEPTION_MAKER) tears the process down and returns to the      *)
(* parent.                                                                  *)
LEMMA SafeException ==
    ASSUME TypeInv, TypeInv', SafeInv, NEW t \in Terms, Exception(t)
    PROVE  /\ SafeInv'
           /\ pc' = [pc EXCEPT ![t] = "ret"]
           /\ pc[t] \in {"user", "body"}
           /\ \E c \in Pids :
                /\ process_array[c] = 1
                /\ process_array' = [process_array EXCEPT ![c] = -1]
<1>1. PICK c : c = ExceptionStack(t)
  OBVIOUS
<1>2. /\ t = cur_sched_term /\ cur_sched_term' = t /\ wild = "none"
      /\ pc[t] \in {"user", "body"}
      /\ c > SHELL_NUM
      /\ process_array' = [process_array EXCEPT ![c] = -1]
      /\ sched_pid' = [sched_pid EXCEPT ![t] = pcb[c].parent_pid]
      /\ tss_esp0' = pcb[c].parent_pid
      /\ ReturnToParent(t, c, [frame EXCEPT ![c] = Live(t)])
      /\ UNCHANGED pcb
  BY <1>1 DEF Exception, At, sched
<1>3. /\ ContextOK(t) /\ LeafOK(t) /\ CpuOK /\ Leaf(t) \in Pids
  BY <1>2, Running
<1>4. c = Leaf(t) /\ c \in Pids
  BY <1>1, <1>2, <1>3 DEF ExceptionStack, ContextOK, CpuOK, Leaf
<1>5. pc[t] \notin Window.freed
  BY <1>2 DEF Window
<1>6. process_array[c] = 1
  BY <1>2, <1>3, <1>4, <1>5 DEF LeafOK, Alive
<1>7. process_array'[c] = -1 /\ \A p \in Pids : p # c => process_array'[p] = process_array[p]
  BY <1>2, <1>4 DEF TypeInv, TypeOK
<1>8. process_array'[c] # 1
  BY <1>7
<1>9. PICK stacks : stacks = [frame EXCEPT ![c] = Live(t)] /\ ReturnToParent(t, c, stacks)
  BY <1>2
<1>10. SafeInv' /\ pc' = [pc EXCEPT ![t] = "ret"]
  BY <1>2, <1>4, <1>5, <1>7, <1>8, <1>9, SafeReturn
<1> QED
  BY <1>2, <1>4, <1>6, <1>10

(* A PIT tick outside the windows saves one context and resumes another     *)
(* intact one; the chains are not touched.                                  *)
LEMMA SafeTick ==
    ASSUME TypeInv, TypeInv', SafeInv, Tick,
           pc[cur_sched_term] \notin {"h_store"} \cup Window.freed
    PROVE  /\ SafeInv'
           /\ \A u \in Terms : pc'[u] = "h_free" <=> pc[u] = "h_free"
           /\ \A u \in Terms : Leaf(u)' = Leaf(u)
           /\ \A s \in Pids : Alive(s)' <=> Alive(s)
           /\ \A s \in Pids : /\ frame'[s].child = frame[s].child
                              /\ frame[s].child # 0 => frame'[s] = frame[s]
<1>1. PICK p \in Terms : p = cur_sched_term
  BY DEF TypeInv, TypeOK
<1>2. PICK n \in Terms : n = NextTerm(p)
  BY TermFacts
<1>3. PICK stacks : stacks = IF pc[p] = "user" THEN [frame EXCEPT ![tss_esp0] = Live(p)]
                                               ELSE frame
  OBVIOUS
<1>4. /\ wild = "none"
      /\ ks' = [ks EXCEPT ![p] = IF pc[p] = "user" THEN tss_esp0 ELSE @]
      /\ cur_sched_term' = n
      /\ tss_esp0' = sched_pid[n]
      /\ Resume(n, stacks)
      /\ UNCHANGED <<process_array, process_num, tmp, sched_pid, pcb>>
  BY <1>1, <1>2, <1>3 DEF Tick, ProcessOf, count, tree
<1>5. /\ pc \in [Terms -> PcLabels] /\ ks \in [Terms -> Pids]
      /\ frame \in [Pids -> Frames] /\ sched_pid \in [Terms -> Pids]
  BY DEF TypeInv, TypeOK
<1>6. /\ ContextOK(p) /\ LeafOK(p) /\ CpuOK
      /\ Leaf(p) \in Pids /\ ks[p] \in Pids /\ sched_pid[p] \in Pids
  BY <1>1, Running
<1>7. \A u \in Terms : pc[u] \notin {"h_store"} \cup Window.freed
  BY <1>1 DEF SafeInv, WindowsOK
<1>8. \A u \in Terms : Leaf(u) = sched_pid[u]
  BY <1>7 DEF Leaf, Window
<1>9. pc[p] = "user" => tss_esp0 = Leaf(p)
  BY <1>1, <1>6, <1>8 DEF CpuOK
<1>10. /\ \A s \in Pids : s # Leaf(p) => stacks[s] = frame[s]
       /\ stacks \in [Pids -> Frames]
       /\ stacks[Leaf(p)].child = 0
       /\ \A s \in Pids : frame[s].child # 0 => stacks[s] = frame[s]
  BY <1>3, <1>5, <1>6, <1>9, FrameTypes DEF LeafOK, Live
<1>11. /\ pc[p] = "user" => ks'[p] = sched_pid[p] /\ stacks[ks'[p]] = Live(p)
       /\ pc[p] # "user" => ks'[p] = ks[p] /\ stacks = frame
       /\ \A u \in Terms : u # p => ks'[u] = ks[u]
  BY <1>3, <1>4, <1>5, <1>6, <1>8, <1>9
(* The context of every terminal that has one, once the tick has saved p's. *)
<1>12. ASSUME NEW u \in Terms, pc[u] # "new"
       PROVE  /\ stacks[ks'[u]].term = u
              /\ ks'[u] \in Pids
              /\ \/ ks'[u] = Leaf(u) /\ stacks[ks'[u]] = Live(u)
                 \/ /\ pc[u] = "cs" /\ stacks[ks'[u]] = Awaiting(u, sched_pid[u])
                    /\ stacks[ks'[u]].child # 0
  <2>1. CASE u = p /\ pc[u] = "user"
    BY <1>6, <1>8, <1>11, <2>1 DEF Live
  <2>2. CASE u = p /\ pc[u] # "user"
    <3>1. \/ ks[u] = sched_pid[u] /\ frame[ks[u]] = Live(u)
          \/ pc[u] = "cs" /\ frame[ks[u]] = Awaiting(u, sched_pid[u])
      BY <1>5, <1>6, <1>7, <1>12, <2>2 DEF ContextOK, PcLabels, HaltPc, ExecPc, Window
    <3> QED
      BY <1>6, <1>8, <1>11, <2>2, <3>1 DEF Live, Awaiting, Pids
  <2>3. CASE u # p
    <3>1. /\ ks[u] \in Pids
          /\ frame[ks[u]].term = u
          /\ ks[u] = Leaf(u) \/ (pc[u] = "cs" /\ frame[ks[u]].child # 0)
      BY <1>1, <1>12, <2>3, ContextFrame
    <3>2. Leaf(u) # Leaf(p)
      BY <2>3, LeavesDiffer DEF SafeInv
    <3>3. stacks[ks'[u]] = frame[ks[u]] /\ ks'[u] = ks[u]
      BY <1>10, <1>11, <2>3, <3>1, <3>2
    <3>4. ContextOK(u)
      BY DEF SafeInv
    <3>5. \/ ks[u] = sched_pid[u] /\ frame[ks[u]] = Live(u)
          \/ pc[u] = "cs" /\ frame[ks[u]] = Awaiting(u, sched_pid[u])
      BY <1>1, <1>5, <1>7, <1>12, <2>3, <3>4 DEF ContextOK, PcLabels, HaltPc, ExecPc, Window
    <3>6. sched_pid[u] \in Pids
      BY <1>5
    <3> QED
      BY <1>8, <3>1, <3>3, <3>5, <3>6 DEF Awaiting, Pids
  <2> QED
    BY <2>1, <2>2, <2>3
<1>13. /\ wild' = "none"
       /\ pc' = [pc EXCEPT ![n] = IF @ = "new" THEN "user" ELSE @]
       /\ \/ frame' = stacks
          \/ pc[n] = "user" /\ frame' = [stacks EXCEPT ![ks'[n]] = NoFrame]
  BY <1>4, <1>5, <1>12 DEF Resume, Goto
<1>14. /\ pc'[n] # "new"
       /\ \A u \in Terms : pc'[u] = pc[u] \/ (u = n /\ pc[u] = "new" /\ pc'[u] = "user")
       /\ \A u \in Terms : pc'[u] \notin {"h_store"} \cup Window.freed
  BY <1>5, <1>7, <1>13 DEF Window
<1>15. ASSUME NEW s \in Pids
       PROVE  /\ frame'[s].child = frame[s].child
              /\ frame[s].child # 0 => frame'[s] = frame[s]
  <2>1. frame[Leaf(p)].child = 0
    BY <1>6 DEF LeafOK
  <2>2. stacks[s].child = frame[s].child /\ (frame[s].child # 0 => stacks[s] = frame[s])
    BY <1>10, <2>1
  <2>3. CASE frame' = stacks
    BY <2>2, <2>3
  <2>4. CASE pc[n] = "user" /\ frame' = [stacks EXCEPT ![ks'[n]] = NoFrame]
    <3>1. ks'[n] \in Pids /\ stacks[ks'[n]] = Live(n)
      BY <1>12, <2>4
    <3>2. stacks[ks'[n]].child = 0 /\ NoFrame.child = 0
      BY <3>1 DEF Live, NoFrame
    <3> QED
      BY <1>10, <2>2, <2>4, <3>1, <3>2
  <2> QED
    BY <1>13, <2>3, <2>4
<1>16. \A u \in Terms : Leaf(u)' = Leaf(u)
  BY <1>4, <1>8, <1>14 DEF Leaf, Window
<1>17. \A s \in Pids : Alive(s)' <=> Alive(s)
  BY <1>1, <1>2, <1>4, <1>7, <1>14 DEF Alive
<1>18. Chains'
  <2>1. Chains
    BY DEF SafeInv
  <2> QED
    BY <1>4, <1>15, <1>16, <1>17, <2>1, ChainsKept
<1>19. ASSUME NEW u \in Terms PROVE ContextOK(u)'
  <2>1. CASE u = n /\ pc[n] \in {"new", "user"}
    <3>1. pc'[u] = "user" /\ u = cur_sched_term'
      BY <1>4, <1>14, <2>1
    <3> QED
      BY <3>1 DEF ContextOK
  <2>2. CASE u = n /\ pc[n] \notin {"new", "user"}
    <3>1. frame' = stacks /\ pc'[u] = pc[u]
      BY <1>13, <1>14, <2>2
    <3> QED
      BY <1>4, <1>7, <1>8, <1>12, <2>2, <3>1 DEF ContextOK, Window
  <2>3. CASE u # n
    <3>1. pc'[u] = pc[u]
      BY <1>14, <2>3
    <3>2. CASE pc[u] = "new"
      BY <3>1, <3>2 DEF ContextOK
    <3>3. CASE pc[u] # "new"
      <4>1. frame'[ks'[u]] = stacks[ks'[u]]
        <5>1. CASE frame' = stacks
          BY <5>1
        <5>2. CASE pc[n] = "user" /\ frame' = [stacks EXCEPT ![ks'[n]] = NoFrame]
          <6>1. stacks[ks'[n]].term = n /\ stacks[ks'[u]].term = u /\ ks'[u] \in Pids
            BY <1>12, <3>3, <5>2
          <6> QED
            BY <1>10, <2>3, <5>2, <6>1
        <5> QED
          BY <1>13, <5>1, <5>2
      <4> QED
        BY <1>4, <1>7, <1>8, <1>12, <3>1, <3>3, <4>1 DEF ContextOK, Window
    <3> QED
      BY <3>2, <3>3
  <2> QED
    BY <2>1, <2>2, <2>3
<1>20. CpuOK'
  BY <1>4, <1>5, <1>14 DEF CpuOK, Window
<1>21. WindowsOK'
  BY <1>4, <1>14 DEF WindowsOK
<1>22. SafeInv'
  BY <1>13, <1>18, <1>19, <1>20, <1>21 DEF SafeInv
<1>23. \A u \in Terms : pc'[u] = "h_free" <=> pc[u] = "h_free"
  BY <1>14
<1> QED
  BY <1>15, <1>16, <1>17, <1>22, <1>23

-----------------------------------------------------------------------------
(* The count.                                                               *)
(* The slots in use are finitely many, at most MAX_PROGS.                   *)
LEMMA UsedFinite ==
    /\ IsFiniteSet(Used)
    /\ Cardinality(Used) \in Nat
    /\ Cardinality(Pids) = MAX_PROGS /\ IsFiniteSet(Pids)
<1>1. /\ IsFiniteSet(1 .. MAX_PROGS)
      /\ Cardinality(1 .. MAX_PROGS) = IF 1 > MAX_PROGS THEN 0 ELSE MAX_PROGS - 1 + 1
  BY FS_Interval
<1>2. IsFiniteSet(Pids) /\ Cardinality(Pids) = MAX_PROGS
  BY <1>1 DEF Pids
<1>3. IsFiniteSet(Used)
  BY <1>2, FS_Subset DEF Used
<1> QED
  BY <1>2, <1>3, FS_CardinalityType

(* The terminals between the two statements of a halt are finitely many.    *)
LEMMA HaltingFinite ==
    LET H == {t \in Terms : pc[t] = "h_free"}
    IN  IsFiniteSet(H) /\ Cardinality(H) \in Nat
<1>1. IsFiniteSet(Terms)
  BY FS_Interval DEF Terms
<1>2. IsFiniteSet({t \in Terms : pc[t] = "h_free"})
  BY <1>1, FS_Subset
<1> QED
  BY <1>2, FS_CardinalityType

(* Neither the slots nor the halts in progress change.                      *)
LEMMA CountKeeps ==
    ASSUME CountOK, UNCHANGED <<process_array, process_num>>,
           \A u \in Terms : pc'[u] = "h_free" <=> pc[u] = "h_free"
    PROVE  CountOK'
<1>1. Used' = Used
  BY DEF Used
<1>2. {u \in Terms : pc'[u] = "h_free"} = {u \in Terms : pc[u] = "h_free"}
  OBVIOUS
<1> QED
  BY <1>1, <1>2 DEF CountOK

(* One slot more and one more in the count, or one less of both.            *)
LEMMA CountBoth ==
    ASSUME TypeInv, CountOK, NEW c \in Pids,
           \/ /\ process_array[c] = -1
              /\ process_array' = [process_array EXCEPT ![c] = 1]
              /\ process_num' = process_num + 1
           \/ /\ process_array[c] = 1
              /\ process_array' = [process_array EXCEPT ![c] = -1]
              /\ process_num' = process_num - 1,
           \A u \in Terms : pc'[u] = "h_free" <=> pc[u] = "h_free"
    PROVE  CountOK'
<1> DEFINE H == {u \in Terms : pc[u] = "h_free"}
<1>1. {u \in Terms : pc'[u] = "h_free"} = H
  OBVIOUS
<1>2. /\ Cardinality(H) \in Nat /\ Cardinality(Used) \in Nat /\ process_num \in Int
      /\ process_num + Cardinality(H) = Cardinality(Used)
  BY HaltingFinite, UsedFinite DEF CountOK, TypeInv, TypeOK
<1>3. CASE /\ process_array[c] = -1
           /\ process_array' = [process_array EXCEPT ![c] = 1]
           /\ process_num' = process_num + 1
  <2>1. Used' = Used \cup {c} /\ c \notin Used
    BY <1>3 DEF Used, TypeInv, TypeOK
  <2>2. Cardinality(Used \cup {c}) = Cardinality(Used) + 1
    BY <2>1, UsedFinite, FS_AddElement
  <2>3. Cardinality(Used') = Cardinality(Used) + 1
    BY <2>1, <2>2
  <2> HIDE DEF H
  <2>4. process_num' + Cardinality(H) = Cardinality(Used')
    BY <1>2, <1>3, <2>3
  <2> QED
    BY <1>1, <2>4 DEF CountOK
<1>4. CASE /\ process_array[c] = 1
           /\ process_array' = [process_array EXCEPT ![c] = -1]
           /\ process_num' = process_num - 1
  <2>1. Used' = Used \ {c} /\ c \in Used
    BY <1>4 DEF Used, TypeInv, TypeOK
  <2>2. Cardinality(Used \ {c}) = Cardinality(Used) - 1
    BY <2>1, UsedFinite, FS_RemoveElement
  <2>3. Cardinality(Used') = Cardinality(Used) - 1
    BY <2>1, <2>2
  <2> HIDE DEF H
  <2>4. process_num' + Cardinality(H) = Cardinality(Used')
    BY <1>2, <1>4, <2>3
  <2> QED
    BY <1>1, <2>4 DEF CountOK
<1> QED
  BY <1>3, <1>4

(* halt: the store takes 1 off the count, the release follows.              *)
LEMMA CountHalt ==
    ASSUME TypeInv, TypeInv', SafeInv, CountOK, NEW t \in Terms,
           HaltStore(t) \/ HaltFree(t)
    PROVE  CountOK'
<1> DEFINE H == {u \in Terms : pc[u] = "h_free"}
<1>1. /\ Cardinality(H) \in Nat /\ IsFiniteSet(H)
      /\ Cardinality(Used) \in Nat /\ process_num \in Int
      /\ process_num + Cardinality(H) = Cardinality(Used)
  BY HaltingFinite, UsedFinite DEF CountOK, TypeInv, TypeOK
<1>2. pc \in [Terms -> PcLabels] /\ process_array \in [Pids -> {-1, 1}]
  BY DEF TypeInv, TypeOK
<1>3. CASE HaltStore(t)
  <2>1. /\ pc[t] = "h_store" /\ pc' = [pc EXCEPT ![t] = "h_free"]
        /\ process_num' = process_num - 1
        /\ process_array' = process_array
    BY <1>3 DEF HaltStore, At, Goto, SafeInv, WindowsOK
  <2>2. {u \in Terms : pc'[u] = "h_free"} = H \cup {t} /\ t \notin H
    BY <1>2, <2>1
  <2>3. Cardinality(H \cup {t}) = Cardinality(H) + 1
    BY <1>1, <2>2, FS_AddElement
  <2>4. Used' = Used
    BY <2>1 DEF Used
  <2> HIDE DEF H
  <2>5. process_num' + Cardinality(H \cup {t}) = Cardinality(Used)
    BY <1>1, <2>1, <2>3
  <2> QED
    BY <2>2, <2>4, <2>5 DEF CountOK
<1>4. CASE HaltFree(t)
  <2>1. /\ t = cur_sched_term /\ pc[t] = "h_free" /\ pc' = [pc EXCEPT ![t] = "h_tss"]
        /\ process_num' = process_num
        /\ process_array' = [process_array EXCEPT ![ks[t]] = -1]
    BY <1>4 DEF HaltFree, At, Goto
  <2>2. ks[t] \in Pids /\ process_array[ks[t]] = 1
    <3>1. ContextOK(t) /\ LeafOK(t) /\ ks[t] \in Pids
      BY <2>1, Running
    <3>2. ks[t] = Leaf(t) /\ pc[cur_sched_term] \notin Window.freed
      BY <2>1, <3>1 DEF ContextOK, Leaf, Window
    <3> QED
      BY <3>1, <3>2 DEF LeafOK, Alive
  <2>3. {u \in Terms : pc'[u] = "h_free"} = H \ {t} /\ t \in H
    BY <1>2, <2>1
  <2>4. Cardinality(H \ {t}) = Cardinality(H) - 1
    BY <1>1, <2>3, FS_RemoveElement
  <2>5. Used' = Used \ {ks[t]} /\ ks[t] \in Used
    BY <1>2, <2>1, <2>2 DEF Used
  <2>6. Cardinality(Used \ {ks[t]}) = Cardinality(Used) - 1
    BY <2>5, UsedFinite, FS_RemoveElement
  <2> HIDE DEF H
  <2>7. process_num' + Cardinality(H \ {t}) = Cardinality(Used')
    BY <1>1, <2>1, <2>4, <2>5, <2>6
  <2> QED
    BY <2>3, <2>7 DEF CountOK
<1> QED
  BY <1>3, <1>4

-----------------------------------------------------------------------------
(* Every step without a tick in "dec" or "freed" keeps chains, contexts and *)
(* count.                                                                   *)
LEMMA SafeStep ==
    ASSUME TypeInv, TypeInv', SafeInv, CountOK, [Next]_vars, Undisturbed'
    PROVE  SafeInv' /\ CountOK'
<1>1. CASE UNCHANGED vars
  <2>1. SafeInv'
    BY <1>1 DEF SafeInv, Chains, LeafOK, WaitingOK, ChildOK, EndOK, Alive, Leaf, Owner,
       ContextOK, CpuOK, WindowsOK, vars, count, tree, cpu, thread, sched
  <2> QED
    BY <1>1, <2>1, CountKeeps DEF vars, count, thread
<1>2. ASSUME NEW t \in Terms,
             \/ SyscallEntry(t) \/ OtherSyscall(t) \/ SyscallReturn(t)
             \/ ContextSwitch(t) \/ ExecLimit(t) \/ ExecFail(t) \/ ExecNoSlot(t)
      PROVE  SafeInv' /\ CountOK'
  <2>1. /\ UNCHANGED <<process_array, process_num>>
        /\ \A u \in Terms : pc'[u] = "h_free" <=> pc[u] = "h_free"
    BY <1>2 DEF SyscallEntry, OtherSyscall, SyscallReturn, ContextSwitch, ExecLimit,
       ExecFail, ExecNoSlot, At, Goto, count, TypeInv, TypeOK
  <2> QED
    BY <1>2, <2>1, SafeSyscall, CountKeeps
<1>3. ASSUME NEW t \in Terms, ExecZero(t) PROVE SafeInv' /\ CountOK'
  <2>1. process_num # 0
    BY <1>3, CountPositive DEF ExecZero, At
  <2>2. /\ UNCHANGED <<process_array, process_num>>
        /\ \A u \in Terms : pc'[u] = "h_free" <=> pc[u] = "h_free"
    BY <1>3, <2>1 DEF ExecZero, At, Goto, TypeInv, TypeOK
  <2> QED
    BY <1>3, <2>2, SafeExec, CountKeeps
<1>4. ASSUME NEW t \in Terms, ExecSpawn(t) PROVE SafeInv' /\ CountOK'
  <2>1. PICK c \in Pids :
           /\ process_array[c] = -1
           /\ process_array' = [process_array EXCEPT ![c] = 1]
           /\ process_num' = process_num + 1
    BY <1>4 DEF ExecSpawn, FreeSlot
  <2>2. \A u \in Terms : pc'[u] = "h_free" <=> pc[u] = "h_free"
    BY <1>4 DEF ExecSpawn, At, Goto, TypeInv, TypeOK
  <2> QED
    BY <1>4, <2>1, <2>2, SafeExec, CountBoth
<1>5. ASSUME NEW t \in Terms,
             \/ HaltBegin(t) \/ HaltLoad(t) \/ HaltTss(t) \/ HaltSched(t) \/ HaltPage(t)
      PROVE  SafeInv' /\ CountOK'
  <2>1. /\ UNCHANGED <<process_array, process_num>>
        /\ \A u \in Terms : pc'[u] = "h_free" <=> pc[u] = "h_free"
    BY <1>5 DEF HaltBegin, HaltLoad, HaltTss, HaltSched, HaltPage, At, Goto, count,
       TypeInv, TypeOK
  <2> QED
    BY <1>5, <2>1, SafeHalt, CountKeeps
<1>6. ASSUME NEW t \in Terms, HaltStore(t) \/ HaltFree(t) PROVE SafeInv' /\ CountOK'
  BY <1>6, SafeHalt, CountHalt
<1>7. ASSUME NEW t \in Terms, HaltReturn(t) PROVE SafeInv' /\ CountOK'
  <2>1. pc[t] = "h_ret" /\ UNCHANGED <<process_array, process_num>>
    BY <1>7 DEF HaltReturn, At, count
  <2>2. SafeInv' /\ pc' = [pc EXCEPT ![t] = "ret"]
    BY <1>7, SafeHaltReturn
  <2>3. \A u \in Terms : pc'[u] = "h_free" <=> pc[u] = "h_free"
    BY <2>1, <2>2 DEF TypeInv, TypeOK
  <2> QED
    BY <2>1, <2>2, <2>3, CountKeeps
<1>8. ASSUME NEW t \in Terms, Exception(t) PROVE SafeInv' /\ CountOK'
  <2>1. /\ SafeInv' /\ pc' = [pc EXCEPT ![t] = "ret"] /\ pc[t] \in {"user", "body"}
    BY <1>8, SafeException
  <2>2. PICK c \in Pids : /\ process_array[c] = 1
                          /\ process_array' = [process_array EXCEPT ![c] = -1]
    BY <1>8, SafeException
  <2>3. process_num' = process_num - 1
    BY <1>8 DEF Exception, CountAfterFault
  <2>4. \A u \in Terms : pc'[u] = "h_free" <=> pc[u] = "h_free"
    BY <2>1 DEF TypeInv, TypeOK
  <2> QED
    BY <2>1, <2>2, <2>3, <2>4, CountBoth
<1>9. ASSUME Tick PROVE SafeInv' /\ CountOK'
  <2>1. UNCHANGED <<process_array, process_num>>
    BY <1>9 DEF Tick, count
  <2> QED
    BY <1>9, <2>1, UndisturbedBefore, SafeTick, CountKeeps
<1> QED
  BY <1>1, <1>2, <1>3, <1>4, <1>5, <1>6, <1>7, <1>8, <1>9 DEF Next, KernelStep

(* With every slot taken and no halt half done, the count is MAX_PROGS.     *)
LEMMA FullCount ==
    ASSUME TypeInv, CountOK, \A p \in Pids : process_array[p] # -1,
           \A t \in Terms : pc[t] # "h_free"
    PROVE  process_num = MAX_PROGS
<1>1. Used = Pids
  BY DEF Used, TypeInv, TypeOK
<1>2. {t \in Terms : pc[t] = "h_free"} = {}
  OBVIOUS
<1>3. process_num + 0 = MAX_PROGS
  BY <1>1, <1>2, UsedFinite, FS_EmptySet DEF CountOK
<1> QED
  BY <1>3 DEF TypeInv, TypeOK

(* Without a tick in "early" or "limit" an execute past its check has a     *)
(* slot.                                                                    *)
LEMMA LimitStep ==
    ASSUME TypeInv, CountOK, LimitOK, [Next]_vars, Clean({"early", "limit"})'
    PROVE  LimitOK'
<1>1. {"early", "limit"} \in SUBSET Windows
  BY DEF Windows, Window
<1>2. Tick => pc[cur_sched_term] \notin {"h_free", "zero", "body"}
  <2>1. Window["early"] = {"h_free"} /\ Window["limit"] = {"zero", "body"}
    BY DEF Window
  <2> QED
    BY <1>1, <2>1, CleanBefore
<1>3. /\ pc \in [Terms -> PcLabels] /\ cur_sched_term \in Terms
      /\ process_num \in Int
  BY DEF TypeInv, TypeOK
<1>4. CASE UNCHANGED vars
  BY <1>4 DEF LimitOK, vars, count, thread, sched
<1>5. ASSUME NEW t \in Terms, ExecNoSlot(t) PROVE FALSE
  <2>1. /\ pc[t] = "body" /\ t = cur_sched_term
        /\ \A p \in Pids : process_array[p] # -1
    BY <1>5 DEF ExecNoSlot, At
  <2>2. \A u \in Terms : pc[u] # "h_free"
    BY <2>1 DEF LimitOK
  <2>3. process_num = MAX_PROGS
    BY <2>1, <2>2, FullCount
  <2> QED
    BY <1>3, <2>1, <2>3 DEF LimitOK
<1>6. ASSUME NEW t \in Terms,
             \/ SyscallEntry(t) \/ OtherSyscall(t) \/ SyscallReturn(t)
             \/ ContextSwitch(t) \/ ExecLimit(t) \/ ExecZero(t) \/ ExecFail(t)
             \/ HaltBegin(t) \/ HaltLoad(t) \/ HaltStore(t) \/ HaltFree(t)
             \/ HaltTss(t) \/ HaltSched(t) \/ HaltPage(t)
      PROVE  LimitOK'
  <2>1. /\ t = cur_sched_term /\ cur_sched_term' = t /\ wild' = wild
        /\ \A u \in Terms : u # t => pc'[u] = pc[u]
    BY <1>3, <1>6 DEF SyscallEntry, OtherSyscall, SyscallReturn, ContextSwitch, ExecLimit,
       ExecZero, ExecFail, HaltBegin, HaltLoad, HaltStore, HaltFree, HaltTss, HaltSched,
       HaltPage, At, Goto, sched
  <2>2. pc'[t] \in {"zero", "body"} => process_num' < MAX_PROGS
    BY <1>3, <1>6 DEF SyscallEntry, OtherSyscall, SyscallReturn, ContextSwitch, ExecLimit,
       ExecZero, ExecFail, HaltBegin, HaltLoad, HaltStore, HaltFree, HaltTss, HaltSched,
       HaltPage, At, Goto, LimitReached, LimitOK, count
  <2> QED
    BY <2>1, <2>2 DEF LimitOK
<1>7. ASSUME NEW t \in Terms, ExecSpawn(t) PROVE LimitOK'
  <2>1. /\ t = cur_sched_term /\ cur_sched_term' = t /\ wild' = wild
        /\ pc' = [pc EXCEPT ![t] = "cs"]
    BY <1>7 DEF ExecSpawn, At, Goto, sched
  <2> QED
    BY <1>3, <2>1 DEF LimitOK
<1>8. ASSUME NEW t \in Terms, HaltReturn(t) \/ Exception(t) PROVE LimitOK'
  <2>1. t = cur_sched_term /\ cur_sched_term' = t
    BY <1>8 DEF HaltReturn, Exception, At, sched
  <2>2. PICK c, stacks : ReturnToParent(t, c, stacks)
    BY <1>8 DEF HaltReturn, Exception
  <2>3. \/ wild' = wild /\ pc' = [pc EXCEPT ![t] = "ret"]
        \/ wild' = "return" /\ pc' = pc
    BY <2>2 DEF ReturnToParent, Goto
  <2>4. pc[t] \in {"zero", "body"} => process_num' < MAX_PROGS
    BY <1>3, <1>8, <2>1 DEF HaltReturn, Exception, At, CountAfterFault, LimitOK
  <2> QED
    BY <1>3, <2>1, <2>3, <2>4 DEF LimitOK
<1>9. ASSUME Tick PROVE LimitOK'
  <2>1. \A u \in Terms : pc[u] \notin {"zero", "body", "h_free"}
    BY <1>2, <1>9 DEF LimitOK
  <2>2. /\ wild' = wild \/ wild' = "resume"
        /\ \A u \in Terms : pc'[u] = pc[u] \/ pc'[u] = "user"
    BY <1>3, <1>9 DEF Tick, Resume, Goto
  <2>3. cur_sched_term' \in Terms
    BY <1>3, <1>9, TermFacts DEF Tick
  <2> QED
    BY <2>1, <2>2, <2>3 DEF LimitOK
<1> QED
  BY <1>4, <1>5, <1>6, <1>7, <1>8, <1>9 DEF Next, KernelStep

(* IndInv holds when the first shell is entered.                            *)
LEMMA IndInit == Init => IndInv
<1> SUFFICES ASSUME Init PROVE IndInv
  OBVIOUS
<1>1. TypeInv
  BY TypeInit
<1>2. /\ cur_sched_term = 0
      /\ sched_pid = [t \in Terms |-> t + 1]
      /\ ks = [t \in Terms |-> t + 1]
      /\ pc = [t \in Terms |-> IF t = 0 THEN "cs" ELSE "new"]
      /\ process_array = [p \in Pids |-> IF p <= SHELL_NUM THEN 1 ELSE -1]
      /\ process_num = SHELL_NUM
      /\ tss_esp0 = 1
      /\ frame = [p \in Pids |-> IF p = 1 THEN Live(0) ELSE NoFrame]
      /\ wild = "none"
  BY DEF Init, PitInit, LaunchInit
<1>3. /\ 0 \in Terms
      /\ \A t \in Terms : pc[t] \in {"cs", "new"} /\ sched_pid[t] = t + 1
      /\ \A p \in Pids : frame[p].child = 0
      /\ \A p \in Pids : process_array[p] = IF p <= SHELL_NUM THEN 1 ELSE -1
  BY <1>2, TermFacts DEF Live, NoFrame
<1>4. /\ \A t \in Terms : Leaf(t) = t + 1
      /\ \A p \in Pids : Alive(p) <=> p <= SHELL_NUM
  BY <1>2, <1>3 DEF Leaf, Alive, Window
<1>5. /\ \A p \in Pids : p <= SHELL_NUM => Owner(p) = p - 1 /\ p - 1 \in Terms /\ p - 1 + 1 = p
      /\ \A t \in Terms : Owner(t + 1) = t
  BY DEF Owner, Pids, Terms
<1>6. Chains
  <2>1. \A t \in Terms : process_array[t + 1] = 1 /\ LeafOK(t)
    BY <1>3, <1>4, <1>5, TermFacts DEF LeafOK
  <2>2. \A p \in Pids : WaitingOK(p) /\ ChildOK(p) /\ EndOK(p)
    BY <1>3, <1>4, <1>5, SmallPid DEF WaitingOK, ChildOK, EndOK
  <2> QED
    BY <2>1, <2>2 DEF Chains
<1>7. \A t \in Terms : ContextOK(t)
  <2>1. ks[0] = 1 /\ sched_pid[0] = 1 /\ frame[1] = Live(0)
    BY <1>2, TermFacts
  <2>2. \A t \in Terms : pc[t] = "cs" => t = 0
    BY <1>2
  <2> QED
    BY <1>3, <2>1, <2>2 DEF ContextOK
<1>8. CpuOK /\ WindowsOK
  BY <1>2, <1>3 DEF CpuOK, WindowsOK, Window
<1>9. CountOK
  <2>1. {t \in Terms : pc[t] = "h_free"} = {}
    BY <1>3
  <2>2. Used = 1 .. SHELL_NUM
    BY <1>3 DEF Used, Pids
  <2>3. Cardinality(1 .. SHELL_NUM) = IF 1 > SHELL_NUM THEN 0 ELSE SHELL_NUM - 1 + 1
    BY FS_Interval
  <2>4. Cardinality({}) = 0
    BY FS_EmptySet
  <2>5. process_num + 0 = Cardinality(Used)
    BY <1>2, <2>2, <2>3
  <2> QED
    BY <2>1, <2>4, <2>5 DEF CountOK
<1>10. LimitOK
  BY <1>2, <1>3 DEF LimitOK
<1> QED
  BY <1>1, <1>2, <1>6, <1>7, <1>8, <1>9, <1>10 DEF IndInv, SafeInv

(* IndInv is inductive.                                                     *)
LEMMA IndStep == IndInv /\ [Next]_vars => IndInv'
<1> SUFFICES ASSUME IndInv, [Next]_vars PROVE IndInv'
  OBVIOUS
<1>1. TypeInv /\ TypeInv'
  BY TypeStep DEF IndInv
<1>2. ASSUME Undisturbed' PROVE Undisturbed /\ SafeInv' /\ CountOK'
  BY <1>1, <1>2, UndisturbedBefore, SafeStep DEF IndInv
<1>3. ASSUME Undisturbed', Clean({"early", "limit"})' PROVE LimitOK'
  <2>1. {"early", "limit"} \in SUBSET Windows
    BY DEF Windows, Window
  <2>2. Undisturbed /\ Clean({"early", "limit"})
    BY <1>1, <1>2, <1>3, <2>1, CleanBefore
  <2> QED
    BY <1>1, <1>3, <2>2, LimitStep DEF IndInv
<1> QED
  BY <1>1, <1>2, <1>3 DEF IndInv

(* IndInv holds in every reachable state of every instance.                 *)
THEOREM Inductive == Spec => []IndInv
BY IndInit, IndStep, PTL DEF Spec

(* process_num equals the number of slots in use, halts between the         *)
(* decrement and the release apart, until a tick splits process_num-- or    *)
(* the end of a halt (halt, execute, EXCEPTION_MAKER).                      *)
THEOREM CountIsExact == Spec => []CountExact
<1>1. IndInv => CountExact
  BY DEF IndInv, CountOK, CountExact
<1> QED
  BY Inductive, <1>1, PTL

(* execute never runs with an uninitialised pid unless a tick hit one of    *)
(* the windows (the slot search of execute).                                *)
THEOREM SlotIsAvailable == Spec => []SlotAvailable
<1>1. IndInv => SlotAvailable
  BY DEF IndInv, LimitOK, SlotAvailable
<1> QED
  BY Inductive, <1>1, PTL

(* No resumed context and no return of halt or of an exception meets a      *)
(* kernel stack that somebody else has used (switch_process, halt,          *)
(* EXCEPTION_MAKER).                                                        *)
THEOREM ControlIsKept == Spec => []ControlKept
<1>1. IndInv => ControlKept
  BY DEF IndInv, SafeInv, ControlKept
<1> QED
  BY Inductive, <1>1, PTL

(* The processes form one chain per terminal (parent_pid, parent_ebp and    *)
(* sched_arr[].process_num, process_array).                                 *)
THEOREM ChainPerTerminal == Spec => []OneChainPerTerminal
<1>1. ASSUME IndInv, Undisturbed PROVE OneChainPerTerminal
  <2>1. TypeInv /\ SafeInv /\ Chains
    BY <1>1 DEF IndInv, SafeInv
  <2>2. 1 .. SHELL_NUM \subseteq Used
    <3>1. \A p \in 1 .. SHELL_NUM : p \in Pids /\ p - 1 \in Terms /\ (p - 1) + 1 = p
      BY DEF Pids, Terms
    <3> QED
      BY <2>1, <3>1 DEF Used, Chains
  <2>3. \A p \in Used : p \in Pids /\ Alive(p) /\ process_array[p] = 1
    BY DEF Used, Alive
  <2>4. \A p \in Used : Owner(p) \in Terms
    <3>1. \A p \in Used : frame[p].child # 0 => Owner(p) \in Terms
      BY <2>1, <2>3 DEF Chains, WaitingOK
    <3> QED
      BY <2>1, <2>3, <3>1 DEF Chains, EndOK
  <2>5. ASSUME NEW t \in Terms, ~InHaltAfterFree(t)
        PROVE  /\ sched_pid[t] \in Used
               /\ Owner(sched_pid[t]) = t
               /\ frame[sched_pid[t]].child = 0
    <3>1. Leaf(t) = sched_pid[t] /\ sched_pid[t] \in Pids /\ LeafOK(t)
      BY <2>1, <2>5 DEF Leaf, InHaltAfterFree, Window, TypeInv, TypeOK, Chains
    <3>2. process_array[sched_pid[t]] = 1
      <4>1. CASE pc[cur_sched_term] \in Window.freed /\ ks[cur_sched_term] = sched_pid[t]
        <5>1. cur_sched_term \in Terms /\ cur_sched_term # t
          BY <2>1, <2>5, <4>1 DEF InHaltAfterFree, TypeInv, TypeOK
        <5>2. ks[cur_sched_term] = Leaf(cur_sched_term)
          <6>1. ContextOK(cur_sched_term)
            BY <2>1, <5>1 DEF SafeInv
          <6> QED
            BY <4>1, <6>1 DEF ContextOK, Leaf, Window
        <5>3. Leaf(cur_sched_term) # Leaf(t)
          BY <2>1, <5>1, LeavesDiffer
        <5> QED
          BY <3>1, <4>1, <5>2, <5>3
      <4> QED
        BY <3>1, <4>1 DEF LeafOK, Alive
    <3> QED
      BY <3>1, <3>2 DEF LeafOK, Used
  <2>6. ASSUME NEW p \in Used
        PROVE  IF frame[p].child = 0
                 THEN p = sched_pid[Owner(p)] \/ InHaltAfterFree(Owner(p))
                 ELSE pcb[frame[p].child].parent_pid = p /\ frame[p].term = Owner(p)
    <3>1. CASE frame[p].child = 0
      <4>1. p = Leaf(Owner(p))
        BY <2>1, <2>3, <3>1 DEF Chains, EndOK
      <4> QED
        BY <3>1, <4>1 DEF Leaf, InHaltAfterFree, Window
    <3>2. CASE frame[p].child # 0
      BY <2>1, <2>3, <3>2 DEF Chains, WaitingOK
    <3> QED
      BY <3>1, <3>2
  <2> QED
    BY <2>2, <2>4, <2>5, <2>6 DEF OneChainPerTerminal
<1>2. IndInv => OneChainPerTerminal
  BY <1>1 DEF OneChainPerTerminal
<1> QED
  BY Inductive, <1>2, PTL

-----------------------------------------------------------------------------
(***************************************************************************)
(* What the processor holds in user mode, for all ticks but those between  *)
(* the writes of tss.esp0 and sched_arr[].process_num in halt.             *)
(***************************************************************************)

(* The frame of an execute is told from every other.                        *)
LEMMA FramesDiffer ==
    ASSUME NEW u \in Terms, NEW c \in Pids
    PROVE  /\ NoFrame # Awaiting(u, c)
           /\ \A t \in Terms : Live(t) # Awaiting(u, c)
           /\ \A t \in Terms, p \in Pids : t # u => Awaiting(t, p) # Awaiting(u, c)
<1>1. Awaiting(u, c).term = u /\ Awaiting(u, c).child = c /\ c # 0
  BY DEF Awaiting, Pids
<1>2. NoFrame.child = 0 /\ \A t \in Terms : Live(t).child = 0
  BY DEF NoFrame, Live
<1>3. \A t \in Terms, p \in Pids : Awaiting(t, p).term = t
  BY DEF Awaiting
<1> QED
  BY <1>1, <1>2, <1>3

(* Terminal u is in a halt and another one runs.  Nobody but u can leave a  *)
(* frame that waits for u's process, so a halt that could not return before *)
(* the step cannot after it, and one whose PCB was overwritten cannot.      *)
WaitsStill(u) ==
    /\ pc'[u] = pc[u] /\ ks'[u] = ks[u] /\ sched_pid'[u] = sched_pid[u]
    /\ Answers(u)' => Answers(u) /\ pcb'[ks[u]] = pcb[ks[u]]

(* The return to a parent makes no new waiting execute.                     *)
LEMMA ReturnFrames ==
    ASSUME TypeInv, NEW t \in Terms, NEW c \in Pids, NEW stacks \in [Pids -> Frames],
           ReturnToParent(t, c, stacks), NEW u \in Terms, NEW d \in Pids, NEW q \in Pids,
           wild' = "none", frame'[q] = Awaiting(u, d)
    PROVE  stacks[q] = Awaiting(u, d)
<1>1. PICK r : r = pcb[c].parent_ebp
  OBVIOUS
<1>2. r \in Pids /\ frame' = [stacks EXCEPT ![r] = Live(t), ![c] = NoFrame]
  BY <1>1 DEF ReturnToParent
<1> QED
  BY <1>2, FramesDiffer

(* A step of the running terminal leaves the others where they are, and the
   PCB of one that is inside halt as long as its parent still waits for it. *)
LEMMA OthersWait ==
    ASSUME TypeInv, NEW t \in Terms, NEW u \in Terms, u # t, wild' = "none",
           SyscallEntry(t) \/ Exception(t) \/ KernelStep(t)
    PROVE  WaitsStill(u) /\ cur_sched_term = t /\ cur_sched_term' = t
<1>1. /\ process_array \in [Pids -> {-1, 1}] /\ sched_pid \in [Terms -> Pids]
      /\ tss_esp0 \in Pids /\ pc \in [Terms -> PcLabels] /\ ks \in [Terms -> Pids]
      /\ frame \in [Pids -> Frames] /\ ks[u] \in Pids /\ ks[t] \in Pids
      /\ pcb \in [Pids -> [parent_pid : 0 .. MAX_PROGS, parent_ebp : 0 .. MAX_PROGS]]
  BY DEF TypeInv, TypeOK
<1>2. ASSUME pcb'[ks[u]] = pcb[ks[u]], ks'[u] = ks[u],
             \A q \in Pids : frame'[q] = Awaiting(u, ks[u]) => frame[q] = Awaiting(u, ks[u]),
             Answers(u)'
      PROVE  Answers(u)
  BY <1>2 DEF Answers
<1>3. CASE \/ SyscallEntry(t) \/ OtherSyscall(t) \/ SyscallReturn(t) \/ ContextSwitch(t)
           \/ ExecLimit(t) \/ ExecZero(t) \/ ExecFail(t) \/ HaltBegin(t) \/ HaltLoad(t)
           \/ HaltStore(t) \/ HaltFree(t) \/ HaltTss(t) \/ HaltSched(t) \/ HaltPage(t)
  <2>1. cur_sched_term = t /\ cur_sched_term' = t /\ pcb' = pcb
    BY <1>3 DEF SyscallEntry, OtherSyscall, SyscallReturn, ContextSwitch, ExecLimit,
       ExecZero, ExecFail, HaltBegin, HaltLoad, HaltStore, HaltFree, HaltTss, HaltSched,
       HaltPage, At, sched, tree
  <2>2. pc'[u] = pc[u] /\ ks'[u] = ks[u] /\ sched_pid'[u] = sched_pid[u]
    BY <1>1, <1>3 DEF SyscallEntry, OtherSyscall, SyscallReturn, ContextSwitch, ExecLimit,
       ExecZero, ExecFail, HaltBegin, HaltLoad, HaltStore, HaltFree, HaltTss, HaltSched,
       HaltPage, Goto, tree
  <2>3. \/ frame' = frame
        \/ frame' = [frame EXCEPT ![tss_esp0] = Live(t)]
        \/ frame' = [frame EXCEPT ![ks[t]] = NoFrame]
    BY <1>3 DEF SyscallEntry, OtherSyscall, SyscallReturn, ContextSwitch, ExecLimit,
       ExecZero, ExecFail, HaltBegin, HaltLoad, HaltStore, HaltFree, HaltTss, HaltSched,
       HaltPage
  <2>4. \A q \in Pids : frame'[q] = Awaiting(u, ks[u]) => frame[q] = Awaiting(u, ks[u])
    BY <1>1, <2>3, FramesDiffer
  <2> QED
    BY <1>2, <2>1, <2>2, <2>4 DEF WaitsStill
<1>4. CASE ExecSpawn(t)
  <2>1. PICK p \in Pids : /\ pcb' = [pcb EXCEPT ![p] = NewPcb(t)]
                          /\ sched_pid' = [sched_pid EXCEPT ![t] = p]
                          /\ frame' = [frame EXCEPT ![ks[t]] = Awaiting(t, p)]
    BY <1>4 DEF ExecSpawn
  <2>2. cur_sched_term = t /\ cur_sched_term' = t /\ pc'[u] = pc[u] /\ ks'[u] = ks[u]
        /\ sched_pid'[u] = sched_pid[u]
    BY <1>1, <1>4, <2>1 DEF ExecSpawn, At, Goto, sched
  <2>3. \A q \in Pids : frame'[q] = Awaiting(u, ks[u]) => frame[q] = Awaiting(u, ks[u])
    BY <1>1, <2>1, FramesDiffer
  <2>4. CASE p # ks[u]
    <3>1. pcb'[ks[u]] = pcb[ks[u]]
      BY <1>1, <2>1, <2>4
    <3> QED
      BY <1>2, <2>2, <2>3, <3>1 DEF WaitsStill
  <2>5. CASE p = ks[u]
    <3>1. pcb'[ks[u]].parent_ebp = ks[t]
      BY <1>1, <2>1, <2>5 DEF NewPcb
    <3>2. frame'[ks[t]] = Awaiting(t, p) /\ Awaiting(t, p) # Awaiting(u, ks[u])
      BY <1>1, <2>1, FramesDiffer
    <3>3. ~Answers(u)'
      BY <2>2, <3>1, <3>2 DEF Answers
    <3> QED
      BY <2>2, <3>3 DEF WaitsStill
  <2> QED
    BY <2>4, <2>5
<1>5. CASE ExecNoSlot(t)
  BY <1>5 DEF ExecNoSlot
<1>6. ASSUME NEW c \in Pids, NEW stacks \in [Pids -> Frames], ReturnToParent(t, c, stacks),
             stacks = frame \/ stacks = [frame EXCEPT ![c] = Live(t)], pcb' = pcb,
             \A v \in Terms : v # t => sched_pid'[v] = sched_pid[v],
             cur_sched_term = t, cur_sched_term' = t
      PROVE  WaitsStill(u)
  <2>1. pc'[u] = pc[u] /\ ks'[u] = ks[u]
    BY <1>1, <1>6 DEF ReturnToParent, Goto
  <2>2. ASSUME NEW q \in Pids, frame'[q] = Awaiting(u, ks[u])
        PROVE  frame[q] = Awaiting(u, ks[u])
    <3>1. stacks[q] = Awaiting(u, ks[u])
      <4>1. PICK d : d = ks[u]
        OBVIOUS
      <4>2. d \in Pids /\ frame'[q] = Awaiting(u, d)
        BY <1>1, <2>2, <4>1
      <4>3. stacks[q] = Awaiting(u, d)
        BY <1>6, <4>2, ReturnFrames
      <4> QED
        BY <4>1, <4>3
    <3> QED
      BY <1>1, <1>6, <3>1, FramesDiffer
  <2> QED
    BY <1>2, <1>6, <2>1, <2>2 DEF WaitsStill
<1>7. CASE HaltReturn(t)
  <2>1. /\ ReturnToParent(t, ks[t], frame) /\ pcb' = pcb /\ sched_pid' = sched_pid
        /\ cur_sched_term = t /\ cur_sched_term' = t
    BY <1>7 DEF HaltReturn, At, tree, sched
  <2> QED
    BY <1>1, <1>6, <2>1
<1>8. CASE Exception(t)
  <2>1. PICK c : c = ExceptionStack(t)
    OBVIOUS
  <2>2. PICK stacks : stacks = [frame EXCEPT ![c] = Live(t)]
    OBVIOUS
  <2>3. c \in Pids
    BY <1>1, <2>1 DEF ExceptionStack
  <2>4. stacks \in [Pids -> Frames]
    BY <1>1, <2>2, FrameTypes
  <2>5. /\ ReturnToParent(t, c, stacks) /\ pcb' = pcb
        /\ sched_pid' = [sched_pid EXCEPT ![t] = pcb[c].parent_pid]
        /\ cur_sched_term = t /\ cur_sched_term' = t
    BY <1>8, <2>1, <2>2 DEF Exception, At, sched
  <2>6. \A v \in Terms : v # t => sched_pid'[v] = sched_pid[v]
    BY <1>1, <2>5
  <2> QED
    BY <1>6, <2>2, <2>3, <2>4, <2>5, <2>6
<1> QED
  BY <1>3, <1>4, <1>5, <1>7, <1>8 DEF KernelStep

(* The invariant of terminals in a halt, kept by the steps of the others.   *)
HaltingOK(u) ==
    /\ pc[u] = "h_sched" => u = cur_sched_term
    /\ pc[u] \in {"h_page", "h_ret"} =>
          pcb[ks[u]].parent_pid = sched_pid[u] \/ ~Answers(u)

(* So what was true of a terminal that does not run stays true.             *)
LEMMA HaltingKept ==
    ASSUME NEW u, HaltingOK(u), WaitsStill(u),
           u # cur_sched_term
    PROVE  HaltingOK(u)'
<1>1. pc[u] # "h_sched" /\ pc'[u] # "h_sched"
  BY DEF HaltingOK, WaitsStill
<1>2. ASSUME pc'[u] \in {"h_page", "h_ret"}, Answers(u)'
      PROVE  pcb'[ks'[u]].parent_pid = sched_pid'[u]
  BY <1>2 DEF HaltingOK, WaitsStill
<1> QED
  BY <1>1, <1>2 DEF HaltingOK

(* What the processor holds for the running terminal.                       *)
HeldOK ==
    LET t == cur_sched_term
    IN  /\ tss_esp0 = IF pc[t] = "h_sched" THEN pcb[ks[t]].parent_pid ELSE sched_pid[t]
        /\ pc[t] \notin {"h_sched", "h_page", "h_ret"} => user_page = sched_pid[t]
        /\ pc[t] = "h_ret" => user_page = sched_pid[t] \/ ~Answers(t)

(* UserInv in its two parts.                                                *)
LEMMA UserParts ==
    UserInv <=> (Clean({"tss"}) /\ wild = "none" => HeldOK /\ \A u \in Terms : HaltingOK(u))
BY DEF UserInv, HeldOK, HaltingOK

(* A step of the running terminal, from what it does to that terminal.      *)
LEMMA RunningUser ==
    ASSUME TypeInv, NEW t \in Terms, SyscallEntry(t) \/ Exception(t) \/ KernelStep(t),
           wild' = "none", \A u \in Terms : HaltingOK(u),
           cur_sched_term' = t => HeldOK' /\ HaltingOK(t)'
    PROVE  HeldOK' /\ \A u \in Terms : HaltingOK(u)'
<1>1. cur_sched_term = t /\ cur_sched_term' = t
  BY DEF KernelStep, SyscallEntry, OtherSyscall, SyscallReturn, ContextSwitch, ExecLimit,
     ExecZero, ExecFail, ExecSpawn, ExecNoSlot, HaltBegin, HaltLoad, HaltStore, HaltFree,
     HaltTss, HaltSched, HaltPage, HaltReturn, Exception, At, sched
<1>2. ASSUME NEW u \in Terms, u # t PROVE HaltingOK(u)'
  <2>1. WaitsStill(u)
    BY <1>2, OthersWait
  <2> QED
    BY <1>1, <1>2, <2>1, HaltingKept
<1> QED
  BY <1>1, <1>2

(* Every step preserves UserInv.                                            *)
LEMMA UserStep ==
    ASSUME TypeInv, UserInv, [Next]_vars
    PROVE  UserInv'
<1> SUFFICES ASSUME Clean({"tss"})', wild' = "none"
             PROVE  HeldOK' /\ \A u \in Terms : HaltingOK(u)'
  BY DEF UserInv, HeldOK, HaltingOK
<1>1. {"tss"} \in SUBSET Windows /\ Window["tss"] = {"h_sched"}
  BY DEF Windows, Window
<1>2. Clean({"tss"}) /\ (Tick => pc[cur_sched_term] # "h_sched")
  BY <1>1, CleanBefore
<1>3. CASE UNCHANGED vars
  <2>1. UNCHANGED <<pc, ks, frame, wild, sched_pid, pcb, tss_esp0, user_page, cur_sched_term>>
    BY <1>3 DEF vars, tree, cpu, thread, sched
  <2>2. HeldOK /\ \A u \in Terms : HaltingOK(u)
    BY <1>2, <2>1, UserParts
  <2>3. \A u : Answers(u)' <=> Answers(u)
    BY <2>1 DEF Answers
  <2> QED
    BY <2>1, <2>2, <2>3 DEF HeldOK, HaltingOK
<1>4. ASSUME Next PROVE wild = "none"
  BY <1>4 DEF Next, Tick, KernelStep, SyscallEntry, OtherSyscall, SyscallReturn, ContextSwitch,
     ExecLimit, ExecZero, ExecFail, ExecSpawn, ExecNoSlot, HaltBegin, HaltLoad, HaltStore,
     HaltFree, HaltTss, HaltSched, HaltPage, HaltReturn, Exception, At
<1>5. ASSUME Next PROVE HeldOK /\ \A u \in Terms : HaltingOK(u)
  BY <1>2, <1>4, <1>5, UserParts
<1>6. /\ sched_pid \in [Terms -> Pids] /\ pc \in [Terms -> PcLabels] /\ ks \in [Terms -> Pids]
      /\ cur_sched_term \in Terms /\ frame \in [Pids -> Frames]
      /\ pcb \in [Pids -> [parent_pid : 0 .. MAX_PROGS, parent_ebp : 0 .. MAX_PROGS]]
      /\ tss_esp0 \in Pids
  BY DEF TypeInv, TypeOK
<1>7. ASSUME NEW t \in Terms,
             \/ SyscallEntry(t) \/ OtherSyscall(t) \/ SyscallReturn(t) \/ ContextSwitch(t)
             \/ ExecLimit(t) \/ ExecZero(t) \/ ExecFail(t) \/ HaltBegin(t) \/ HaltLoad(t)
             \/ HaltStore(t) \/ HaltFree(t)
      PROVE  HeldOK' /\ \A u \in Terms : HaltingOK(u)'
  <2>1. /\ cur_sched_term = t /\ pc[t] \notin {"h_sched", "h_page", "h_ret"}
        /\ pc'[t] \notin {"h_sched", "h_page", "h_ret"}
        /\ UNCHANGED <<sched_pid, pcb, tss_esp0, user_page>>
    BY <1>6, <1>7 DEF SyscallEntry, OtherSyscall, SyscallReturn, ContextSwitch, ExecLimit,
       ExecZero, ExecFail, HaltBegin, HaltLoad, HaltStore, HaltFree, At, Goto, tree, cpu
  <2>2. HeldOK /\ \A u \in Terms : HaltingOK(u)
    BY <1>5, <1>7 DEF Next, KernelStep
  <2>3. cur_sched_term' = t => HeldOK' /\ HaltingOK(t)'
    BY <2>1, <2>2 DEF HeldOK, HaltingOK
  <2> QED
    BY <1>7, <2>2, <2>3, RunningUser DEF KernelStep
<1>8. ASSUME NEW t \in Terms, ExecSpawn(t)
      PROVE  HeldOK' /\ \A u \in Terms : HaltingOK(u)'
  <2>1. pc'[t] = "cs" /\ tss_esp0' = sched_pid'[t] /\ user_page' = sched_pid'[t]
    BY <1>6, <1>8 DEF ExecSpawn, Goto
  <2>2. \A u \in Terms : HaltingOK(u)
    BY <1>5, <1>8 DEF Next, KernelStep
  <2>3. cur_sched_term' = t => HeldOK' /\ HaltingOK(t)'
    BY <2>1 DEF HeldOK, HaltingOK
  <2> QED
    BY <1>8, <2>2, <2>3, RunningUser DEF KernelStep
<1>9. ASSUME NEW t \in Terms, HaltTss(t)
      PROVE  HeldOK' /\ \A u \in Terms : HaltingOK(u)'
  <2>1. /\ pc'[t] = "h_sched" /\ tss_esp0' = pcb[ks[t]].parent_pid /\ pcb' = pcb /\ ks' = ks
    BY <1>6, <1>9 DEF HaltTss, Goto, cur_pcb, tree
  <2>2. \A u \in Terms : HaltingOK(u)
    BY <1>5, <1>9 DEF Next, KernelStep
  <2>3. cur_sched_term' = t => HeldOK' /\ HaltingOK(t)'
    BY <2>1 DEF HeldOK, HaltingOK
  <2> QED
    BY <1>9, <2>2, <2>3, RunningUser DEF KernelStep
<1>10. ASSUME NEW t \in Terms, HaltSched(t)
       PROVE  HeldOK' /\ \A u \in Terms : HaltingOK(u)'
  <2>1. /\ pc'[t] = "h_page" /\ tss_esp0' = tss_esp0 /\ pcb' = pcb /\ ks' = ks
        /\ sched_pid'[t] = pcb[ks[t]].parent_pid /\ cur_sched_term = t /\ pc[t] = "h_sched"
    BY <1>6, <1>10 DEF HaltSched, Goto, cur_pcb, cpu, At
  <2>2. HeldOK /\ \A u \in Terms : HaltingOK(u)
    BY <1>5, <1>10 DEF Next, KernelStep
  <2>3. tss_esp0 = pcb[ks[t]].parent_pid
    BY <2>1, <2>2 DEF HeldOK
  <2>4. cur_sched_term' = t => HeldOK' /\ HaltingOK(t)'
    BY <2>1, <2>3 DEF HeldOK, HaltingOK
  <2> QED
    BY <1>10, <2>2, <2>4, RunningUser DEF KernelStep
<1>11. ASSUME NEW t \in Terms, HaltPage(t)
       PROVE  HeldOK' /\ \A u \in Terms : HaltingOK(u)'
  <2>1. /\ pc'[t] = "h_ret" /\ user_page' = pcb[ks[t]].parent_pid /\ cur_sched_term = t
        /\ UNCHANGED <<tss_esp0, sched_pid, pcb, ks, frame>> /\ pc[t] = "h_page"
    BY <1>6, <1>11 DEF HaltPage, Goto, cur_pcb, tree, At
  <2>2. HeldOK /\ \A u \in Terms : HaltingOK(u)
    BY <1>5, <1>11 DEF Next, KernelStep
  <2>3. tss_esp0 = sched_pid[t] /\ (pcb[ks[t]].parent_pid = sched_pid[t] \/ ~Answers(t))
    BY <2>1, <2>2 DEF HeldOK, HaltingOK
  <2>4. Answers(t)' <=> Answers(t)
    BY <2>1 DEF Answers
  <2>5. cur_sched_term' = t => HeldOK' /\ HaltingOK(t)'
    BY <2>1, <2>3, <2>4 DEF HeldOK, HaltingOK
  <2> QED
    BY <1>11, <2>2, <2>5, RunningUser DEF KernelStep
<1>12. ASSUME NEW t \in Terms, HaltReturn(t)
       PROVE  HeldOK' /\ \A u \in Terms : HaltingOK(u)'
  <2>1. /\ ReturnToParent(t, ks[t], frame) /\ cur_sched_term = t /\ pc[t] = "h_ret"
        /\ UNCHANGED <<tss_esp0, user_page, sched_pid>>
    BY <1>12 DEF HaltReturn, At, tree, cpu
  <2>2. Answers(t) /\ pc' = [pc EXCEPT ![t] = "ret"]
    BY <2>1 DEF ReturnToParent, Answers, Goto
  <2>3. HeldOK /\ \A u \in Terms : HaltingOK(u)
    BY <1>5, <1>12 DEF Next, KernelStep
  <2>4. tss_esp0 = sched_pid[t] /\ user_page = sched_pid[t] /\ pc'[t] = "ret"
    BY <1>6, <2>1, <2>2, <2>3 DEF HeldOK
  <2>5. cur_sched_term' = t => HeldOK' /\ HaltingOK(t)'
    BY <2>1, <2>4 DEF HeldOK, HaltingOK
  <2> QED
    BY <1>12, <2>3, <2>5, RunningUser DEF KernelStep
<1>13. ASSUME NEW t \in Terms, Exception(t)
       PROVE  HeldOK' /\ \A u \in Terms : HaltingOK(u)'
  <2>1. PICK c : c = ExceptionStack(t)
    OBVIOUS
  <2>2. /\ tss_esp0' = pcb[c].parent_pid /\ user_page' = pcb[c].parent_pid
        /\ sched_pid' = [sched_pid EXCEPT ![t] = pcb[c].parent_pid]
        /\ ReturnToParent(t, c, [frame EXCEPT ![c] = Live(t)])
    BY <1>13, <2>1 DEF Exception
  <2>3. pc' = [pc EXCEPT ![t] = "ret"]
    BY <2>2 DEF ReturnToParent, Goto
  <2>4. \A u \in Terms : HaltingOK(u)
    BY <1>5, <1>13 DEF Next
  <2>5. pc'[t] = "ret" /\ tss_esp0' = sched_pid'[t] /\ user_page' = sched_pid'[t]
    BY <1>6, <2>2, <2>3
  <2>6. cur_sched_term' = t => HeldOK' /\ HaltingOK(t)'
    BY <2>5 DEF HeldOK, HaltingOK
  <2> QED
    BY <1>13, <2>4, <2>6, RunningUser
<1>14. ASSUME Tick PROVE HeldOK' /\ \A u \in Terms : HaltingOK(u)'
  <2>1. PICK p : p = cur_sched_term
    OBVIOUS
  <2>2. PICK n : n = NextTerm(p)
    OBVIOUS
  <2>3. p \in Terms /\ n \in Terms
    BY <1>6, <2>1, <2>2, TermFacts
  <2>4. PICK stacks : stacks = IF pc[p] = "user" THEN [frame EXCEPT ![tss_esp0] = Live(p)]
                                                ELSE frame
    OBVIOUS
  <2>5. /\ cur_sched_term' = n /\ tss_esp0' = sched_pid[n] /\ user_page' = sched_pid[n]
        /\ ks' = [ks EXCEPT ![p] = IF pc[p] = "user" THEN tss_esp0 ELSE @]
        /\ Resume(n, stacks) /\ sched_pid' = sched_pid /\ pcb' = pcb
    BY <1>14, <2>1, <2>2, <2>4 DEF Tick, ProcessOf, tree
  <2>6. HeldOK /\ \A u \in Terms : HaltingOK(u) /\ pc[u] # "h_sched"
    BY <1>2, <1>5, <1>14 DEF Next, HaltingOK
  <2>7. pc' = pc \/ (pc[n] = "new" /\ pc' = [pc EXCEPT ![n] = "user"])
    BY <2>5 DEF Resume, Goto
  <2>8. \A u \in Terms : pc'[u] # "h_sched"
                         /\ (pc'[u] \in {"h_page", "h_ret"} => pc[u] = pc'[u] /\ ks'[u] = ks[u])
    BY <1>6, <2>3, <2>5, <2>6, <2>7
  <2>9. frame' = stacks \/ frame' = [stacks EXCEPT ![ks'[n]] = NoFrame]
    BY <2>5 DEF Resume
  <2>10. ASSUME NEW u \in Terms, pc'[u] \in {"h_page", "h_ret"}
         PROVE  pcb'[ks'[u]].parent_pid = sched_pid'[u] \/ ~Answers(u)'
    <3>1. PICK c : c = ks[u]
      OBVIOUS
    <3>2. c \in Pids /\ ks'[u] = c
      BY <1>6, <2>8, <2>10, <3>1
    <3>3. \A q \in Pids : frame'[q] = Awaiting(u, c) => stacks[q] = Awaiting(u, c)
      <4>1. stacks \in [Pids -> Frames]
        BY <1>6, <2>3, <2>4, FrameTypes
      <4> QED
        BY <2>9, <3>2, <4>1, FramesDiffer
    <3>4. \A q \in Pids : stacks[q] = Awaiting(u, c) => frame[q] = Awaiting(u, c)
      BY <1>6, <2>3, <2>4, <3>2, FramesDiffer
    <3>5. Answers(u)' => Answers(u)
      BY <2>5, <3>1, <3>2, <3>3, <3>4 DEF Answers
    <3> QED
      BY <2>5, <2>6, <2>8, <2>10, <3>5 DEF HaltingOK
  <2>11. HeldOK'
    BY <2>3, <2>5, <2>8 DEF HeldOK
  <2> QED
    BY <2>8, <2>10, <2>11 DEF HaltingOK
<1>15. ASSUME NEW t \in Terms, ExecNoSlot(t) PROVE FALSE
  BY <1>15 DEF ExecNoSlot
<1> QED
  BY <1>3, <1>7, <1>8, <1>9, <1>10, <1>11, <1>12, <1>13, <1>14, <1>15 DEF Next, KernelStep

(* In user mode the TSS, the page at 128 MB and the scheduler's entry name  *)
(* one process, whatever the ticks, but for one between the writes of       *)
(* tss.esp0 and sched_arr[].process_num in halt (syscalls.c).               *)
THEOREM UserContextKept == Spec => []UserContext
<1>1. Init => UserInv
  <2> SUFFICES ASSUME Init PROVE HeldOK /\ \A u \in Terms : HaltingOK(u)
    BY UserParts
  <2>1. /\ cur_sched_term = 0 /\ sched_pid = [t \in Terms |-> t + 1]
        /\ pc = [t \in Terms |-> IF t = 0 THEN "cs" ELSE "new"]
        /\ tss_esp0 = 1 /\ user_page = 1
    BY DEF Init, PitInit, LaunchInit
  <2>2. 0 \in Terms
    BY TermFacts
  <2> QED
    BY <2>1, <2>2 DEF HeldOK, HaltingOK
<1>2. UserInv => UserContext
  BY DEF UserInv, UserContext
<1>3. TypeInv /\ UserInv /\ [Next]_vars => UserInv'
  BY UserStep
<1>4. IndInv => TypeInv
  BY DEF IndInv
<1> QED
  BY <1>1, <1>2, <1>3, <1>4, Inductive, PTL DEF Spec

-----------------------------------------------------------------------------
(***************************************************************************)
(* The refinement of Families: execute, halt, the exception handler and    *)
(* the scheduler implement it, for every number of terminals and slots, in *)
(* the part of a behaviour before a tick falls into the windows "dec" or   *)
(* "freed".                                                                *)
(***************************************************************************)
family == <<Owners, Leaves, Awaited>>

(* The owner of a living process depends on a frame that waits, so a step   *)
(* that leaves those frames, the ends and the slots leaves the families.    *)
LEMMA FamilySame ==
    ASSUME Chains, UNCHANGED pcb,
           \A t \in Terms : Leaf(t)' = Leaf(t),
           \A p \in Pids : Alive(p)' <=> Alive(p),
           \A p \in Pids : /\ frame'[p].child = frame[p].child
                           /\ frame[p].child # 0 => frame'[p] = frame[p]
    PROVE  UNCHANGED family
<1>1. ASSUME NEW p \in Pids, Alive(p) PROVE Owner(p)' = Owner(p)
  <2>1. CASE p <= SHELL_NUM
    BY <2>1 DEF Owner
  <2>2. CASE p > SHELL_NUM
    <3>1. PICK q \in Pids : q = pcb[p].parent_pid /\ frame[q].child = p
      BY <1>1, <2>2 DEF Chains, ChildOK
    <3>2. frame'[q] = frame[q]
      BY <3>1 DEF Pids
    <3> QED
      BY <3>1, <3>2 DEF Owner
  <2> QED
    BY <2>1, <2>2, SmallPid
<1>2. Owners' = Owners
  BY <1>1 DEF Owners
<1>3. Leaves' = Leaves /\ Awaited' = Awaited
  BY DEF Leaves, Awaited
<1> QED
  BY <1>2, <1>3 DEF family

(* The end c of the chain of t dies and its parent q goes on.               *)
LEMMA FamilyEnd ==
    ASSUME TypeInv, Chains, UNCHANGED pcb,
           NEW t \in Terms, NEW c \in Pids, c = Leaf(t), c > SHELL_NUM,
           NEW q \in Pids, q = pcb[c].parent_pid,
           frame'[q] = Live(t), frame'[c] = NoFrame,
           \A p \in Pids : p # q /\ p # c => frame'[p] = frame[p],
           \A p \in Pids : Alive(p)' <=> (Alive(p) /\ p # c),
           Leaf(t)' = q,
           \A u \in Terms : u # t => Leaf(u)' = Leaf(u)
    PROVE  F!End(t, q)
<1>1. /\ q # c /\ frame[q].term = t /\ frame[q].child = c
      /\ process_array[q] = 1 /\ Owner(q) = t
  <2>1. q # c /\ frame[q] = Awaiting(t, c) /\ process_array[q] = 1 /\ Owner(q) = t
    BY ParentOfLeaf
  <2> QED
    BY <2>1 DEF Awaiting
<1>2. Leaves[t] = c /\ Owners[q] = t /\ Awaited[q] = c
  BY <1>1 DEF Leaves, Owners, Awaited, Alive
<1>3. frame[c].child = 0 /\ frame'[c].child = 0 /\ frame'[q].child = 0
  BY DEF Chains, LeafOK, Live, NoFrame
<1>4. ASSUME NEW p \in Pids, Alive(p), p # c PROVE Owner(p)' = Owner(p)
  <2>1. CASE p <= SHELL_NUM
    BY <2>1 DEF Owner
  <2>2. CASE p > SHELL_NUM
    <3>1. PICK r \in Pids : r = pcb[p].parent_pid /\ frame[r].child = p
      BY <1>4, <2>2 DEF Chains, ChildOK
    <3>2. r # q /\ r # c
      BY <1>1, <1>3, <1>4, <3>1 DEF Pids
    <3> QED
      BY <3>1, <3>2 DEF Owner
  <2> QED
    BY <2>1, <2>2, SmallPid
<1>5. Owners' = [Owners EXCEPT ![c] = -1]
  BY <1>4 DEF Owners
<1>6. Leaves' = [Leaves EXCEPT ![t] = q]
  BY DEF Leaves
<1>7. Awaited' = [Awaited EXCEPT ![q] = 0]
  BY <1>1, <1>3 DEF Awaited
<1> QED
  BY <1>2, <1>5, <1>6, <1>7 DEF F!End, F!FREE

(* A new process c becomes the end of the chain of t.                       *)
LEMMA FamilyExecute ==
    ASSUME TypeInv, Chains, NEW t \in Terms, NEW c \in Pids,
           NEW l \in Pids, l = Leaf(t), process_array[l] = 1, ~Alive(c),
           pcb' = [pcb EXCEPT ![c] = [parent_pid |-> l, parent_ebp |-> l]],
           frame' = [frame EXCEPT ![l] = Awaiting(t, c)],
           \A p \in Pids : Alive(p)' <=> (Alive(p) \/ p = c),
           Leaf(t)' = c,
           \A u \in Terms : u # t => Leaf(u)' = Leaf(u)
    PROVE  F!Execute(t, c)
<1>1. frame \in [Pids -> Frames] /\ Alive(l) /\ frame[l].child = 0 /\ l # c
  BY DEF Chains, LeafOK, TypeInv, TypeOK
<1>2. /\ frame'[l].term = t /\ frame'[l].child = c
      /\ \A p \in Pids : p # l => frame'[p] = frame[p]
  BY <1>1 DEF Awaiting
<1>3. pcb'[c].parent_pid = l /\ \A p \in Pids : p # c => pcb'[p] = pcb[p]
  BY DEF TypeInv, TypeOK
<1>4. c > SHELL_NUM
  <2>1. c <= SHELL_NUM => c - 1 \in Terms /\ (c - 1) + 1 = c
    BY ShellAssumption, ProgsAssumption DEF Pids, Terms
  <2> QED
    BY <2>1, SmallPid DEF Chains, Alive
<1>5. Leaves[t] = l /\ Owners[c] = -1
  BY DEF Leaves, Owners
<1>6. Owner(c)' = t
  BY <1>2, <1>3, <1>4, SmallPid DEF Owner
<1>7. ASSUME NEW p \in Pids, Alive(p) PROVE Owner(p)' = Owner(p)
  <2>1. CASE p <= SHELL_NUM
    BY <2>1 DEF Owner
  <2>2. CASE p > SHELL_NUM
    <3>1. PICK r \in Pids : r = pcb[p].parent_pid /\ frame[r].child = p
      BY <1>7, <2>2 DEF Chains, ChildOK
    <3>2. r # l /\ p # c
      BY <1>1, <1>7, <3>1 DEF Pids
    <3> QED
      BY <1>2, <1>3, <3>1, <3>2 DEF Owner
  <2> QED
    BY <2>1, <2>2, SmallPid
<1>8. Owners' = [Owners EXCEPT ![c] = t]
  BY <1>6, <1>7 DEF Owners
<1>9. Leaves' = [Leaves EXCEPT ![t] = c]
  BY DEF Leaves
<1>10. Awaited' = [Awaited EXCEPT ![l] = c]
  <2>1. \A p \in Pids : frame'[p].child = IF p = l THEN c ELSE frame[p].child
    BY <1>2
  <2> HIDE <1>2
  <2> QED
    BY <2>1 DEF Awaited
<1> QED
  BY <1>5, <1>8, <1>9, <1>10 DEF F!Execute, F!FREE

-----------------------------------------------------------------------------
(* A step of the running terminal t that changes no slot and no PCB, and    *)
(* frames only at the end of the chain of t.                                *)
LEMMA FamilyQuiet ==
    ASSUME TypeInv, SafeInv, NEW t \in Terms, t = cur_sched_term,
           cur_sched_term' = t, UNCHANGED <<process_array, pcb>>,
           \A u \in Terms : u # t =>
               pc'[u] = pc[u] /\ ks'[u] = ks[u] /\ sched_pid'[u] = sched_pid[u],
           Leaf(t)' = Leaf(t),
           \/ ks'[t] = ks[t] /\ (pc'[t] \in Window.freed <=> pc[t] \in Window.freed)
           \/ pc'[t] \notin Window.freed /\ pc[t] \notin Window.freed,
           \A s \in Pids : \/ frame'[s] = frame[s]
                           \/ s = Leaf(t) /\ frame'[s].child = 0
    PROVE  UNCHANGED family
<1>1. \A u \in Terms : Leaf(u)' = Leaf(u)
  BY DEF Leaf
<1>2. \A p \in Pids : Alive(p)' <=> Alive(p)
  BY DEF Alive
<1>3. Chains /\ frame[Leaf(t)].child = 0
  BY DEF SafeInv, Chains, LeafOK
<1> QED
  BY <1>1, <1>2, <1>3, FamilySame

(* System calls as such, and an execute that fails, do nothing to a family. *)
LEMMA SyscallFamily ==
    ASSUME TypeInv, SafeInv, CountOK, NEW t \in Terms,
           \/ SyscallEntry(t) \/ OtherSyscall(t) \/ SyscallReturn(t)
           \/ ContextSwitch(t) \/ ExecLimit(t) \/ ExecZero(t) \/ ExecFail(t)
           \/ ExecNoSlot(t)
    PROVE  UNCHANGED family
<1>1. t = cur_sched_term /\ cur_sched_term' = t
  BY DEF SyscallEntry, OtherSyscall, SyscallReturn, ContextSwitch, ExecLimit, ExecZero,
         ExecFail, ExecNoSlot, At, sched
<1>2. /\ ContextOK(t) /\ LeafOK(t) /\ CpuOK
      /\ Leaf(t) \in Pids /\ ks[t] \in Pids /\ sched_pid[t] \in Pids
  BY <1>1, Running
<1>3. pc \in [Terms -> PcLabels] /\ ks \in [Terms -> Pids] /\ frame \in [Pids -> Frames]
  BY DEF TypeInv, TypeOK
<1>4. CASE SyscallEntry(t)
  <2>1. /\ pc[t] = "user" /\ pc' = [pc EXCEPT ![t] = "sys"]
        /\ ks' = [ks EXCEPT ![t] = tss_esp0]
        /\ frame' = [frame EXCEPT ![tss_esp0] = Live(t)]
        /\ UNCHANGED <<process_array, sched_pid, pcb>>
    BY <1>4 DEF SyscallEntry, At, Goto, count, tree
  <2>2. tss_esp0 = Leaf(t) /\ Leaf(t)' = Leaf(t) /\ Live(t).child = 0
    BY <1>1, <1>2, <1>3, <2>1 DEF CpuOK, Leaf, Live
  <2> QED
    BY <1>1, <1>2, <1>3, <2>1, <2>2, FamilyQuiet DEF Window
<1>5. CASE OtherSyscall(t) \/ ExecLimit(t) \/ ExecFail(t) \/ ExecNoSlot(t)
  <2>1. /\ pc[t] \in {"sys", "body"}
        /\ \E l \in {"ret", "zero", "body"} : pc' = [pc EXCEPT ![t] = l]
        /\ UNCHANGED <<process_array, sched_pid, pcb, ks, frame>>
    <3>1. ExecNoSlot(t) => pc[t] = "body" /\ pc' = [pc EXCEPT ![t] = "body"]
      BY <1>3 DEF ExecNoSlot, At
    <3> QED
      BY <1>5, <3>1 DEF OtherSyscall, ExecLimit, ExecFail, ExecNoSlot, At, Goto, count, tree
  <2>2. Leaf(t)' = Leaf(t)
    BY <1>3, <2>1 DEF Leaf
  <2> QED
    BY <1>1, <1>2, <1>3, <2>1, <2>2, FamilyQuiet DEF Window
<1>6. CASE ExecZero(t)
  <2>1. process_num # 0
    BY <1>1, <1>6, CountPositive DEF ExecZero, At
  <2>2. /\ pc[t] = "zero" /\ pc' = [pc EXCEPT ![t] = "body"]
        /\ UNCHANGED <<process_array, sched_pid, pcb, ks, frame>>
    BY <1>6, <2>1 DEF ExecZero, At, Goto, tree
  <2>3. Leaf(t)' = Leaf(t)
    BY <1>3, <2>2 DEF Leaf
  <2> QED
    BY <1>1, <1>2, <1>3, <2>2, <2>3, FamilyQuiet DEF Window
<1>7. CASE SyscallReturn(t) \/ ContextSwitch(t)
  <2>1. /\ pc[t] \in {"ret", "cs"} /\ pc' = [pc EXCEPT ![t] = "user"]
        /\ UNCHANGED <<process_array, sched_pid, pcb, ks>>
    BY <1>7 DEF SyscallReturn, ContextSwitch, At, Goto, count, tree
  <2>2. \/ frame' = frame
        \/ ks[t] = sched_pid[t] /\ frame' = [frame EXCEPT ![ks[t]] = NoFrame]
    <3>1. CASE SyscallReturn(t)
      BY <1>2, <3>1 DEF SyscallReturn, At, ContextOK
    <3>2. CASE ContextSwitch(t)
      <4>1. frame[ks[t]] = Awaiting(t, sched_pid[t]) => frame[ks[t]].child # 0
        BY <1>2 DEF Awaiting, Pids
      <4> QED
        BY <1>2, <3>2, <4>1 DEF ContextSwitch, At, ContextOK
    <3> QED
      BY <1>7, <3>1, <3>2
  <2>3. Leaf(t) = sched_pid[t] /\ Leaf(t)' = Leaf(t) /\ NoFrame.child = 0
    BY <1>3, <2>1 DEF Leaf, NoFrame
  <2>4. \A s \in Pids : \/ frame'[s] = frame[s]
                        \/ s = Leaf(t) /\ frame'[s].child = 0
    BY <1>2, <1>3, <2>2, <2>3
  <2> QED
    BY <1>1, <1>2, <1>3, <2>1, <2>3, <2>4, FamilyQuiet DEF Window
<1> QED
  BY <1>4, <1>5, <1>6, <1>7

(* halt up to the jump to the parent: the slot is free, but the family is   *)
(* the same until the parent goes on.                                       *)
LEMMA HaltFamily ==
    ASSUME TypeInv, SafeInv, NEW t \in Terms,
           \/ HaltBegin(t) \/ HaltLoad(t) \/ HaltStore(t) \/ HaltFree(t)
           \/ HaltTss(t) \/ HaltSched(t) \/ HaltPage(t)
    PROVE  UNCHANGED family
<1>1. t = cur_sched_term /\ cur_sched_term' = t
  BY DEF HaltBegin, HaltLoad, HaltStore, HaltFree, HaltTss, HaltSched, HaltPage, At, sched
<1>2. /\ ContextOK(t) /\ LeafOK(t)
      /\ Leaf(t) \in Pids /\ ks[t] \in Pids /\ sched_pid[t] \in Pids
  BY <1>1, Running
<1>3. /\ pc \in [Terms -> PcLabels] /\ ks \in [Terms -> Pids]
      /\ frame \in [Pids -> Frames] /\ sched_pid \in [Terms -> Pids]
  BY DEF TypeInv, TypeOK
<1>4. UNCHANGED <<pcb, ks, frame>>
  BY DEF HaltBegin, HaltLoad, HaltStore, HaltFree, HaltTss, HaltSched, HaltPage, tree
<1>5. CASE HaltBegin(t) \/ HaltLoad(t) \/ HaltStore(t) \/ HaltTss(t) \/ HaltPage(t)
  <2>1. /\ UNCHANGED <<process_array, sched_pid>>
        /\ \/ /\ pc[t] \in {"sys", "h_load", "h_store"}
              /\ \E l \in {"cs", "h_load", "h_store", "h_free"} : pc' = [pc EXCEPT ![t] = l]
           \/ pc[t] = "h_tss" /\ pc' = [pc EXCEPT ![t] = "h_sched"]
           \/ pc[t] = "h_page" /\ pc' = [pc EXCEPT ![t] = "h_ret"]
    BY <1>5 DEF HaltBegin, HaltLoad, HaltStore, HaltTss, HaltPage, At, Goto, count, tree
  <2>2. Leaf(t)' = Leaf(t) /\ \A u \in Terms : u # t => pc'[u] = pc[u]
    BY <1>3, <1>4, <2>1 DEF Leaf
  <2>3. pc'[t] \in Window.freed <=> pc[t] \in Window.freed
    BY <1>3, <2>1 DEF Window
  <2> QED
    BY <1>1, <1>4, <2>1, <2>2, <2>3, FamilyQuiet
<1>6. CASE HaltSched(t)
  <2>1. /\ pc[t] = "h_sched" /\ pc' = [pc EXCEPT ![t] = "h_page"]
        /\ sched_pid' = [sched_pid EXCEPT ![t] = pcb[ks[t]].parent_pid]
        /\ UNCHANGED process_array
    BY <1>6 DEF HaltSched, At, Goto, cur_pcb, count
  <2>2. Leaf(t)' = Leaf(t)
    BY <1>2, <1>3, <1>4, <2>1 DEF ContextOK, Leaf
  <2> QED
    BY <1>1, <1>3, <1>4, <2>1, <2>2, FamilyQuiet DEF Window
<1>7. CASE HaltFree(t)
  <2>1. /\ pc[t] = "h_free" /\ pc' = [pc EXCEPT ![t] = "h_tss"]
        /\ process_array' = [process_array EXCEPT ![ks[t]] = -1]
        /\ UNCHANGED sched_pid
    BY <1>7 DEF HaltFree, At, Goto, tree
  <2>2. ks[t] = Leaf(t) /\ \A u \in Terms : Leaf(u)' = Leaf(u)
    BY <1>2, <1>3, <1>4, <2>1 DEF Leaf, ContextOK
  <2>3. \A p \in Pids : process_array'[p] = IF p = ks[t] THEN -1 ELSE process_array[p]
    BY <2>1 DEF TypeInv, TypeOK
  <2>4. pc[t] \notin Window.freed /\ pc'[t] \in Window.freed
    BY <1>3, <2>1 DEF Window
  <2>5. process_array[ks[t]] = 1
    BY <1>1, <1>2, <2>2, <2>4 DEF LeafOK, Alive
  <2>6. \A p \in Pids : Alive(p)' <=> Alive(p)
    BY <1>1, <1>4, <2>3, <2>4, <2>5 DEF Alive
  <2>7. Chains
    BY DEF SafeInv
  <2> QED
    BY <1>4, <2>2, <2>6, <2>7, FamilySame
<1> QED
  BY <1>5, <1>6, <1>7

(* execute starts one program in a free slot.                               *)
LEMMA SpawnFamily ==
    ASSUME TypeInv, SafeInv, NEW t \in Terms, ExecSpawn(t)
    PROVE  \E c \in Pids : F!Execute(t, c)
<1>1. t = cur_sched_term /\ cur_sched_term' = t
  BY DEF ExecSpawn, At, sched
<1>2. /\ ContextOK(t) /\ LeafOK(t)
      /\ Leaf(t) \in Pids /\ ks[t] \in Pids /\ sched_pid[t] \in Pids
  BY <1>1, Running
<1>3. /\ pc \in [Terms -> PcLabels] /\ ks \in [Terms -> Pids]
      /\ sched_pid \in [Terms -> Pids]
  BY DEF TypeInv, TypeOK
<1>4. PICK c \in Pids :
         /\ process_array[c] = -1
         /\ process_array' = [process_array EXCEPT ![c] = 1]
         /\ pcb' = [pcb EXCEPT ![c] = [parent_pid |-> sched_pid[t],
                                       parent_ebp |-> ks[t]]]
         /\ sched_pid' = [sched_pid EXCEPT ![t] = c]
         /\ frame' = [frame EXCEPT ![ks[t]] = Awaiting(t, c)]
  BY DEF ExecSpawn, FreeSlot, NewPcb
<1>5. pc[t] = "body" /\ pc' = [pc EXCEPT ![t] = "cs"] /\ ks' = ks
  BY DEF ExecSpawn, At, Goto
<1>6. PICK l \in Pids : l = Leaf(t) /\ l = ks[t] /\ l = sched_pid[t]
  BY <1>2, <1>5 DEF ContextOK, Leaf
<1>7. pc[t] \notin Window.freed /\ pc'[t] \notin Window.freed
  BY <1>3, <1>5 DEF Window
<1>8. process_array[l] = 1 /\ ~Alive(c)
  BY <1>1, <1>2, <1>4, <1>6, <1>7 DEF LeafOK, Alive
<1>9. \A p \in Pids : Alive(p)' <=> (Alive(p) \/ p = c)
  <2>1. \A p \in Pids : process_array'[p] = IF p = c THEN 1 ELSE process_array[p]
    BY <1>4 DEF TypeInv, TypeOK
  <2> QED
    BY <1>1, <1>7, <2>1 DEF Alive
<1>10. Leaf(t)' = c /\ \A u \in Terms : u # t => Leaf(u)' = Leaf(u)
  BY <1>3, <1>4, <1>5 DEF Leaf
<1>11. /\ pcb' = [pcb EXCEPT ![c] = [parent_pid |-> l, parent_ebp |-> l]]
       /\ frame' = [frame EXCEPT ![l] = Awaiting(t, c)]
       /\ Chains
  BY <1>4, <1>6 DEF SafeInv
<1>12. F!Execute(t, c)
  BY <1>6, <1>8, <1>9, <1>10, <1>11, FamilyExecute
<1> QED
  BY <1>12

(* The return to the parent ends the program of t, in halt and in the       *)
(* exception handler.                                                       *)
LEMMA ReturnFamily ==
    ASSUME TypeInv, SafeInv, UNCHANGED pcb,
           NEW t \in Terms, t = cur_sched_term, cur_sched_term' = t,
           NEW c \in Pids, c = Leaf(t), c > SHELL_NUM,
           NEW stacks, stacks = frame \/ stacks = [frame EXCEPT ![c] = Live(t)],
           ReturnToParent(t, c, stacks),
           \A p \in Pids : p # c => process_array'[p] = process_array[p],
           process_array'[c] # 1,
           pc[t] \in Window.freed => ks[t] = c,
           sched_pid' = [sched_pid EXCEPT ![t] = pcb[c].parent_pid]
    PROVE  \E q \in Pids : F!End(t, q)
<1>1. PICK q : q = pcb[c].parent_pid
  OBVIOUS
<1>2. Chains
  BY DEF SafeInv
<1>3. q \in Pids /\ q # c /\ pcb[c].parent_ebp = q /\ frame[q] = Awaiting(t, c)
  BY <1>1, <1>2, ParentOfLeaf
<1>4. /\ pc \in [Terms -> PcLabels] /\ ks \in [Terms -> Pids]
      /\ frame \in [Pids -> Frames] /\ sched_pid \in [Terms -> Pids]
  BY DEF TypeInv, TypeOK
<1>5. stacks[q] = Awaiting(t, c)
  BY <1>3, <1>4
<1>6. /\ frame' = [stacks EXCEPT ![q] = Live(t), ![c] = NoFrame]
      /\ ks' = [ks EXCEPT ![t] = q]
      /\ pc' = [pc EXCEPT ![t] = "ret"]
  BY <1>3, <1>5 DEF ReturnToParent, Goto
<1>7. /\ frame'[q] = Live(t) /\ frame'[c] = NoFrame
      /\ \A p \in Pids : p # q /\ p # c => frame'[p] = frame[p]
  BY <1>3, <1>4, <1>6
<1>8. \A p \in Pids : Alive(p)' <=> (Alive(p) /\ p # c)
  BY <1>4, <1>6 DEF Alive, Window
<1>9. Leaf(t)' = q /\ \A u \in Terms : u # t => Leaf(u)' = Leaf(u)
  BY <1>1, <1>4, <1>6 DEF Leaf
<1>10. q \in Pids
  BY <1>3
<1>11. F!End(t, q)
  BY <1>1, <1>2, <1>7, <1>8, <1>9, <1>10, FamilyEnd
<1> QED
  BY <1>10, <1>11

(* A tick outside the windows does nothing to a family.                     *)
LEMMA TickFamily ==
    ASSUME TypeInv, TypeInv', SafeInv, Tick,
           pc[cur_sched_term] \notin {"h_store"} \cup Window.freed
    PROVE  UNCHANGED family
<1>1. /\ \A t \in Terms : Leaf(t)' = Leaf(t)
      /\ \A p \in Pids : Alive(p)' <=> Alive(p)
      /\ \A p \in Pids : /\ frame'[p].child = frame[p].child
                         /\ frame[p].child # 0 => frame'[p] = frame[p]
  BY SafeTick
<1>2. Chains
  BY DEF SafeInv
<1>3. UNCHANGED pcb
  BY DEF Tick, tree
<1> QED
  BY <1>1, <1>2, <1>3, FamilySame

-----------------------------------------------------------------------------
(* Every step before a tick in "dec" or "freed" is a step of Families or    *)
(* leaves the families alone.                                               *)
LEMMA FamilyStep ==
    ASSUME TypeInv, SafeInv, CountOK, [Next]_vars, Undisturbed'
    PROVE  F!Next \/ UNCHANGED family
<1>1. CASE UNCHANGED vars
  BY <1>1 DEF vars, count, tree, thread, sched, family, Owners, Leaves, Awaited, Alive,
     Owner, Leaf
<1>2. ASSUME NEW t \in Terms,
             \/ SyscallEntry(t) \/ OtherSyscall(t) \/ SyscallReturn(t)
             \/ ContextSwitch(t) \/ ExecLimit(t) \/ ExecZero(t) \/ ExecFail(t)
             \/ ExecNoSlot(t)
      PROVE  UNCHANGED family
  BY <1>2, SyscallFamily
<1>3. ASSUME NEW t \in Terms, ExecSpawn(t) PROVE F!Next
  BY <1>3, SpawnFamily DEF F!Next
<1>4. ASSUME NEW t \in Terms,
             \/ HaltBegin(t) \/ HaltLoad(t) \/ HaltStore(t) \/ HaltFree(t)
             \/ HaltTss(t) \/ HaltSched(t) \/ HaltPage(t)
      PROVE  UNCHANGED family
  BY <1>4, HaltFamily
<1>5. ASSUME NEW t \in Terms, HaltReturn(t) PROVE F!Next
  <2>1. /\ t = cur_sched_term /\ cur_sched_term' = t /\ pc[t] = "h_ret"
        /\ ReturnToParent(t, ks[t], frame)
        /\ UNCHANGED <<process_array, sched_pid, pcb>>
    BY <1>5 DEF HaltReturn, At, count, tree, sched
  <2>2. PICK c \in Pids : c = ks[t] /\ c = Leaf(t) /\ c > SHELL_NUM
    BY <2>1 DEF Leaf, TypeInv, TypeOK, HaltPc
  <2>3. sched_pid[t] = pcb[c].parent_pid
    BY <2>1, <2>2, Running DEF ContextOK
  <2>4. sched_pid' = [sched_pid EXCEPT ![t] = pcb[c].parent_pid]
    BY <2>1, <2>3 DEF TypeInv, TypeOK
  <2>5. process_array'[c] # 1
    BY <2>1, <2>2 DEF SafeInv, WindowsOK, Window
  <2>6. \E q \in Pids : F!End(t, q)
    BY <2>1, <2>2, <2>4, <2>5, ReturnFamily
  <2> QED
    BY <2>6 DEF F!Next
<1>6. ASSUME NEW t \in Terms, Exception(t) PROVE F!Next
  <2>1. PICK c : c = ExceptionStack(t)
    OBVIOUS
  <2>2. /\ t = cur_sched_term /\ cur_sched_term' = t
        /\ pc[t] \in {"user", "body"}
        /\ c > SHELL_NUM
        /\ process_array' = [process_array EXCEPT ![c] = -1]
        /\ sched_pid' = [sched_pid EXCEPT ![t] = pcb[c].parent_pid]
        /\ ReturnToParent(t, c, [frame EXCEPT ![c] = Live(t)])
        /\ UNCHANGED pcb
    BY <1>6, <2>1 DEF Exception, At, sched
  <2>3. ContextOK(t) /\ CpuOK /\ Leaf(t) \in Pids
    BY <2>2, Running
  <2>4. c = Leaf(t) /\ c \in Pids
    BY <2>1, <2>2, <2>3 DEF ExceptionStack, ContextOK, CpuOK, Leaf
  <2>5. pc[t] \notin Window.freed
    BY <2>2 DEF Window
  <2>6. process_array'[c] = -1 /\ \A p \in Pids : p # c => process_array'[p] = process_array[p]
    BY <2>2, <2>4 DEF TypeInv, TypeOK
  <2>7. PICK stacks : stacks = [frame EXCEPT ![c] = Live(t)] /\ ReturnToParent(t, c, stacks)
    BY <2>2
  <2>8. process_array'[c] # 1
    BY <2>6
  <2>9. \E q \in Pids : F!End(t, q)
    BY <2>2, <2>4, <2>5, <2>6, <2>7, <2>8, ReturnFamily
  <2> QED
    BY <2>9 DEF F!Next
<1>7. CASE Tick
  <2>1. TypeInv' /\ pc[cur_sched_term] \notin {"h_store"} \cup Window.freed
    BY <1>7, TypeStep, UndisturbedBefore
  <2> QED
    BY <1>7, <2>1, TickFamily
<1> QED
  BY <1>1, <1>2, <1>3, <1>4, <1>5, <1>6, <1>7 DEF Next, KernelStep

(* The first state: the root shells, each the only one of its family.       *)
LEMMA FamilyInit == Init => F!Init
<1> SUFFICES ASSUME Init PROVE F!Init
  OBVIOUS
<1>1. \A t \in Terms : pc[t] \in {"cs", "new"} /\ sched_pid[t] = t + 1
  BY DEF Init, PitInit
<1>2. Leaves = [t \in Terms |-> t + 1]
  BY <1>1 DEF Leaves, Leaf
<1>3. Awaited = [p \in Pids |-> 0]
  BY DEF Awaited, Init, LaunchInit, Live, NoFrame
<1>4. \A p \in Pids : p - 1 \in Terms <=> p <= SHELL_NUM
  BY ShellAssumption, ProgsAssumption DEF Pids, Terms
<1>5. \A p \in Pids : Alive(p) <=> p <= SHELL_NUM
  <2>1. cur_sched_term \in Terms
    BY ShellAssumption DEF Init, PitInit, Terms
  <2>2. pc[cur_sched_term] \notin Window.freed
    BY <1>1, <2>1 DEF Window
  <2>3. \A p \in Pids : process_array[p] = 1 <=> p <= SHELL_NUM
    BY DEF Init, LaunchInit
  <2> QED
    BY <2>2, <2>3 DEF Alive
<1>6. Owners = [p \in Pids |-> IF p - 1 \in Terms THEN p - 1 ELSE -1]
  BY <1>4, <1>5 DEF Owners, Owner
<1> QED
  BY <1>2, <1>3, <1>6 DEF F!Init, F!FREE

(* The refinement: for every number of terminals, slots and ticks, what     *)
(* execute, halt, EXCEPTION_MAKER and the PIT handler do to slots, PCBs and *)
(* stacks is, until a tick falls into process_num-- or the end of a halt,   *)
(* to start programs in free slots and to end them in favour of the program *)
(* that waits.                                                              *)
THEOREM ProcessImplementsFamilies == Spec => ImplementsFamilies
<1>1. IndInv /\ [Next]_vars => [Undisturbed' => F!Next]_<<Owners, Leaves, Awaited>>
  <2> SUFFICES ASSUME IndInv, [Next]_vars, Undisturbed'
               PROVE  F!Next \/ UNCHANGED <<Owners, Leaves, Awaited>>
    OBVIOUS
  <2>1. TypeInv
    BY DEF IndInv
  <2>2. Undisturbed
    BY <2>1, UndisturbedBefore
  <2>3. SafeInv /\ CountOK
    BY <2>2 DEF IndInv
  <2> QED
    BY <2>1, <2>3, FamilyStep DEF family
<1> QED
  BY <1>1, FamilyInit, Inductive, PTL DEF Spec, ImplementsFamilies

(* Without such ticks the system is a system of families.                   *)
THEOREM UndisturbedFamilies == Spec /\ []Undisturbed => F!Spec
<1>1. Undisturbed' /\ [Undisturbed' => F!Next]_<<Owners, Leaves, Awaited>>
         => [F!Next]_<<Owners, Leaves, Awaited>>
  OBVIOUS
<1> QED
  BY <1>1, ProcessImplementsFamilies, PTL DEF F!Spec, ImplementsFamilies
=============================================================================
