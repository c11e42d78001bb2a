----------------------------- MODULE ProcessInv -----------------------------
(***************************************************************************)
(* The inductive invariant behind the safety properties of Process.  The   *)
(* properties alone are not inductive: that a halt returns to the right    *)
(* frame follows only from where every other terminal keeps its context,   *)
(* and the count follows only from every slot having one owner.            *)
(***************************************************************************)
EXTENDS Process

(* A process started by execute has a parent in its PCB.                    *)
HasParent(p) == p > SHELL_NUM => pcb[p].parent_pid \in Pids

(* Types, and what makes the parent fields of the PCBs in use meaningful.   *)
(* It holds however the ticks fall.                                         *)
TypeInv ==
    /\ TypeOK
    /\ \A t \in Terms : pc[t] \in HaltPc => ks[t] > SHELL_NUM
    /\ HasParent(tss_esp0)
    /\ \A t \in Terms : HasParent(sched_pid[t]) /\ HasParent(ks[t])
    /\ \A p \in Pids : pcb[p].parent_pid \in Pids => HasParent(pcb[p].parent_pid)
    /\ \A p \in Pids : pcb[p].parent_ebp \in Pids => HasParent(pcb[p].parent_ebp)

-----------------------------------------------------------------------------
(* The last process of the chain of t, also while its halt has already      *)
(* handed the terminal over to the parent.                                  *)
Leaf(t) == IF pc[t] \in {"h_page", "h_ret"} THEN ks[t] ELSE sched_pid[t]

(* In use, or being torn down by the running terminal.                      *)
Alive(p) ==
    \/ process_array[p] = 1
    \/ pc[cur_sched_term] \in Window.freed /\ ks[cur_sched_term] = p

(* The chains, stated link by link.                                         *)
LeafOK(t) ==
    /\ Alive(Leaf(t))
    /\ Owner(Leaf(t)) = t
    /\ frame[Leaf(t)].child = 0

WaitingOK(p) ==
    LET c == frame[p].child
    IN  c # 0 => /\ process_array[p] = 1
                 /\ Alive(c)
                 /\ c > SHELL_NUM
                 /\ pcb[c].parent_pid = p
                 /\ pcb[c].parent_ebp = p
                 /\ frame[p].term \in Terms
                 /\ Owner(p) = frame[p].term

ChildOK(p) ==
    Alive(p) /\ p > SHELL_NUM =>
        /\ pcb[p].parent_pid \in Pids
        /\ frame[pcb[p].parent_pid].child = p

EndOK(p) ==
    Alive(p) /\ frame[p].child = 0 => Owner(p) \in Terms /\ p = Leaf(Owner(p))

Chains ==
    /\ \A t \in Terms : process_array[t + 1] = 1
    /\ \A t \in Terms : LeafOK(t)
    /\ \A p \in Pids : WaitingOK(p) /\ ChildOK(p) /\ EndOK(p)

(* Where the context of terminal t is.                                      *)
ContextOK(t) ==
    /\ pc[t] = "user" /\ t # cur_sched_term =>
         ks[t] = sched_pid[t] /\ frame[ks[t]] = Live(t)
    /\ pc[t] \in {"sys", "zero", "body", "ret", "h_load", "h_store", "h_free",
                  "h_tss", "h_sched"} =>
         ks[t] = sched_pid[t] /\ frame[ks[t]] = Live(t)
    /\ pc[t] \in {"h_page", "h_ret"} =>
         frame[ks[t]] = Live(t) /\ sched_pid[t] = pcb[ks[t]].parent_pid
    /\ pc[t] = "cs" =>
         \/ ks[t] = sched_pid[t] /\ frame[ks[t]] = Live(t)
         \/ frame[ks[t]] = Awaiting(t, sched_pid[t])

(* What the processor holds for the running terminal.                       *)
CpuOK ==
    LET t == cur_sched_term
    IN  /\ pc[t] # "new"
        /\ pc[t] \notin {"h_sched"} => tss_esp0 = sched_pid[t]
        /\ pc[t] = "h_sched" => tss_esp0 = pcb[ks[t]].parent_pid

(* Only the running terminal is in a window no tick has hit.                *)
WindowsOK ==
    /\ \A t \in Terms : pc[t] \in {"h_store"} \cup Window.freed => t = cur_sched_term
    /\ pc[cur_sched_term] = "h_store" => tmp[cur_sched_term] = process_num
    /\ pc[cur_sched_term] \in Window.freed => process_array[ks[cur_sched_term]] = -1

CountOK ==
    process_num + Cardinality({t \in Terms : pc[t] = "h_free"}) = Cardinality(Used)

SafeInv ==
    /\ Chains
    /\ \A t \in Terms : ContextOK(t)
    /\ CpuOK
    /\ WindowsOK
    /\ wild \in {"none", "slot"}

(* What an execute past the limit check relies on, when no tick has landed  *)
(* in the windows "early" and "limit" either.                               *)
LimitOK ==
    /\ wild # "slot"
    /\ \A t \in Terms : pc[t] \in {"zero", "body", "h_free"} => t = cur_sched_term
    /\ pc[cur_sched_term] \in {"zero", "body"} => process_num < MAX_PROGS

(* The inductive invariant: links, contexts and count of the processes are  *)
(* in order as long as no tick has split the code that updates them.        *)
IndInv ==
    /\ TypeInv
    /\ Undisturbed => SafeInv /\ CountOK
    /\ Undisturbed /\ Clean({"early", "limit"}) => LimitOK

-----------------------------------------------------------------------------
(* The frame of the execute that waits for the halting process of t is      *)
(* still where the PCB says.                                                *)
Answers(t) ==
    LET q == pcb[ks[t]].parent_ebp
    IN  q \in Pids /\ frame[q] = Awaiting(t, ks[t])

(* What the processor holds, however the ticks fall outside the window      *)
(* "tss".  A halt whose slot was given away reads the parent of somebody    *)
(* else, but then it does not return.                                       *)
UserInv ==
    Clean({"tss"}) /\ wild = "none" =>
        /\ tss_esp0 = IF pc[cur_sched_term] = "h_sched"
                        THEN pcb[ks[cur_sched_term]].parent_pid
                        ELSE sched_pid[cur_sched_term]
        /\ pc[cur_sched_term] \notin {"h_sched", "h_page", "h_ret"} =>
              user_page = sched_pid[cur_sched_term]
        /\ pc[cur_sched_term] = "h_ret" =>
              user_page = sched_pid[cur_sched_term] \/ ~Answers(cur_sched_term)
        /\ \A t \in Terms : pc[t] = "h_sched" => t = cur_sched_term
        /\ \A t \in Terms : pc[t] \in {"h_page", "h_ret"} =>
              pcb[ks[t]].parent_pid = sched_pid[t] \/ ~Answers(t)

-----------------------------------------------------------------------------
(* The families of Process: a slot counts until its halt has returned, and  *)
(* an execute waits as long as its frame is on the stack.                   *)
Owners == [p \in Pids |-> IF Alive(p) THEN Owner(p) ELSE -1]
Leaves == [t \in Terms |-> Leaf(t)]
Awaited == [p \in Pids |-> frame[p].child]

F == INSTANCE Families WITH owner <- Owners, runs <- Leaves, awaits <- Awaited

(* Until a tick falls into process_num-- or into the end of a halt, every   *)
(* step of execute, halt, the exception handler and the scheduler starts    *)
(* one program in a free slot, or ends the program of one terminal in       *)
(* favour of the one that waits for it, or does nothing to any family.      *)
ImplementsFamilies ==
    /\ F!Init
    /\ [][Undisturbed' => F!Next]_<<Owners, Leaves, Awaited>>
=============================================================================
