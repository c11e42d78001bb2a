------------------------------ MODULE Families ------------------------------
(***************************************************************************)
(* What execute and halt promise: every terminal runs one program at a     *)
(* time.  A program that executes another waits for it, in a slot that     *)
(* nobody else gets meanwhile, and goes on when that program, and no       *)
(* other, ends.  What one terminal does changes nothing of another.        *)
(***************************************************************************)
EXTENDS Integers

CONSTANTS Terms, Pids

VARIABLES
    owner,   \* the terminal a slot is used for, or FREE
    runs,    \* the process each terminal runs
    awaits   \* the child for whose end a process waits, 0 if it does not

FREE == -1

Init ==
    /\ owner = [p \in Pids |-> IF p - 1 \in Terms THEN p - 1 ELSE FREE]
    /\ runs = [t \in Terms |-> t + 1]
    /\ awaits = [p \in Pids |-> 0]

Execute(t, p) ==
    /\ owner[p] = FREE
    /\ owner' = [owner EXCEPT ![p] = t]
    /\ runs' = [runs EXCEPT ![t] = p]
    /\ awaits' = [awaits EXCEPT ![runs[t]] = p]

(* The program of t ends and q, which waits for it, goes on.                *)
End(t, q) ==
    /\ owner[q] = t
    /\ awaits[q] = runs[t]
    /\ owner' = [owner EXCEPT ![runs[t]] = FREE]
    /\ runs' = [runs EXCEPT ![t] = q]
    /\ awaits' = [awaits EXCEPT ![q] = 0]

Next == \E t \in Terms, p \in Pids : Execute(t, p) \/ End(t, p)

Spec == Init /\ [][Next]_<<owner, runs, awaits>>
=============================================================================
