-------------------------------- MODULE Rtc --------------------------------
(***************************************************************************)
(* The virtualised real-time clock (rtc.c).  The chip always interrupts at *)
(* MAX_FREQ; the handler counts its interrupts per terminal and simulates  *)
(* one for a terminal whenever the divisor frequencies[t] is reached.      *)
(* rtc_read, run by the program of a terminal, waits for the next one.     *)
(*                                                                         *)
(* rtc_open, rtc_write and the reset in rtc_read are between cli and sti,  *)
(* the handler has IF = 0: a step each.  The loop of rtc_read has IF = 1.  *)
(* Arguments that rtc_write refuses change nothing and are left out.       *)
(***************************************************************************)
EXTENDS Integers

CONSTANTS
    SHELL_NUM,  \* terminals; the code has 3
    MAX_FREQ,   \* the rate of the chip; the code has 1024
    Freqs       \* the frequencies rtc_write accepts

ASSUME RtcAssumption ==
    /\ SHELL_NUM \in Nat \ {0}
    /\ MAX_FREQ \in Nat /\ MAX_FREQ >= 2
    /\ Freqs \subseteq 2 .. MAX_FREQ

Terms == 0 .. SHELL_NUM - 1

VARIABLES
    cur_sched_term,   \* the terminal that has the processor
    frequencies,      \* divisor of each terminal; 0 before its first rtc_open
    count,            \* chip interrupts counted for it
    interrupt_flags,  \* a simulated interrupt occurred
    pc,               \* rtc_read of each terminal: "user" or "wait"
    waited,           \* history: chip interrupts since its read started
    since             \* history: chip interrupts since its last simulated one,
                      \* -1 when its divisor has changed in between

clock == <<frequencies, count, interrupt_flags, since>>
vars == <<cur_sched_term, clock, pc, waited>>

TypeOK ==
    /\ cur_sched_term \in Terms
    /\ frequencies \in [Terms -> 0 .. MAX_FREQ]
    /\ count \in [Terms -> 0 .. MAX_FREQ - 1]
    /\ interrupt_flags \in [Terms -> BOOLEAN]
    /\ pc \in [Terms -> {"user", "wait"}]
    /\ waited \in [Terms -> 0 .. MAX_FREQ]
    /\ since \in [Terms -> -1 .. MAX_FREQ - 1]

Init ==
    /\ cur_sched_term = 0
    /\ frequencies = [t \in Terms |-> 0]
    /\ count = [t \in Terms |-> 0]
    /\ interrupt_flags = [t \in Terms |-> FALSE]
    /\ pc = [t \in Terms |-> "user"]
    /\ waited = [t \in Terms |-> 0]
    /\ since = [t \in Terms |-> -1]

-----------------------------------------------------------------------------
(* count[i]++ >= frequencies[i] - 1                                         *)
ReachedLate(t) == count[t] >= frequencies[t]
ReachedExactly(t) == count[t] = frequencies[t] - 1
Reached(t) == count[t] >= frequencies[t] - 1

(* rtc_interrupt_handler.                                                   *)
RtcInterrupt ==
    /\ count' = [t \in Terms |-> IF Reached(t) THEN 0 ELSE count[t] + 1]
    /\ interrupt_flags' = [t \in Terms |-> interrupt_flags[t] \/ Reached(t)]
    /\ since' = [t \in Terms |-> IF Reached(t) THEN 0
                                 ELSE IF since[t] = -1 THEN -1 ELSE since[t] + 1]
    /\ waited' = [t \in Terms |->
                    IF pc[t] = "wait" /\ ~interrupt_flags[t] THEN waited[t] + 1
                                                             ELSE waited[t]]
    /\ UNCHANGED <<cur_sched_term, frequencies, pc>>

(* rtc_open and rtc_write set the divisor of the running terminal; what was *)
(* counted so far stays.                                                    *)
SetRate(t, rate) ==
    /\ cur_sched_term = t /\ pc[t] = "user"
    /\ frequencies' = [frequencies EXCEPT ![t] = rate]
    /\ since' = [since EXCEPT ![t] = IF rate = frequencies[t] THEN @ ELSE -1]
    /\ UNCHANGED <<cur_sched_term, count, interrupt_flags, pc, waited>>

rtc_open(t) == SetRate(t, MAX_FREQ \div 2)
rtc_write(t) == \E freq \in Freqs : SetRate(t, MAX_FREQ \div freq)

(* rtc_read up to sti.                                                      *)
KeepFlag(t) == interrupt_flags
FlagOnRead(t) == [interrupt_flags EXCEPT ![t] = FALSE]

ReadStart(t) ==
    /\ cur_sched_term = t /\ pc[t] = "user"
    /\ interrupt_flags' = FlagOnRead(t)
    /\ waited' = [waited EXCEPT ![t] = 0]
    /\ pc' = [pc EXCEPT ![t] = "wait"]
    /\ UNCHANGED <<cur_sched_term, frequencies, count, since>>

(* The loop of rtc_read sees the flag of its terminal.                      *)
FlagOfFirst(t) == interrupt_flags[0]
FlagSeen(t) == interrupt_flags[t]

ReadReturn(t) ==
    /\ cur_sched_term = t /\ pc[t] = "wait"
    /\ FlagSeen(t)
    /\ waited' = [waited EXCEPT ![t] = 0]
    /\ pc' = [pc EXCEPT ![t] = "user"]
    /\ UNCHANGED <<cur_sched_term, clock>>

(* pit_interrupt_handler, as far as it concerns this module.                *)
NextTerm(t) == (t + 1) % SHELL_NUM
Tick ==
    /\ cur_sched_term' = NextTerm(cur_sched_term)
    /\ UNCHANGED <<clock, pc, waited>>

Next ==
    \/ RtcInterrupt \/ Tick
    \/ \E t \in Terms : rtc_open(t) \/ rtc_write(t) \/ ReadStart(t) \/ ReadReturn(t)

Spec == Init /\ [][Next]_vars

(* Both timers keep interrupting and a waiting loop looks at its flag in    *)
(* some slice of its terminal.                                              *)
Fairness ==
    WF_vars(RtcInterrupt) /\ WF_vars(Tick) /\ \A t \in Terms : SF_vars(ReadReturn(t))
FairSpec == Spec /\ Fairness

-----------------------------------------------------------------------------
(* The divisor in force: 0, before the first rtc_open, acts as 1.           *)
Period(t) == IF frequencies[t] = 0 THEN 1 ELSE frequencies[t]

(* A read waits for fewer chip interrupts than one period of its terminal,  *)
(* though count keeps what it was under an earlier rate and the other       *)
(* terminals change theirs.                                                 *)
WaitBounded ==
    \A t \in Terms : pc[t] = "wait" /\ ~interrupt_flags[t] => waited[t] < Period(t)

(* A read never returns for an interrupt that came before it.               *)
NoStaleInterrupt ==
    \A t \in Terms : pc[t] = "wait" /\ interrupt_flags[t] => waited[t] >= 1

(* While the rate of a terminal does not change, its simulated interrupts   *)
(* are exactly one period apart: when the next chip interrupt will simulate *)
(* one, it is the last of the period that began with the previous one.      *)
RateExact ==
    \A t \in Terms : since[t] >= 0 /\ Reached(t) => since[t] + 1 = Period(t)

(* A read returns.                                                          *)
ReadReturns == \A t \in Terms : pc[t] = "wait" ~> pc[t] = "user"
=============================================================================
