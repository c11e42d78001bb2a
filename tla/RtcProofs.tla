----------------------------- MODULE RtcProofs -----------------------------
(***************************************************************************)
(* Proofs about the virtualised real-time clock, for every number of       *)
(* terminals, every rate of the chip and every list of frequencies.        *)
(***************************************************************************)
EXTENDS Rtc, TLAPS

(* A read that is still waiting has waited for at most what was counted,    *)
(* and from the first interrupt on the count is below the divisor: only the *)
(* count a read starts with can be left over from a larger divisor.         *)
WaitInv(t) ==
    /\ pc[t] = "wait" /\ ~interrupt_flags[t] =>
          /\ waited[t] <= count[t]
          /\ waited[t] > 0 => count[t] < frequencies[t]
    /\ pc[t] = "wait" /\ interrupt_flags[t] => waited[t] >= 1

(* The count restarts with the period and has not passed its end, unless    *)
(* the divisor has changed since.                                           *)
RateInv(t) == since[t] >= 0 => since[t] = count[t] /\ count[t] < Period(t)

RtcInv == TypeOK /\ \A t \in Terms : WaitInv(t) /\ RateInv(t)

-----------------------------------------------------------------------------
(* Every terminal has a successor.                                          *)
LEMMA TermFacts == 0 \in Terms /\ \A t \in Terms : NextTerm(t) \in Terms
BY RtcAssumption DEF Terms, NextTerm

(* The divisors that rtc_open and rtc_write set are at least 1.             *)
LEMMA Quotient ==
    ASSUME NEW m \in Nat, NEW d \in 1 .. m
    PROVE  m \div d \in 1 .. m
<1> DEFINE q == m \div d
<1>1. q \in Int /\ d * q <= m /\ m < d * (q + 1)
  OBVIOUS
<1>2. q >= 1
  <2> SUFFICES ASSUME q <= 0 PROVE FALSE
    BY <1>1
  <2>1. d * (q + 1) <= d
    BY <1>1
  <2> QED
    BY <1>1, <2>1
<1>3. q <= d * q
  BY <1>1, <1>2
<1> QED
  BY <1>1, <1>2, <1>3

(* The divisors that rtc_open and rtc_write store are positive.             *)
LEMMA Divisors ==
    /\ MAX_FREQ \div 2 \in 1 .. MAX_FREQ
    /\ \A freq \in Freqs : MAX_FREQ \div freq \in 1 .. MAX_FREQ
BY Quotient, RtcAssumption

(* The first state.                                                         *)
LEMMA InitInv == Init => RtcInv
BY TermFacts, RtcAssumption DEF Init, RtcInv, TypeOK, WaitInv, RateInv, Period

(* An interrupt of the chip: every terminal counts it, or has its period    *)
(* end.                                                                     *)
LEMMA RtcInterruptInv == RtcInv /\ RtcInterrupt => RtcInv'
<1> SUFFICES ASSUME RtcInv, RtcInterrupt PROVE RtcInv'
  OBVIOUS
<1> USE RtcAssumption DEF RtcInv, TypeOK, RtcInterrupt
<1>1. ASSUME NEW t \in Terms
      PROVE  /\ count[t] \in 0 .. MAX_FREQ - 1
             /\ frequencies[t] \in 0 .. MAX_FREQ
             /\ waited[t] \in 0 .. MAX_FREQ
             /\ since[t] \in -1 .. MAX_FREQ - 1
             /\ WaitInv(t) /\ RateInv(t)
  OBVIOUS
<1>2. ASSUME NEW t \in Terms
      PROVE  /\ count'[t] \in 0 .. MAX_FREQ - 1
             /\ since'[t] \in -1 .. MAX_FREQ - 1
             /\ waited'[t] \in 0 .. MAX_FREQ
  BY <1>1 DEF Reached, WaitInv, RateInv
<1>3. TypeOK'
  BY <1>2
<1>4. ASSUME NEW t \in Terms PROVE WaitInv(t)'
  <2>1. /\ count'[t] = IF Reached(t) THEN 0 ELSE count[t] + 1
        /\ waited'[t] = IF pc[t] = "wait" /\ ~interrupt_flags[t] THEN waited[t] + 1
                                                                  ELSE waited[t]
        /\ frequencies'[t] = frequencies[t] /\ pc'[t] = pc[t]
    OBVIOUS
  <2>2. interrupt_flags'[t] <=> interrupt_flags[t] \/ Reached(t)
    BY Zenon
  <2>3. Reached(t) <=> count[t] >= frequencies[t] - 1
    BY DEF Reached
  <2> HIDE DEF RtcInv, TypeOK, RtcInterrupt
  <2> QED
    BY <1>1, <2>1, <2>2, <2>3 DEF WaitInv
<1>5. ASSUME NEW t \in Terms PROVE RateInv(t)'
  BY <1>1 DEF Reached, RateInv, Period
<1> QED
  BY <1>3, <1>4, <1>5

(* rtc_open and rtc_write: no read of this terminal is waiting, and the     *)
(* others keep their divisors.                                              *)
LEMMA SetRateInv ==
    ASSUME NEW t \in Terms, NEW rate \in 1 .. MAX_FREQ, RtcInv, SetRate(t, rate)
    PROVE  RtcInv'
<1> USE RtcAssumption DEF RtcInv, TypeOK, SetRate
<1>1. TypeOK'
  OBVIOUS
<1>2. ASSUME NEW u \in Terms PROVE WaitInv(u)'
  BY DEF WaitInv
<1>3. ASSUME NEW u \in Terms PROVE RateInv(u)'
  BY DEF RateInv, Period
<1> QED
  BY <1>1, <1>2, <1>3

(* rtc_read begins and returns.                                             *)
LEMMA ReadStartInv == ASSUME NEW t \in Terms, RtcInv, ReadStart(t) PROVE RtcInv'
<1> USE RtcAssumption DEF RtcInv, TypeOK, ReadStart, FlagOnRead
<1>1. TypeOK'
  OBVIOUS
<1>2. ASSUME NEW u \in Terms PROVE WaitInv(u)' /\ RateInv(u)'
  BY DEF WaitInv, RateInv, Period
<1> QED
  BY <1>1, <1>2

(* rtc_read returns.                                                        *)
LEMMA ReadReturnInv == ASSUME NEW t \in Terms, RtcInv, ReadReturn(t) PROVE RtcInv'
<1> USE RtcAssumption DEF RtcInv, TypeOK, ReadReturn, clock
<1>1. TypeOK'
  OBVIOUS
<1>2. ASSUME NEW u \in Terms PROVE WaitInv(u)' /\ RateInv(u)'
  BY DEF WaitInv, RateInv, Period
<1> QED
  BY <1>1, <1>2

(* Every step preserves the invariant.                                      *)
LEMMA NextInv == RtcInv /\ [Next]_vars => RtcInv'
<1> SUFFICES ASSUME RtcInv, [Next]_vars PROVE RtcInv'
  OBVIOUS
<1>1. CASE RtcInterrupt
  BY <1>1, RtcInterruptInv
<1>2. CASE Tick
  BY <1>2, TermFacts DEF Tick, RtcInv, TypeOK, WaitInv, RateInv, Period, clock
<1>3. ASSUME NEW t \in Terms, rtc_open(t) PROVE RtcInv'
  BY <1>3, SetRateInv, Divisors DEF rtc_open
<1>4. ASSUME NEW t \in Terms, rtc_write(t) PROVE RtcInv'
  BY <1>4, SetRateInv, Divisors DEF rtc_write
<1>5. ASSUME NEW t \in Terms, ReadStart(t) PROVE RtcInv'
  BY <1>5, ReadStartInv
<1>6. ASSUME NEW t \in Terms, ReadReturn(t) PROVE RtcInv'
  BY <1>6, ReadReturnInv
<1>7. CASE UNCHANGED vars
  BY <1>7 DEF vars, clock, RtcInv, TypeOK, WaitInv, RateInv, Period
<1> QED
  BY <1>1, <1>2, <1>3, <1>4, <1>5, <1>6, <1>7 DEF Next

(* The invariant of rtc.c: waiting, counting and the period of every        *)
(* terminal agree, whatever rates the programs set and when.                *)
THEOREM ClockSafe == Spec => []RtcInv
BY InitInv, NextInv, PTL DEF Spec

(* A read of the RTC waits for fewer chip interrupts than one period.       *)
THEOREM WaitIsBounded == Spec => []WaitBounded
<1>1. RtcInv => WaitBounded
  BY DEF RtcInv, TypeOK, WaitInv, WaitBounded, Period
<1> QED
  BY <1>1, ClockSafe, PTL

(* A read never returns for an interrupt simulated before it.               *)
THEOREM NothingStale == Spec => []NoStaleInterrupt
<1>1. RtcInv => NoStaleInterrupt
  BY DEF RtcInv, WaitInv, NoStaleInterrupt
<1> QED
  BY <1>1, ClockSafe, PTL

(* Simulated interrupts are exactly one period apart at a constant rate.    *)
THEOREM RateIsExact == Spec => []RateExact
<1>1. RtcInv => RateExact
  BY DEF RtcInv, TypeOK, RateInv, RateExact, Reached, Period
<1> QED
  BY <1>1, ClockSafe, PTL
=============================================================================
