------------------------------ MODULE Terminal ------------------------------
(***************************************************************************)
(* Keyboard input: the keyboard interrupt handler with its line discipline *)
(* and the Alt+Fn change of the displayed terminal (kb.c, change_shell of  *)
(* lib.c), against terminal_read, which the program of each terminal       *)
(* executes (kb.c) when the PIT gives it the processor (pit.c).            *)
(*                                                                         *)
(* The handler runs with IF = 0: one action per branch of                  *)
(* recent_release_exec and after_release_exec.  terminal_read waits with   *)
(* IF = 1; only its copy is between cli and sti.                           *)
(*                                                                         *)
(* kb_buf[0 .. buf_index-1] of a terminal is the sequence buf[t].  What the*)
(* keys echo, and Ctrl+L, which only repaints, belong to the display.      *)
(* Scan codes 90..128 and above 217 leave the handler at once.             *)
(***************************************************************************)
EXTENDS Integers, Sequences

CONSTANTS
    SHELL_NUM,   \* terminals; the code has 3
    BUF_LENGTH,  \* size of kb_buf; the code has 128
    Letters,     \* keys for which in_char_range holds (L_CHAR is not special here)
    Symbols,     \* the other keys that end in print_scancode
    Special      \* the keys below that the keyboard has; bound of the model

ASSUME TerminalAssumption == SHELL_NUM \in Nat \ {0} /\ BUF_LENGTH \in Nat \ {0}

Terms == 0 .. SHELL_NUM - 1
Shifts == {"LEFT_SHIFT", "RIGHT_SHIFT"}
Modifiers == Shifts \cup {"CTRL", "ALT"}
SpecialKeys == Modifiers \cup {"F", "CAPS_LOCK", "BACK_SPACE", "NEW_LINE"}
ASSUME KeysAssumption ==
    Special \subseteq SpecialKeys /\ (Letters \cup Symbols) \cap SpecialKeys = {}

VARIABLES
    cur_terminal,      \* the displayed terminal
    cur_sched_term,    \* the terminal that has the processor
    buf,               \* kb_buf and buf_index of each terminal
    line_buffer_flag,  \* set by Enter
    shift_pressed, caps_lock, ctrl_pressed, alt_pressed,
    held,              \* the modifier keys that are physically down
    pc,                \* terminal_read of each terminal: "user", "wait", "copy"
    race               \* history: what has disturbed the input of each terminal

line == <<buf, line_buffer_flag>>
mods == <<shift_pressed, caps_lock, ctrl_pressed, alt_pressed, held>>
vars == <<cur_terminal, cur_sched_term, line, mods, pc, race>>

Char == [key : Letters \cup Symbols \cup {"F", "NEW_LINE"}, upper : BOOLEAN]
NewLine == [key |-> "NEW_LINE", upper |-> FALSE]
Races == {"ahead", "foreign", "erased"}

TypeOK ==
    /\ cur_terminal \in Terms
    /\ cur_sched_term \in Terms
    /\ buf \in [Terms -> Seq(Char)]
    /\ line_buffer_flag \in [Terms -> BOOLEAN]
    /\ shift_pressed \in [Terms -> BOOLEAN]
    /\ caps_lock \in [Terms -> BOOLEAN]
    /\ ctrl_pressed \in [Terms -> BOOLEAN]
    /\ alt_pressed \in [Terms -> BOOLEAN]
    /\ held \subseteq Modifiers
    /\ pc \in [Terms -> {"user", "wait", "copy"}]
    /\ race \in [Terms -> SUBSET Races]

(* A store past kb_buf has overwritten the terminal's own fields.           *)
Overflow == \E t \in Terms : Len(buf[t]) > BUF_LENGTH

-----------------------------------------------------------------------------
(* init_shell, and pit_init's first terminal.                               *)
Init ==
    /\ cur_terminal = 0
    /\ cur_sched_term = 0
    /\ buf = [t \in Terms |-> << >>]
    /\ line_buffer_flag = [t \in Terms |-> FALSE]
    /\ shift_pressed = [t \in Terms |-> FALSE]
    /\ caps_lock = [t \in Terms |-> FALSE]
    /\ ctrl_pressed = [t \in Terms |-> FALSE]
    /\ alt_pressed = [t \in Terms |-> FALSE]
    /\ held = {}
    /\ pc = [t \in Terms |-> "user"]
    /\ race = [t \in Terms |-> {}]

-----------------------------------------------------------------------------
(* print_scancode: a character is dropped when the buffer is full or a line *)
(* is finished and not yet asked for.                                       *)
FullAtLength(c, t) == Len(buf[t]) >= BUF_LENGTH /\ c # NewLine
BufferFull(c, t) == Len(buf[t]) >= BUF_LENGTH - 1 /\ c # NewLine
Dropped(c, t) == BufferFull(c, t) \/ line_buffer_flag[t]

print_scancode(c) ==
    LET t == cur_terminal
    IN  buf' = IF Dropped(c, t) THEN buf ELSE [buf EXCEPT ![t] = Append(@, c)]

(* caps_and_shift, caps_no_shift, in_char_range: which half of kbdus a key  *)
(* takes its character from.                                                *)
UpperHalf(key) ==
    LET caps == caps_lock[cur_terminal]
        shift == shift_pressed[cur_terminal]
    IN  IF caps /\ key \in Letters THEN ~shift ELSE shift

PressChar(key) ==
    /\ print_scancode([key |-> key, upper |-> UpperHalf(key)])
    /\ UNCHANGED <<cur_terminal, cur_sched_term, line_buffer_flag, mods, pc, race>>

(* Enter also while nobody waits for a line.                                *)
PressEnter ==
    LET t == cur_terminal
    IN  /\ "NEW_LINE" \in Special
        /\ print_scancode(NewLine)
        /\ line_buffer_flag' = [line_buffer_flag EXCEPT ![t] = TRUE]
        /\ race' = IF pc[t] = "user" /\ ~line_buffer_flag[t]
                     THEN [race EXCEPT ![t] = @ \cup {"ahead"}] ELSE race
        /\ UNCHANGED <<cur_terminal, cur_sched_term, mods, pc>>

(* Backspace does not look at line_buffer_flag: it can take the newline.    *)
PressBackspace ==
    LET t == cur_terminal
    IN  /\ "BACK_SPACE" \in Special
        /\ Len(buf[t]) > 0
        /\ buf' = [buf EXCEPT ![t] = SubSeq(@, 1, Len(@) - 1)]
        /\ race' = IF line_buffer_flag[t]
                     THEN [race EXCEPT ![t] = @ \cup {"erased"}] ELSE race
        /\ UNCHANGED <<cur_terminal, cur_sched_term, line_buffer_flag, mods, pc>>

(* Fn: with Alt it displays terminal n (change_shell); alone it is a        *)
(* character, NUL in kbdus.                                                 *)
AnyModifier == alt_pressed[cur_terminal] \/ shift_pressed[cur_terminal]
SwitchRequested == alt_pressed[cur_terminal]

PressF(n) ==
    /\ "F" \in Special
    /\ IF SwitchRequested
         THEN cur_terminal' = n /\ UNCHANGED buf
         ELSE print_scancode([key |-> "F", upper |-> UpperHalf("F")])
              /\ UNCHANGED cur_terminal
    /\ UNCHANGED <<cur_sched_term, line_buffer_flag, mods, pc, race>>

-----------------------------------------------------------------------------
(* The flags of the modifiers are those of the displayed terminal.          *)
Set(flag, value) == [flag EXCEPT ![cur_terminal] = value]

PressModifier(k) ==
    /\ k \in Special \cap Modifiers
    /\ held' = held \cup {k}
    /\ shift_pressed' = IF k \in Shifts THEN Set(shift_pressed, TRUE) ELSE shift_pressed
    /\ ctrl_pressed' = IF k = "CTRL" THEN Set(ctrl_pressed, TRUE) ELSE ctrl_pressed
    /\ alt_pressed' = IF k = "ALT" THEN Set(alt_pressed, TRUE) ELSE alt_pressed
    /\ UNCHANGED <<cur_terminal, cur_sched_term, line, caps_lock, pc, race>>

PressCaps ==
    /\ "CAPS_LOCK" \in Special
    /\ caps_lock' = Set(caps_lock, ~caps_lock[cur_terminal])
    /\ UNCHANGED <<cur_terminal, cur_sched_term, line, shift_pressed, ctrl_pressed,
                   alt_pressed, held, pc, race>>

(* after_release_exec.                                                      *)
OnlyLeftShiftRelease(k) ==
    /\ shift_pressed' = IF k = "LEFT_SHIFT" THEN Set(shift_pressed, FALSE)
                                            ELSE shift_pressed
    /\ ctrl_pressed' = IF k = "CTRL" THEN Set(ctrl_pressed, FALSE) ELSE ctrl_pressed
    /\ alt_pressed' = IF k = "ALT" THEN Set(alt_pressed, FALSE) ELSE alt_pressed
after_release_exec(k) ==
    /\ shift_pressed' = IF k \in Shifts THEN Set(shift_pressed, FALSE) ELSE shift_pressed
    /\ ctrl_pressed' = IF k = "CTRL" THEN Set(ctrl_pressed, FALSE) ELSE ctrl_pressed
    /\ alt_pressed' = IF k = "ALT" THEN Set(alt_pressed, FALSE) ELSE alt_pressed

Release(k) ==
    /\ k \in held
    /\ held' = held \ {k}
    /\ after_release_exec(k)
    /\ UNCHANGED <<cur_terminal, cur_sched_term, line, caps_lock, pc, race>>

Keyboard ==
    /\ ~Overflow
    /\ \/ \E key \in Letters \cup Symbols : PressChar(key)
       \/ PressEnter \/ PressBackspace \/ PressCaps
       \/ \E n \in Terms : PressF(n)
       \/ \E k \in Modifiers : PressModifier(k) \/ Release(k)

-----------------------------------------------------------------------------
Runs(t, label) == ~Overflow /\ cur_sched_term = t /\ pc[t] = label

(* terminal_read starts: an Enter of the past does not count.               *)
KeepFlag(t) == line_buffer_flag
FlagOnRead(t) == [line_buffer_flag EXCEPT ![t] = FALSE]

ReadStart(t) ==
    /\ Runs(t, "user")
    /\ line_buffer_flag' = FlagOnRead(t)
    /\ pc' = [pc EXCEPT ![t] = "wait"]
    /\ UNCHANGED <<cur_terminal, cur_sched_term, buf, mods, race>>

(* The loop ends; interrupts are still enabled.                             *)
DisplayedLineDone(t) == line_buffer_flag[cur_terminal]
LineDone(t) == line_buffer_flag[t]

ReadWake(t) ==
    /\ Runs(t, "wait")
    /\ LineDone(t)
    /\ pc' = [pc EXCEPT ![t] = "copy"]
    /\ UNCHANGED <<cur_terminal, cur_sched_term, line, mods, race>>

(* cli, copy, sti: the buffer is the one of the displayed terminal.  A read *)
(* of n bytes gives the program Delivered(n) and forgets the rest.          *)
ReadBuffer == cur_terminal
SmallerOf(a, b) == IF a < b THEN a ELSE b
Prefix(s, n) == SubSeq(s, 1, SmallerOf(n, Len(s)))
Delivered(n) == Prefix(buf[ReadBuffer], n)

ReadCopy(t) ==
    LET d == ReadBuffer
    IN  /\ Runs(t, "copy")
        /\ buf' = [buf EXCEPT ![d] = << >>]
        /\ race' = IF d = t THEN [race EXCEPT ![t] = {}]
                   ELSE [u \in Terms |-> IF u \in {d, t} THEN race[u] \cup {"foreign"}
                                                         ELSE race[u]]
        /\ pc' = [pc EXCEPT ![t] = "user"]
        /\ UNCHANGED <<cur_terminal, cur_sched_term, line_buffer_flag, mods>>

(* open("stdin") and open("stdout") reach terminal_open, which empties the  *)
(* buffer of the displayed terminal.  terminal_close is never reached:      *)
(* close refuses descriptors 0 and 1.                                       *)
terminal_open(t) ==
    LET d == cur_terminal
    IN  /\ Runs(t, "user")
        /\ buf' = [buf EXCEPT ![d] = << >>]
        /\ race' = IF d = t THEN race ELSE [race EXCEPT ![d] = @ \cup {"foreign"}]
        /\ UNCHANGED <<cur_terminal, cur_sched_term, line_buffer_flag, mods, pc>>

(* pit_interrupt_handler, as far as it concerns this module.                *)
NextTerm(t) == (t + 1) % SHELL_NUM

Tick ==
    /\ ~Overflow
    /\ cur_sched_term' = NextTerm(cur_sched_term)
    /\ UNCHANGED <<cur_terminal, line, mods, pc, race>>

Thread(t) == ReadStart(t) \/ ReadWake(t) \/ ReadCopy(t) \/ terminal_open(t)

Next == Keyboard \/ Tick \/ \E t \in Terms : Thread(t)

Spec == Init /\ [][Next]_vars

(* The PIT keeps interrupting, and a waiting loop or a copy advances in the *)
(* slices its terminal gets.  Nothing is assumed of the user or of when a   *)
(* program reads.                                                           *)
Fairness ==
    /\ WF_vars(Tick)
    /\ \A t \in Terms : SF_vars(ReadWake(t)) /\ SF_vars(ReadCopy(t))
FairSpec == Spec /\ Fairness

-----------------------------------------------------------------------------
(***************************************************************************)
(* Properties.                                                             *)
(***************************************************************************)

(* A read of n bytes that nothing has disturbed returns a prefix of one     *)
(* line: the newline can only be its last character, and it is there unless *)
(* fewer bytes were asked for than the line has.                            *)
OneLinePerRead ==
    \A t \in Terms, n \in 0 .. BUF_LENGTH :
        LET s == Delivered(n)
        IN  Runs(t, "copy") /\ ReadBuffer = t /\ race[t] = {} =>
                /\ \A i \in 1 .. Len(s) - 1 : s[i] # NewLine
                /\ Len(s) < n => s # << >> /\ s[Len(s)] = NewLine

(* A terminal whose Enter has woken its read still has the whole line, with *)
(* the newline at the end, whatever the other terminals and the keyboard    *)
(* did since, unless that terminal was disturbed.                           *)
LineReady ==
    \A t \in Terms : race[t] = {} /\ pc[t] # "user" /\ line_buffer_flag[t] =>
        buf[t] # << >> /\ buf[t][Len(buf[t])] = NewLine

(* buf_index stays within kb_buf on a terminal that was not disturbed: the  *)
(* newline takes the last place and nothing is stored after it.             *)
BufferKept == \A t \in Terms : race[t] \subseteq {"erased"} => Len(buf[t]) <= BUF_LENGTH

(* The display changes only while Alt is physically down: alt_pressed is    *)
(* kept per terminal and stays set on the terminal one leaves, yet it is    *)
(* never stuck on the terminal one looks at.                                *)
AltNotStuck == alt_pressed[cur_terminal] => "ALT" \in held
SwitchNeedsAlt == [][cur_terminal' # cur_terminal => "ALT" \in held]_vars

(* shift_pressed gets stuck, set on the displayed terminal with no Shift    *)
(* key down, only by a return to a terminal that was left with Shift down:  *)
(* no release and no other key does it.                                     *)
ShiftStuck == shift_pressed[cur_terminal] /\ held \cap Shifts = {}
ShiftStuckOnlyBySwitch ==
    [][ShiftStuck' /\ ~ShiftStuck => cur_terminal' # cur_terminal]_vars

(* After Enter, a read in progress returns.                                 *)
ReadReturns ==
    \A t \in Terms : (pc[t] = "wait" /\ line_buffer_flag[t])
                         ~> (pc[t] = "user" \/ Overflow)

(* kb.c:199 "the number of bytes desired or the number of bytes typed": the *)
(* bytes are those typed on the terminal of the program that reads.         *)
ReadsOwnTerminal ==
    \A t \in Terms : Runs(t, "copy") => Delivered(BUF_LENGTH) = Prefix(buf[t], BUF_LENGTH)
=============================================================================
